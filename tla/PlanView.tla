------------------------------ MODULE PlanView ------------------------------
(***************************************************************************)
(* The query plan on screen: the tree built from the server's document,    *)
(* the doctor's findings about it, and the view with its cursor, collapsed *)
(* nodes, heat colours and insights strip (pkg/drivers/pg/plan.go,         *)
(* pkg/models/plan.go, pkg/query/plandoctor, pkg/gui/context/              *)
(* plan_context.go, pkg/gui/controllers/plan_controller.go).               *)
(*                                                                         *)
(* A document is a sequence of entries in the order a walk meets them, each *)
(* with its parent.  Numbers are the server's, times in tenths of a         *)
(* millisecond.  Cursors count from 0, as in the code.                      *)
(***************************************************************************)
EXTENDS Integers, Sequences, SequencesExt, FiniteSets, FiniteSetsExt

CONSTANTS
    PvDocs,   \* the documents a server may answer: sequences of entries
    PvKeys    \* the keys pressed: a subset of the names in Pressed

VARIABLE pv

-----------------------------------------
(* The tree. *)

Absent == -1           \* a number the document does not carry
NoNode == 0

\* buildPlanNode: an entry that is not an object is left out, a number that is
\* missing reads 0.
Parsed(doc) == {i \in DOMAIN doc : doc[i].object}
numberOf(v) == IF v = Absent THEN 0 ELSE v
hasActuals(n) == \E f \in {"rows", "loops", "time"} : n[f] # Absent
nodeHasActuals(doc) == \E i \in Parsed(doc) : hasActuals(doc[i])

childrenOf(doc, i) == {c \in Parsed(doc) : doc[c].parent = i}
findPath(doc, i) ==
    LET up[n \in 0..Len(doc)] == IF n = NoNode THEN {} ELSE {n} \cup up[doc[n].parent]
    IN  up[i]
below(doc, i) == {d \in Parsed(doc) \ {i} : i \in findPath(doc, d)}

totalTime(doc, i) == numberOf(doc[i].time) * Max({numberOf(doc[i].loops), 1})
selfCost(doc, i) == doc[i].cost - MapThenSumSet(LAMBDA c : doc[c].cost, childrenOf(doc, i))
selfTime(doc, i) == totalTime(doc, i) - MapThenSumSet(LAMBDA c : totalTime(doc, c), childrenOf(doc, i))

\* Parallel workers make a child's total exceed its parent's: that counts as 0.
heatBasis(doc, i) ==
    Max({0, IF nodeHasActuals(doc) THEN selfTime(doc, i) ELSE selfCost(doc, i)})

-----------------------------------------
(* The doctor. *)

material(doc, i) == heatBasis(doc, i) >= (IF nodeHasActuals(doc) THEN 1 ELSE 100)
ran(doc, i) == nodeHasActuals(doc) /\ doc[i].rows # Absent /\ numberOf(doc[i].loops) > 0

ruleBadRowEstimate(doc, i) ==
    LET actual == Max({numberOf(doc[i].rows), 1})
        guess  == Max({doc[i].est, 1})
    IN  ran(doc, i) /\ (actual >= 10 * guess \/ 10 * actual <= guess)

ruleSeqScanLarge(doc, i) ==
    LET kept    == numberOf(doc[i].rows) * Max({doc[i].loops, 1})
        removed == doc[i].removed * doc[i].loops
    IN  /\ doc[i].op = "Seq Scan" /\ ran(doc, i)
        /\ kept + removed >= 10000 /\ removed # 0
        /\ removed >= 9 * Max({kept, 1})

\* The inner side is the second child.
ruleNestedLoopBlowup(doc, i) ==
    LET kids == childrenOf(doc, i) IN
    /\ doc[i].op = "Nested Loop" /\ Cardinality(kids) >= 2
    /\ numberOf(doc[Min(kids \ {Min(kids)})].loops) >= 1000

ruleDiskSpill(doc, i) == doc[i].op \in {"Sort", "Incremental Sort", "Hash", "Hash Join"} /\ doc[i].spilled

ruleCacheMiss(doc, i) == doc[i].read >= 1000 /\ doc[i].read >= 2 * doc[i].hit

ruleHeapRefetch(doc, i) == doc[i].op = "Index Only Scan" /\ doc[i].heap >= 1000

\* The rules in the order they are asked; all but the last are warnings.
Rules == <<"estimate", "scan", "loop", "spill", "cache", "heap">>
Severity(r) == IF r = "heap" THEN 0 ELSE 1
Fires(doc, i, r) ==
    /\ material(doc, i)
    /\ CASE r = "estimate" -> ruleBadRowEstimate(doc, i)
         [] r = "scan" -> ruleSeqScanLarge(doc, i)
         [] r = "loop" -> ruleNestedLoopBlowup(doc, i)
         [] r = "spill" -> ruleDiskSpill(doc, i)
         [] r = "cache" -> ruleCacheMiss(doc, i)
         [] r = "heap" -> ruleHeapRefetch(doc, i)

\* Analyze: node by node, rule by rule.
walk(doc) ==
    LET all == [k \in 1..(Len(doc) * Len(Rules)) |->
                    [node |-> 1 + ((k - 1) \div Len(Rules)), rule |-> Rules[1 + ((k - 1) % Len(Rules))]]]
    IN  SelectSeq(all, LAMBDA f : f.node \in Parsed(doc) /\ Fires(doc, f.node, f.rule))

\* sortFindings, stable: the severest first, then the heaviest.
Precedes(s, h, first) == s > 0 \/ (s = 0 /\ (h > 0 \/ (h = 0 /\ first)))
InSequence(found, order) == [k \in DOMAIN order |-> found[order[k]]]
FindingsSorted(doc, found) ==
    LET before(a, b) == Precedes(Severity(found[a].rule) - Severity(found[b].rule),
                                 heatBasis(doc, found[a].node) - heatBasis(doc, found[b].node), a < b)
    IN  InSequence(found, SetToSortSeq(DOMAIN found, before))
sortFindings(doc) == FindingsSorted(doc, walk(doc))

-----------------------------------------
(* The view. *)

NoJump == [kind |-> "none", from |-> NoNode]

\* NewPlanContext: everything expanded, the cursor on the root.  A node's badge is
\* the first of its findings.
PlanContext(doc, found) ==
    LET own(i) == {k \in DOMAIN found : found[k].node = i}
    IN  [doc |-> doc, cursor |-> 0, collapsed |-> {}, raw |-> FALSE,
         findings |-> found,
         badge |-> [i \in {i \in Parsed(doc) : own(i) # {}} |-> found[Min(own(i))].rule],
         insights |-> FALSE, insightCursor |-> 0, jump |-> NoJump]
NewPlanContext(doc) == PlanContext(doc, sortFindings(doc))

PvInit == \E doc \in PvDocs : pv = NewPlanContext(doc)

\* VisibleNodes: a collapsed node hides what is below it.
VisibleNodes(p) ==
    SelectSeq([i \in 1..Len(p.doc) |-> i],
              LAMBDA i : i \in Parsed(p.doc) /\ (findPath(p.doc, i) \ {i}) \cap p.collapsed = {})

CursorNode(p) ==
    LET vis == VisibleNodes(p) IN
    IF vis = <<>> THEN NoNode ELSE vis[1 + Min({p.cursor, Len(vis) - 1})]

clamp(n, len) == Max({0, Min({n, len - 1})})
clampCursor(p) == [p EXCEPT !.cursor = clamp(@, Len(VisibleNodes(p)))]
showNode(p, i) ==
    LET open == [p EXCEPT !.collapsed = @ \ (findPath(p.doc, i) \ {i})]
    IN  [open EXCEPT !.cursor = SelectInSeq(VisibleNodes(open), LAMBDA n : n = i) - 1]

MoveCursor(p, delta) ==
    [p EXCEPT !.cursor = clamp(@ + delta, Len(VisibleNodes(p)))]

Toggle(p) ==
    LET n == CursorNode(p) IN
    IF n = NoNode \/ childrenOf(p.doc, n) = {} THEN p
    ELSE clampCursor([p EXCEPT !.collapsed = IF n \in @ THEN @ \ {n} ELSE @ \cup {n}])

ExpandAll(p) == [p EXCEPT !.collapsed = {}]

parents(doc) == {i \in Parsed(doc) : childrenOf(doc, i) # {} /\ doc[i].parent # NoNode}

CollapseAllButRoot(p) == clampCursor([p EXCEPT !.collapsed = parents(p.doc)])

\* JumpHeaviest: the first of the heaviest nodes below the cursor's, hidden ones
\* included; the nodes above it are expanded.
JumpHeaviest(p) ==
    LET root   == CursorNode(p)
        under  == IF root = NoNode THEN {} ELSE below(p.doc, root)
        top    == Max({heatBasis(p.doc, d) : d \in under})
        target == Min({d \in under : heatBasis(p.doc, d) = top})
    IN  IF under = {} THEN p
        ELSE [showNode(p, target) EXCEPT !.jump = [kind |-> "heaviest", from |-> root]]

MoveInsightCursor(p, delta) ==
    [p EXCEPT !.insightCursor = clamp(@ + delta, Len(p.findings))]

JumpToSelectedFinding(p) ==
    LET target == p.findings[p.insightCursor + 1].node IN
    [showNode(p, target) EXCEPT !.jump = [kind |-> "finding", from |-> target]]

InsightsActive(p) == p.insights /\ p.findings # <<>>

\* The handlers: with the strip on screen enter and the arrows work on it.
handleToggle(p) == IF InsightsActive(p) THEN JumpToSelectedFinding(p) ELSE Toggle(p)
handleCursor(p, delta) ==
    IF InsightsActive(p) THEN MoveInsightCursor(p, delta) ELSE MoveCursor(p, delta)

Pressed(p, key) ==
    CASE key = "toggle" -> handleToggle(p)
      [] key = "expandAll" -> ExpandAll(p)
      [] key = "collapseAll" -> CollapseAllButRoot(p)
      [] key = "heaviest" -> JumpHeaviest(p)
      [] key = "raw" -> [p EXCEPT !.raw = ~@]
      [] key = "insights" -> [p EXCEPT !.insights = ~@]
      [] key = "down" -> handleCursor(p, 1)
      [] key = "up" -> handleCursor(p, -1)

handleKey(key) == pv' = Pressed([pv EXCEPT !.jump = NoJump], key)

\* OpenPlanTab: another plan comes to the front with a view of its own.
OpenPlan == \E doc \in PvDocs : pv' = NewPlanContext(doc)

PvNext == (\E key \in PvKeys : handleKey(key)) \/ OpenPlan

PvSpec == PvInit /\ [][PvNext]_pv

-----------------------------------------
(* What is painted. *)

\* costThresholds: the percentiles of the visible rows.
Percentile(sorted, hundredths) == sorted[1 + ((hundredths * (Len(sorted) - 1)) \div 100)]
ThresholdsOf(sorted) ==
    [half |-> Percentile(sorted, 50), high |-> Percentile(sorted, 90), top |-> Percentile(sorted, 95)]
\* The heats in order, each as often as it is shown.
Ascending(heats) ==
    LET order == SetToSortSeq(DOMAIN heats, LAMBDA a, b : \/ heats[a] < heats[b]
                                                          \/ heats[a] = heats[b] /\ a < b)
    IN  InSequence(heats, order)
costThresholds(doc, vis) == ThresholdsOf(Ascending([k \in DOMAIN vis |-> heatBasis(doc, vis[k])]))

\* applyHeatColor, darkest to brightest.
applyHeatColor(t, b) ==
    CASE b >= t.top -> 3 [] b >= t.high -> 2 [] b >= t.half -> 1 [] OTHER -> 0

\* RenderBody: a row per visible node, the marker on the cursor's.
RenderRows(p, vis, t) ==
    [k \in DOMAIN vis |->
        [node |-> vis[k], marked |-> k = p.cursor + 1,
         color |-> IF Len(vis) >= 2 THEN applyHeatColor(t, heatBasis(p.doc, vis[k])) ELSE 0]]
RenderBody(p) == RenderRows(p, VisibleNodes(p), costThresholds(p.doc, VisibleNodes(p)))

-----------------------------------------
(* Properties. *)

\* Exactly one row of a plan carries the cursor, and it is the node that the next
\* command acts on, however the tree was folded before.
OneRowMarked(body) ==
    LET marked == {k \in DOMAIN body : body[k].marked}
    IN  body # <<>> => Cardinality(marked) = 1 /\ \A k \in marked : body[k].node = CursorNode(pv)

\* A jump ends on the node it is for, on a row that is shown: the heaviest node below
\* the one the jump started from, or the node of the chosen finding.
JumpLands ==
    LET n == CursorNode(pv) IN
    /\ pv.jump.kind = "heaviest" =>
         /\ pv.jump.from \in findPath(pv.doc, n) \ {n}
         /\ \A d \in below(pv.doc, pv.jump.from) : heatBasis(pv.doc, d) <= heatBasis(pv.doc, n)
    /\ pv.jump.kind = "finding" => n = pv.findings[pv.insightCursor + 1].node

\* The badge of a node is its severest finding, every node the doctor found something
\* about has one, and the strip lists the severest first.
SeverestShown ==
    /\ \A i \in Parsed(pv.doc) : \A k \in 1..Len(Rules) :
         Fires(pv.doc, i, Rules[k]) =>
            i \in DOMAIN pv.badge /\ Severity(pv.badge[i]) >= Severity(Rules[k])
    /\ \A j, k \in DOMAIN pv.findings :
         j < k => Severity(pv.findings[j].rule) >= Severity(pv.findings[k].rule)

\* A heavier row is never painted cooler than a lighter one, and the heaviest one shown
\* is the hottest colour.
HeatOrdered(body) ==
    Len(body) >= 2 =>
        \A j \in DOMAIN body :
            /\ \A k \in DOMAIN body :
                 heatBasis(pv.doc, body[j].node) >= heatBasis(pv.doc, body[k].node)
                    => body[j].color >= body[k].color
            /\ (\A k \in DOMAIN body :
                  heatBasis(pv.doc, body[j].node) >= heatBasis(pv.doc, body[k].node))
                    => body[j].color = 3

\* What the plan view promises, whatever the folding and the commands.
PlanTruth ==
    OneRowMarked(RenderBody(pv)) /\ JumpLands /\ SeverestShown /\ HeatOrdered(RenderBody(pv))
=============================================================================
