---------------------------- MODULE RelationPanel ----------------------------
(***************************************************************************)
(* Following foreign keys from a result row: the relationship panel docked *)
(* beside the grid, which follows the cursor after a debounce and fills in *)
(* previews and child counts from worker goroutines, the reverse picker,   *)
(* and the cache of foreign keys both read.  Meanwhile the user writes to  *)
(* the child tables, whose counts are then evicted, and the identity of a  *)
(* result is resolved.                                                     *)
(***************************************************************************)
EXTENDS Integers, Sequences, FiniteSets, Functions, SequencesExt

CONSTANTS
    RpTable,     \* the base table of each result tab
    RpKeyed,     \* tabs whose identity, once resolved, has a row identity
    RpCells,     \* RpCells[tab][row]: a function from column to value
    RpForward,   \* per table, the sequence of its foreign keys [ref, col]
    RpReverse,   \* per table, the sequence of keys into it [child, refcol]
    RpMaxRels,   \* relationships listed at most per direction
    RpTopics     \* what a behaviour may do, as budgets: records
                 \* [moves, tabs, toggles, keys, writes, idents, picks]

VARIABLE rp

RpTabs == DOMAIN RpTable

ASSUME RelationAssumption ==
    /\ RpMaxRels \in Nat
    /\ \A t \in RpTabs : RpTable[t] \in DOMAIN RpForward \cap DOMAIN RpReverse
    /\ \A t \in DOMAIN RpForward : RpForward[t] \in Seq(Range(RpForward[t]))
    /\ \A t \in DOMAIN RpReverse : RpReverse[t] \in Seq(Range(RpReverse[t]))

RpNone == "none"
RpNull == "null"
RpChildren == {k.child : k \in UNION {Range(RpReverse[t]) : t \in DOMAIN RpReverse}}

RpSpend(s, what) == [s EXCEPT !.left[what] = @ - 1]
RpCan(what) == rp.left[what] > 0
cursorRow(s) == s.row[s.tab]
here(s) == [tab |-> s.tab, row |-> cursorRow(s)]

-----------------------------------------
\* The cache of foreign keys: a miss loads from the server, which may
\* fail, and only an answer is stored.  A lookup is a record of the answer
\* and the cache it leaves behind.
FKGet(cache, keys, t) ==
    IF t \in cache THEN {[fks |-> keys[t], cache |-> cache]}
    ELSE {[fks |-> keys[t], cache |-> cache \cup {t}], [fks |-> <<>>, cache |-> cache]}
lookupForwardFK(s, t) == FKGet(s.forward, RpForward, t)
lookupReverseFK(s, t) == FKGet(s.reverse, RpReverse, t)

-----------------------------------------
\* Rebuilding the two lists for the row under the cursor.
splitBaseTable(s, t) == IF s.known[t] THEN RpTable[t] ELSE RpNone
rowSnapshot(s) == RpCells[s.tab][cursorRow(s)]

previewCacheKey(fk, value) == <<fk.ref, value>>
estimateCacheKey(fk, value) == [child |-> fk.child, value |-> value]

buildOutboundRel(fk, cells) ==
    LET bound == fk.col \in DOMAIN cells
        null  == bound /\ cells[fk.col] = RpNull
    IN  [fk |-> fk, bound |-> bound, null |-> null,
         key |-> IF bound /\ ~null THEN {previewCacheKey(fk, cells[fk.col])} ELSE {}]

buildInboundRel(fk, cells) ==
    [fk |-> fk,
     key |-> IF fk.refcol \in DOMAIN cells /\ cells[fk.refcol] # RpNull
             THEN {estimateCacheKey(fk, cells[fk.refcol])} ELSE {}]

listed(fks) == SubSeq(fks, 1, IF Len(fks) > RpMaxRels THEN RpMaxRels ELSE Len(fks))
outboundRels(fks, cells) == [i \in DOMAIN listed(fks) |-> buildOutboundRel(fks[i], cells)]
inboundRels(fks, cells) == [i \in DOMAIN listed(fks) |-> buildInboundRel(fks[i], cells)]

unlisted(s) == [s EXCEPT !.outbound = <<>>, !.inbound = <<>>, !.sel = 0, !.dirty = FALSE, !.built = here(s)]
\* The lists from what the lookups of the two directions, f and r, found.
relisted(s, f, r) ==
    LET keyed == s.tab \in RpKeyed
    IN  [unlisted(s) EXCEPT !.outbound = outboundRels(f.fks, rowSnapshot(s)), !.forward = f.cache,
                            !.inbound = IF keyed THEN inboundRels(r.fks, rowSnapshot(s)) ELSE <<>>,
                            !.reverse = IF keyed THEN r.cache ELSE s.reverse]
rebuildOutbound(s) ==
    LET t == splitBaseTable(s, s.tab)
    IN  IF t = RpNone THEN {unlisted(s)}
        ELSE {relisted(s, f, r) : f \in lookupForwardFK(s, t), r \in lookupReverseFK(s, t)}

-----------------------------------------
\* Fills.  A worker keeps the epoch, the count generation, the tab and the
\* generation of its identity it started under.
fill(s, kind, todo) ==
    [kind |-> kind, epoch |-> s.epoch, gen |-> s.gen, origin |-> s.tab, ident |-> s.ident[s.tab], todo |-> todo]
launchCount(s, w) == IF w.todo = <<>> THEN s ELSE [s EXCEPT !.workers = @ \cup {w}]

\* The keys of the first n relationships that the cache lacks, for every n.
pending(rels, cached) ==
    LET q[n \in 0..Len(rels)] ==
            IF n = 0 THEN <<>>
            ELSE IF rels[n].key \subseteq cached THEN q[n - 1] ELSE Append(q[n - 1], CHOOSE k \in rels[n].key : TRUE)
    IN  q
missing(rels, cached) == pending(rels, cached)[Len(rels)]

startPreviewFill(s) == launchCount(s, fill(s, "preview", missing(s.outbound, s.previews)))
startEstimateFill(s) == launchCount(s, fill(s, "estimate", missing(s.inbound, DOMAIN s.counts)))
startFills(s) == startEstimateFill(startPreviewFill(s))

selectedRel(s) == IF s.sel < Len(s.outbound) THEN {s.outbound[s.sel + 1]} ELSE {}
selectedInbound(s) ==
    LET i == s.sel - Len(s.outbound) IN IF i >= 0 /\ i < Len(s.inbound) THEN {s.inbound[i + 1]} ELSE {}

Unread == -1
Failed == -2
NoCount == [est |-> Unread, exact |-> Unread]
countOf(s, k) == IF k \in DOMAIN s.counts THEN s.counts[k] ELSE NoCount

maybeStartExactFill(s) ==
    LET keys == UNION {r.key : r \in selectedInbound(s)}
        todo == {k \in keys : countOf(s, k).exact = Unread}
    IN  IF s.focused /\ s.open /\ todo # {} THEN launchCount(s, fill(s, "exact", <<CHOOSE k \in todo : TRUE>>)) ELSE s

-----------------------------------------
\* Following the cursor and the active tab.
NotifyCursorChange(s) ==
    IF s.open THEN [s EXCEPT !.epoch = @ + 1, !.timer = s.epoch + 1] ELSE s
repaint(s, epoch) == IF epoch = s.epoch THEN [s EXCEPT !.ui = @ \cup {[kind |-> "repaint", epoch |-> epoch]}] ELSE s
NotifyActiveTabChanged(s) ==
    IF s.open THEN repaint([s EXCEPT !.epoch = @ + 1, !.timer = 0], s.epoch + 1) ELSE s

MovePanelCursor ==
    \E r \in DOMAIN RpCells[rp.tab] :
        /\ rp.picker.entries = <<>> /\ ~rp.focused /\ RpCan("moves")
        /\ r # cursorRow(rp)
        /\ rp' = NotifyCursorChange(RpSpend([rp EXCEPT !.row[rp.tab] = r], "moves"))

ActivateTab(s, t) == IF t = s.tab THEN s ELSE NotifyActiveTabChanged([s EXCEPT !.tab = t])
SwitchPanelTab ==
    \E t \in RpTabs :
        /\ t # rp.tab /\ RpCan("tabs")
        /\ rp' = ActivateTab(RpSpend(rp, "tabs"), t)

\* The identity of a result arrives after it was shown; nobody tells the panel.
IdentityResolved ==
    \E t \in RpTabs :
        /\ RpCan("idents")
        /\ rp' = RpSpend([rp EXCEPT !.known[t] = TRUE, !.ident[t] = @ + 1, !.dirty = TRUE], "idents")

TimerFires ==
    /\ rp.timer # 0
    /\ rp' = repaint([rp EXCEPT !.timer = 0], rp.timer)

RunRepaint ==
    \E j \in rp.ui :
        LET s == [rp EXCEPT !.ui = @ \ {j}] IN
        /\ j.kind = "repaint"
        /\ rp' \in IF j.epoch # s.epoch \/ ~s.open THEN {s} ELSE {startFills(b) : b \in rebuildOutbound(s)}

-----------------------------------------
\* Keys.
ClearCaches(s) == [s EXCEPT !.gen = @ + 1, !.previews = {}, !.counts = <<>>, !.dirty = TRUE]

TogglePanel ==
    LET s == RpSpend(rp, "toggles") IN
    /\ rp.picker.entries = <<>> /\ ~rp.focused /\ RpCan("toggles")
    /\ rp' \in IF s.open THEN {[ClearCaches(s) EXCEPT !.open = FALSE, !.focused = FALSE]}
               ELSE {startFills([b EXCEPT !.open = TRUE]) : b \in rebuildOutbound(s)}

\* The connection is deleted from the manager: the caches go, the panel stays.
ConnectionDeleted ==
    /\ RpCan("toggles")
    /\ rp' = ClearCaches(RpSpend(rp, "toggles"))

PanelKey == rp.open /\ rp.picker.entries = <<>> /\ RpCan("keys")

EnterPanel ==
    LET s == RpSpend(rp, "keys") IN
    /\ PanelKey /\ ~rp.focused
    /\ rp' = maybeStartExactFill([s EXCEPT !.focused = TRUE, !.sel = IF @ >= Len(s.outbound) THEN 0 ELSE @])

ExitPanel ==
    /\ PanelKey /\ rp.focused
    /\ rp' = RpSpend([rp EXCEPT !.focused = FALSE], "keys")

MoveSelection ==
    LET s == RpSpend(rp, "keys")
        n == Len(rp.outbound) + Len(rp.inbound)
        clamp(i) == IF i < 0 THEN 0 ELSE IF i >= n THEN n - 1 ELSE i
    IN  /\ PanelKey /\ rp.focused /\ n > 0
        /\ \E d \in {1, -1} : rp' = maybeStartExactFill([s EXCEPT !.sel = clamp(@ + d)])

\* A jump: the row whose key was sent as argument, the entry for coming back,
\* and whether the panel still owed the user a repaint.
Owed(s) == s.timer # 0 \/ \E j \in s.ui : j.kind = "repaint" /\ j.epoch = s.epoch
jumpFrom(s, args, entry) == [s EXCEPT !.jumped = [args |-> args, entry |-> entry, owed |-> Owed(s)]]
\* The run may be refused; otherwise its tab comes to the front.
openInbound(s, rel) ==
    LET j == jumpFrom(s, s.built, here(s)) IN
    IF rel.key = {} THEN {s} ELSE {j} \cup {NotifyActiveTabChanged(ActivateTab(j, t)) : t \in RpTabs \ {s.tab}}

\* An outbound jump binds the row under the cursor, not the listed one.
jumpOutbound(s, rel) ==
    LET j == jumpFrom(s, here(s), here(s)) IN
    IF rel.null \/ ~rel.bound THEN {s} ELSE {s, j} \cup {ActivateTab(j, t) : t \in RpTabs \ {s.tab}}

Jump ==
    LET s == RpSpend(rp, "keys") IN
    /\ PanelKey /\ rp.focused
    /\ rp' \in UNION ({openInbound(s, r) : r \in selectedInbound(s)} \cup {jumpOutbound(s, r) : r \in selectedRel(s)})

-----------------------------------------
\* The reverse picker: its entries, and where they were read.
NoPicker == [entries |-> <<>>, at |-> 0, origin |-> [tab |-> RpNone, row |-> 0]]

SetPickerTabs(entries, origin) == [entries |-> entries, at |-> 0, origin |-> origin]
StepPickerTab(p, d) == [p EXCEPT !.at = (@ + d + Len(p.entries)) % Len(p.entries)]
OpenReverse(s, entries) == IF entries = <<>> THEN s ELSE [s EXCEPT !.picker = SetPickerTabs(entries, here(s))]

reverseReferencedValues(fk, cells) == IF fk.refcol \in DOMAIN cells THEN {cells[fk.refcol]} ELSE {}

fkReverse ==
    LET s == RpSpend(rp, "picks")
        t == splitBaseTable(rp, rp.tab)
    IN  /\ rp.picker.entries = <<>> /\ ~rp.focused /\ RpCan("picks")
        /\ t # RpNone /\ rp.tab \in RpKeyed
        /\ \E r \in lookupReverseFK(s, t) :
              rp' = OpenReverse([s EXCEPT !.reverse = r.cache],
                                [i \in DOMAIN r.fks |-> reverseReferencedValues(r.fks[i], rowSnapshot(s))])

PickerTab ==
    /\ rp.picker.entries # <<>> /\ RpCan("picks")
    /\ \E d \in {1, -1} : rp' = RpSpend([rp EXCEPT !.picker = StepPickerTab(@, d)], "picks")

ClosePicker ==
    /\ rp.picker.entries # <<>>
    /\ rp' = [rp EXCEPT !.picker = NoPicker]

\* A refused run or tab leaves the picker up.
SelectReverse ==
    LET p == rp.picker
        s == RpSpend(rp, "picks")
        j == jumpFrom(s, p.origin, p.origin)
    IN  /\ p.entries # <<>> /\ RpCan("picks")
        /\ p.entries[p.at + 1] # {}
        /\ rp' \in {j} \cup {[ActivateTab(j, t) EXCEPT !.picker = NoPicker] : t \in RpTabs}

-----------------------------------------
\* Workers and what they publish.  The counts of a child table are read at
\* its current version; a read may fail, and an exact count may time out.
ReadEstimate(s, k) == {s.version[k.child], Failed}
ReadExact(s, k) == {s.version[k.child], Failed}
ReadPreview(s, k) == {s.previews, s.previews \cup {k}}

\* Mutant: the count generation is not compared.
publishAnyGeneration(s, j) ==
    /\ s.open /\ s.tab = j.origin /\ s.ident[j.origin] = j.ident
    /\ j.epoch = s.epoch
publishCount(s, j) ==
    /\ s.open /\ s.tab = j.origin /\ s.ident[j.origin] = j.ident
    /\ j.epoch = s.epoch /\ j.gen = s.gen

rest(s, w) ==
    LET t == Tail(w.todo)
        o == [s EXCEPT !.workers = @ \ {w}]
    IN  IF t = <<>> THEN o ELSE [o EXCEPT !.workers = @ \cup {[w EXCEPT !.todo = t]}]

WorkPreview ==
    \E w \in rp.workers :
        /\ w.kind = "preview"
        /\ rp' \in IF w.epoch # rp.epoch \/ ~rp.open THEN {[rp EXCEPT !.workers = @ \ {w}]}
                   ELSE {[rest(rp, w) EXCEPT !.previews = p] : p \in ReadPreview(rp, Head(w.todo))}

job(w, v) ==
    [kind |-> w.kind, epoch |-> w.epoch, gen |-> w.gen, origin |-> w.origin, ident |-> w.ident, key |-> Head(w.todo), got |-> v]
stopped(s, w) == w.epoch # s.epoch \/ w.gen # s.gen

WorkEstimate ==
    \E w \in rp.workers :
        /\ w.kind = "estimate"
        /\ rp' \in IF stopped(rp, w) THEN {[rp EXCEPT !.workers = @ \ {w}]}
                   ELSE {[rest(rp, w) EXCEPT !.ui = @ \cup {job(w, v)}] : v \in ReadEstimate(rp, Head(w.todo))}

\* An exact count that times out publishes nothing, like a stopped one.
WorkExact ==
    \E w \in rp.workers :
        /\ w.kind = "exact"
        /\ rp' \in {rest(rp, w)} \cup
                    (IF stopped(rp, w) \/ ~rp.focused THEN {}
                     ELSE {[rest(rp, w) EXCEPT !.ui = @ \cup {job(w, v)}] : v \in ReadExact(rp, Head(w.todo))})

RunPublish ==
    \E j \in rp.ui :
        LET s == [rp EXCEPT !.ui = @ \ {j}]
            c == countOf(s, j.key)
            new == IF j.kind = "estimate" THEN [c EXCEPT !.est = j.got] ELSE [c EXCEPT !.exact = j.got]
        IN  /\ j.kind \in {"estimate", "exact"}
            /\ rp' = IF publishCount(s, j) THEN [s EXCEPT !.counts = [k \in DOMAIN @ \cup {j.key} |->
                                                      IF k = j.key THEN new ELSE @[k]]]
                     ELSE s

-----------------------------------------
\* Writes.  A committed edit evicts the counts of its table; a statement
\* of the query editor evicts every count, once its stream is done.
WriteChild ==
    \E c \in RpChildren, how \in {"edit", "statement"} :
        /\ RpCan("writes")
        /\ rp' = RpSpend([rp EXCEPT !.version[c] = @ + 1,
                                    !.evicting = @ \cup {[how |-> how, child |-> c, version |-> rp.version[c] + 1]}], "writes")

EvictExactCounts(s, c) ==
    [s EXCEPT !.gen = @ + 1, !.counts = Restrict(@, {k \in DOMAIN @ : k.child # c}), !.reverse = @ \ {c}, !.dirty = TRUE]
EvictAllExactCounts(s) == [s EXCEPT !.gen = @ + 1, !.counts = <<>>, !.dirty = TRUE]

Evict ==
    \E e \in rp.evicting :
        LET s == [rp EXCEPT !.evicting = @ \ {e}, !.evicted[e.child] = IF @ < e.version THEN e.version ELSE @] IN
        rp' = IF e.how = "edit" THEN EvictExactCounts(s, e.child) ELSE EvictAllExactCounts(s)

-----------------------------------------
RpInit ==
    \E left \in RpTopics, tab \in RpTabs, known \in [RpTabs -> BOOLEAN] :
        /\ left.idents = 0 => \A t \in RpTabs : known[t]
        /\ rp = [open |-> FALSE, focused |-> FALSE, tab |-> tab, row |-> [t \in RpTabs |-> 1], known |-> known,
                 ident |-> [t \in RpTabs |-> 0], epoch |-> 0, timer |-> 0, ui |-> {}, workers |-> {},
                 built |-> [tab |-> RpNone, row |-> 0], outbound |-> <<>>, inbound |-> <<>>, sel |-> 0, dirty |-> FALSE,
                 previews |-> {}, counts |-> <<>>, gen |-> 0, forward |-> {}, reverse |-> {},
                 picker |-> NoPicker, jumped |-> [args |-> here([tab |-> tab, row |-> [t \in RpTabs |-> 1]]),
                                                  entry |-> here([tab |-> tab, row |-> [t \in RpTabs |-> 1]]), owed |-> FALSE],
                 version |-> [c \in RpChildren |-> 0], evicted |-> [c \in RpChildren |-> 0], evicting |-> {}, left |-> left]

RpNext ==
    \/ MovePanelCursor \/ SwitchPanelTab \/ IdentityResolved \/ TimerFires \/ RunRepaint
    \/ TogglePanel \/ ConnectionDeleted \/ EnterPanel \/ ExitPanel \/ MoveSelection \/ Jump
    \/ fkReverse \/ PickerTab \/ ClosePicker \/ SelectReverse
    \/ WorkPreview \/ WorkEstimate \/ WorkExact \/ RunPublish \/ WriteChild \/ Evict

RpSpec == RpInit /\ [][RpNext]_rp

-----------------------------------------
\* No cached child count was read before a write whose eviction has already
\* been done: a fill that was under way when the counts were evicted must not
\* put its old answer back (publishCount's generation check).
CountsFresh ==
    \A k \in DOMAIN rp.counts : \A v \in {rp.counts[k].est, rp.counts[k].exact} \ {Unread, Failed} :
        v >= rp.evicted[k.child]

\* Once the debounce and the scheduled repaint have run, the open panel lists
\* the relationships of the row under the cursor of the active tab.
PaintedForRow == rp.open /\ ~Owed(rp) => rp.built = here(rp)

\* A jump from the panel or from the picker asks for the keys of the row it
\* comes back to, unless it was made while a repaint was still owed.
JumpsHome == ~rp.jumped.owed => rp.jumped.args = rp.jumped.entry

\* When every fill has ended, each listed child has a count, an estimate or
\* an error mark, unless the counts were evicted or the identity changed meanwhile.
FilledIn ==
    rp.open /\ ~Owed(rp) /\ ~rp.dirty /\ ~(\E w \in rp.workers : w.kind = "estimate") /\ ~(\E j \in rp.ui : j.kind = "estimate")
        => \A i \in DOMAIN rp.inbound : \A k \in rp.inbound[i].key : countOf(rp, k) # NoCount

\* The relationship panel and the reverse picker show, and jump by, what is
\* true of the row in front of the user.
RelTruth == CountsFresh /\ PaintedForRow /\ JumpsHome /\ FilledIn
=============================================================================
