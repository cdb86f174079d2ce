------------------------------ MODULE ResultTabs ------------------------------
(***************************************************************************)
(* The result tabs (helpers/ui/result_tabs_helper.go, navigation_target.go, *)
(* result_jump_list.go, orchestrator/bound_navigation.go): tabs are opened, *)
(* queued behind a run, streamed, sorted in place by a second run, evicted, *)
(* closed and pre-empted, while row batches, completions, queued starts and *)
(* editability answers arrive on the UI goroutine in any order.             *)
(*                                                                          *)
(* Runs and tabs are numbered from one counter: a tab has the number of the *)
(* run that opened it, a sort takes a number without a tab. The rows of a   *)
(* tab are the runs they came from. Stop returns once the worker has ended, *)
(* so a stopped stream has posted its completion.                           *)
(***************************************************************************)
EXTENDS Integers, Sequences, FiniteSets, FiniteSetsExt, SequencesExt

CONSTANTS RtMax,   \* MaxResultTabs
          RtRuns,  \* bound on the runs
          RtJumps, \* capacity of the jump list
          RtKeys   \* bound on the commands that open no tab

ASSUME RtAssumption == RtMax \in Nat \ {0} /\ RtRuns \in Nat /\ RtJumps \in Nat \ {0} /\ RtKeys \in Nat

VARIABLE rt

RtIds == 1..RtRuns
RtNoTab == [slot |-> 0, state |-> "none", pinned |-> FALSE, cancelled |-> FALSE, complete |-> FALSE,
            disposed |-> FALSE, gen |-> 0, egen |-> 0, run |-> 0, rows |-> {}, edit |-> 0,
            wait |-> 0, sort |-> 0, shown |-> 0]
RtNoNav == [stage |-> "none", kind |-> "none", tab |-> 0, egen |-> 0, targets |-> {}, dir |-> 0]

RtInit == rt = [open |-> {}, tab |-> [i \in RtIds |-> RtNoTab], active |-> 0, n |-> 0, conn |-> 1,
                tasks |-> {}, ui |-> {}, done |-> {}, eof |-> {}, dir |-> [i \in RtIds |-> 0],
                nav |-> RtNoNav, jumps |-> <<>>, cursor |-> 0, keys |-> 0]

\* One more command of the user or of the launcher.
Command(s) == rt.keys < RtKeys /\ rt' = [s EXCEPT !.keys = @ + 1]

Flowing == {"running", "sorting"}
Flip(t, err) == [kind |-> "flip", tab |-> t.tab, gen |-> t.gen, err |-> err]

invalidateNavigation(s) == [s EXCEPT !.nav = RtNoNav]
setActive(s, i) == [invalidateNavigation(s) EXCEPT !.active = i]

\* runner.Stop on the tabs of T, after rh.Cancel: a worker parked between two
\* batches ends without an error, one inside Next with one.
StopStreams(s, T, err) ==
    LET ts == {t \in s.tasks : t.tab \in T}
    IN  [s EXCEPT !.tasks = @ \ ts, !.ui = @ \cup {Flip(t, err) : t \in ts},
                  !.done = @ \cup {t.run : t \in ts}]

\* The streams of the tabs end, and what is still posted for them does nothing when
\* it is served, so it is dropped here.
dispose(s, T) ==
    [StopStreams(s, T, FALSE) EXCEPT
        !.ui = {e \in @ : e.tab \notin T},
        !.tab = [i \in RtIds |-> IF i \in T THEN [RtNoTab EXCEPT !.disposed = TRUE] ELSE @[i]]]

\* The first k jumps without those to tab i, for every k.
JumpsWithout(jumps, i) ==
    LET kept[k \in 0..Len(jumps)] ==
            IF k = 0 THEN <<>> ELSE IF jumps[k] = i THEN kept[k - 1] ELSE Append(kept[k - 1], jumps[k])
    IN  kept
\* The jump list forgets a closed tab; the cursor 0 is its most recent end.
PruneByTab(s, i) ==
    LET kept == JumpsWithout(s.jumps, i)
    IN  [s EXCEPT !.jumps = kept[Len(@)],
                  !.cursor = IF @ # 0 /\ s.jumps[@] # i THEN Len(kept[@]) ELSE 0]

NextActive(s, slot) ==
    IF s.open = {} THEN 0
    ELSE LET left == {j \in s.open : s.tab[j].slot = Max({slot - 1, 0})}
         IN  IF left # {} THEN CHOOSE j \in left : TRUE
             ELSE CHOOSE j \in s.open : \A k \in s.open : s.tab[j].slot <= s.tab[k].slot
CloseTab(s, i) ==
    LET d == [dispose(s, {i}) EXCEPT !.open = @ \ {i}]
    IN  PruneByTab(setActive(d, NextActive(d, s.tab[i].slot)), i)

nextFreeSlot(s) == Min((0..RtMax - 1) \ {s.tab[j].slot : j \in s.open})
Unpinned(s) == {j \in s.open : ~s.tab[j].pinned}
CanAlloc(s) == Cardinality(s.open) < RtMax \/ Unpinned(s) # {}
\* At the cap the oldest tab that is not pinned is closed first.
evict(s) == IF Cardinality(s.open) < RtMax THEN s ELSE CloseTab(s, Min(Unpinned(s)))
allocTab(s, state) ==
    LET e == evict(s)
    IN  [e EXCEPT !.n = @ + 1, !.open = @ \cup {e.n + 1},
                  !.tab[e.n + 1] = [RtNoTab EXCEPT !.slot = nextFreeSlot(e), !.state = state]]

Introspect(s, i) == [kind |-> "edit", tab |-> i, gen |-> s.tab[i].egen, run |-> s.tab[i].run,
                     conn |-> s.conn]
\* NewQueryTask ignores a request under the key of a task that still runs.
startStreaming(s, i) ==
    LET new == [s.tab[i] EXCEPT !.gen = @ + 1, !.egen = @ + 1,
                                !.state = IF @ = "sorting" THEN @ ELSE "running",
                                !.rows = {}, !.edit = 0, !.shown = 0]
    IN  [s EXCEPT !.tab[i] = new,
                  !.tasks = IF \E t \in @ : t.tab = i THEN @
                            ELSE @ \cup {[tab |-> i, gen |-> new.gen, run |-> new.run]}]

priorRunningTab(s, i) == {j \in s.open \ {i} : s.tab[j].state \in {"running", "queued"}}

\* OpenResultTab, then the identity is attached to the active tab.
Attached(s, i) == [setActive(s, i) EXCEPT !.tab[i].egen = @ + 1]
Introspected(s, i) == [s EXCEPT !.ui = @ \cup {Introspect(s, i)}]
StartOrQueue(s, i) ==
    LET p == priorRunningTab(s, i)
    IN  IF p = {} THEN Introspected(Attached(startStreaming(s, i), i), i)
        ELSE Attached([s EXCEPT !.tab[i].state = "queued", !.tab[i].wait = s.tab[Max(p)].run], i)
OpenTab(s) ==
    LET i == s.n + 1 IN StartOrQueue([allocTab(s, "running") EXCEPT !.tab[i].run = i], i)

RtMore == rt.n < RtRuns
\* A session has one run in flight: the next one starts when all have ended.
SessionFree == RtMore /\ \A r \in 1..rt.n : r \in rt.done
OpenResultTab == /\ SessionFree /\ CanAlloc(rt)
                 /\ rt' = OpenTab(rt)
\* Every tab is pinned: the run is cancelled and its rows are closed.
CapReached == /\ SessionFree /\ ~CanAlloc(rt)
              /\ rt' = [rt EXCEPT !.n = @ + 1, !.done = @ \cup {rt.n + 1}]
OpenPlanTab == /\ RtMore /\ CanAlloc(rt)
               /\ \E state \in {"plan", "error"} :
                     rt' = [setActive(allocTab(rt, state), rt.n + 1) EXCEPT !.done = @ \cup {rt.n + 1}]

CloseActive == rt.active # 0 /\ Command(CloseTab(rt, rt.active))
\* A connection switch closes every tab.
CloseAll ==
    /\ rt.conn < 2 /\ rt.open # {}
    /\ rt' = [dispose(invalidateNavigation(rt), rt.open) EXCEPT
                 !.open = {}, !.active = 0, !.jumps = <<>>, !.cursor = 0, !.conn = 2]

PinActive == rt.active # 0 /\ Command([rt EXCEPT !.tab[rt.active].pinned = ~@])
SwitchTo(i) == i # rt.active /\ i \in rt.open /\ Command(setActive(rt, i))
\* Jump names a slot, Cycle the next one in slot order.
JumpOrCycle == \E i \in rt.open : SwitchTo(i)

cancelTab ==
    /\ rt.active # 0 /\ ~rt.tab[rt.active].cancelled
    /\ LET i == rt.active
           c == [rt EXCEPT !.tab[i].cancelled = TRUE,
                           !.tab[i].state = IF @ \in Flowing \cup {"queued"} THEN "cancelled" ELSE @]
       IN  \E err \in BOOLEAN :
              Command(IF rt.tab[i].state \in Flowing THEN StopStreams(c, {i}, err) ELSE c)

\* A new run pre-empts every stream; it may give up waiting for the workers,
\* which then end later.
PreemptInFlight ==
    LET busy == {i \in rt.open : rt.tab[i].state \in Flowing \cup {"queued"}}
        c == [rt EXCEPT !.tab = [i \in RtIds |->
                 IF i \in busy THEN [@[i] EXCEPT !.state = "cancelled", !.cancelled = TRUE] ELSE @[i]]]
    IN  /\ busy # {}
        /\ \/ \E err \in BOOLEAN : Command(StopStreams(c, {i \in busy : rt.tab[i].state \in Flowing}, err))
           \/ Command(c)

MarkConnectionLost ==
    LET busy == {i \in rt.open : rt.tab[i].state \in Flowing \cup {"queued"}}
    IN  /\ busy # {}
        /\ Command([rt EXCEPT !.tab = [i \in RtIds |->
                    IF i \in busy THEN [@[i] EXCEPT !.state = "connection lost"] ELSE @[i]]])

\* Streams: a batch and an end are both posted to the UI goroutine.
StreamBatch == \E t \in rt.tasks :
    rt' = [rt EXCEPT !.ui = @ \cup {[kind |-> "append", tab |-> t.tab, gen |-> t.gen, run |-> t.run]}]
StreamEnd == \E t \in rt.tasks, err \in BOOLEAN :
    rt' = [rt EXCEPT !.tasks = @ \ {t}, !.done = @ \cup {t.run}, !.ui = @ \cup {Flip(t, err)},
                     !.eof = IF err THEN @ ELSE @ \cup {t.run}]

Served(e) == [rt EXCEPT !.ui = @ \ {e}]
Live(e) == rt.tab[e.tab].gen = e.gen /\ ~rt.tab[e.tab].disposed
appendRows(e) ==
    rt' = IF Live(e)
          THEN [Served(e) EXCEPT !.tab[e.tab].rows = @ \cup {e.run},
                                 !.tab[e.tab].state = IF @ = "sorting" THEN "running" ELSE @]
          ELSE Served(e)
markCompleteOnUI(e) ==
    rt' = IF Live(e)
          THEN [Served(e) EXCEPT !.tab[e.tab].complete = TRUE,
                                 !.tab[e.tab].state =
                                    IF @ \notin Flowing THEN @
                                    ELSE IF rt.tab[e.tab].cancelled THEN "cancelled"
                                    ELSE IF e.err THEN "error" ELSE "complete"]
          ELSE Served(e)
applyEditability(e) ==
    rt' = IF rt.tab[e.tab].egen = e.gen /\ ~rt.tab[e.tab].disposed /\ e.conn = rt.conn
          THEN [Served(e) EXCEPT !.tab[e.tab].edit = e.run] ELSE Served(e)
\* The start of a queued tab. Its columns arrive with it, so editability is asked.
resumeQueued(e) ==
    LET s == startStreaming(Served(e), e.tab)
    IN  rt' = IF rt.tab[e.tab].cancelled \/ rt.tab[e.tab].disposed THEN Served(e)
              ELSE [s EXCEPT !.ui = @ \cup {Introspect(s, e.tab)}]
UIStep == \E e \in rt.ui :
    \/ e.kind = "append" /\ appendRows(e)
    \/ e.kind = "flip" /\ markCompleteOnUI(e)
    \/ e.kind = "edit" /\ applyEditability(e)
    \/ e.kind = "resume" /\ resumeQueued(e)

\* The goroutine behind a queued tab: the prior run is done, or the tab was
\* cancelled; with both it may see either.
queueBehind == \E i \in RtIds :
    /\ rt.tab[i].wait # 0
    /\ \/ /\ rt.tab[i].wait \in rt.done
          /\ rt' = [rt EXCEPT !.tab[i].wait = 0, !.ui = @ \cup {[kind |-> "resume", tab |-> i]}]
       \/ /\ rt.tab[i].cancelled
          /\ rt' = [rt EXCEPT !.tab[i].wait = 0]

\* ReadToEnd before the stream has started completes at once; otherwise it adds
\* the completion that the end of the stream posts anyway.
ReadToEnd ==
    /\ rt.active # 0
    /\ LET t == rt.tab[rt.active]
       IN  /\ ~t.complete /\ t.state \notin {"plan", "error"} /\ t.gen = 0
           /\ Command([rt EXCEPT !.ui = @ \cup {[kind |-> "flip", tab |-> rt.active, gen |-> 0, err |-> FALSE]}])

\* Navigation: a sort or a foreign key jump of the active tab is bound to it.
CaptureNavigation(kind, dir) ==
    [stage |-> "launch", kind |-> kind, tab |-> rt.active, egen |-> rt.tab[rt.active].egen, dir |-> dir,
     targets |-> {i \in rt.open : rt.tab[i].state \in Flowing}]
NavCurrent == /\ rt.nav.stage # "none" /\ rt.active = rt.nav.tab
              /\ ~rt.tab[rt.nav.tab].disposed /\ rt.tab[rt.nav.tab].egen = rt.nav.egen

HasGrid(i) == rt.tab[i].state \notin {"plan", "error"} /\ rt.tab[i].gen > 0
\* The direction goes round asc, desc, clear before the sorted query runs.
SortActiveTab ==
    /\ RtMore /\ rt.active # 0 /\ HasGrid(rt.active) /\ rt.tab[rt.active].state # "sorting"
    /\ LET dir == (rt.tab[rt.active].sort + 1) % 3
       IN  Command([rt EXCEPT !.tab[rt.active].sort = dir, !.nav = CaptureNavigation("sort", dir)])
runBoundForwardFK ==
    /\ RtMore /\ rt.active # 0 /\ HasGrid(rt.active) /\ rt.tab[rt.active].rows # {}
    /\ Command([rt EXCEPT !.nav = CaptureNavigation("fk", 0)])
CancelNavigation == rt.nav.stage # "none" /\ Command(invalidateNavigation(rt))

\* On the launcher: the streams seen at the capture are stopped, and their tabs
\* are not told.
NavPreempt ==
    /\ rt.nav.stage = "launch"
    /\ \E err \in BOOLEAN :
          rt' = IF NavCurrent
                THEN [StopStreams(rt, rt.nav.targets, err) EXCEPT !.nav.stage = "ready"]
                ELSE invalidateNavigation(rt)
\* The run failed.
NavFails == rt.nav.stage \in {"ready", "jumped"} /\ rt' = invalidateNavigation(rt)

Reattached(s, i, run, dir) ==
    LET new == [s.tab[i] EXCEPT !.run = run, !.complete = FALSE, !.cancelled = FALSE,
                                !.state = "sorting", !.egen = @ + 1]
        r == startStreaming([s EXCEPT !.n = run, !.dir[run] = dir, !.nav = RtNoNav, !.tab[i] = new], i)
    IN  [r EXCEPT !.tab[i].shown = r.tab[i].sort, !.ui = @ \cup {Introspect(r, i)}]
AdoptSort ==
    /\ rt.nav.stage = "ready" /\ rt.nav.kind = "sort" /\ SessionFree
    /\ rt' = IF NavCurrent THEN Reattached(rt, rt.nav.tab, rt.n + 1, rt.nav.dir)
             ELSE invalidateNavigation(rt)

\* A jump pushes its origin, which cuts what lies ahead of the cursor.
PushJump(s, i) ==
    LET kept == IF s.cursor = 0 THEN s.jumps ELSE SubSeq(s.jumps, 1, s.cursor)
        room == IF Len(kept) >= RtJumps THEN Tail(kept) ELSE kept
    IN  [s EXCEPT !.jumps = Append(room, i), !.cursor = 0]
NavHistory ==
    /\ rt.nav.stage = "ready" /\ rt.nav.kind = "fk" /\ NavCurrent
    /\ rt' = [PushJump(rt, rt.nav.tab) EXCEPT !.nav.stage = "jumped"]
NavOpen == /\ rt.nav.stage = "jumped" /\ SessionFree /\ CanAlloc(rt)
           /\ rt' = OpenTab(rt)

\* Back and Forward move the cursor, which is 0 again on the newest entry.
Back == IF rt.cursor = 0 THEN Len(rt.jumps) ELSE rt.cursor - 1
Forward == IF rt.cursor = 0 \/ rt.cursor = Len(rt.jumps) THEN 0 ELSE rt.cursor + 1
navigateToJumpEntry(at, cursor) ==
    /\ at # 0
    /\ Command([setActive(rt, rt.jumps[at]) EXCEPT !.cursor = cursor])
JumpBack == navigateToJumpEntry(Back, Back)
JumpForward == navigateToJumpEntry(Forward, IF Forward = Len(rt.jumps) THEN 0 ELSE Forward)

RtNext == \/ OpenResultTab \/ CapReached \/ OpenPlanTab \/ CloseActive \/ CloseAll \/ PinActive
          \/ JumpOrCycle \/ cancelTab \/ PreemptInFlight \/ MarkConnectionLost
          \/ StreamBatch \/ StreamEnd \/ UIStep \/ queueBehind \/ ReadToEnd
          \/ SortActiveTab \/ runBoundForwardFK \/ CancelNavigation \/ NavPreempt \/ NavFails
          \/ AdoptSort \/ NavHistory \/ NavOpen \/ JumpBack \/ JumpForward

RtSpec == RtInit /\ [][RtNext]_rt

-----------------------------------------
\* Whatever order batches, completions, sorts, evictions and closes come
\* in: a tab shows rows and editability of its own last run only, under the
\* direction that run was sorted by; a stream that is shown as flowing has
\* a worker or a completion to come; the active tab is open, the tabs stay
\* within the cap with a slot each, and the jump list names open tabs.
RowsOfLastRun == \A i \in rt.open :
    /\ rt.tab[i].rows \subseteq {rt.tab[i].run}
    /\ rt.tab[i].edit \in {0, rt.tab[i].run}
    /\ rt.tab[i].rows # {} => rt.tab[i].shown = rt.dir[rt.tab[i].run]
FlowingHasSource == \A i \in rt.open : rt.tab[i].state \in Flowing =>
    \/ \E t \in rt.tasks : t.tab = i /\ t.gen = rt.tab[i].gen
    \/ \E e \in rt.ui : e.kind = "flip" /\ e.tab = i /\ e.gen = rt.tab[i].gen
TabsSound ==
    /\ RowsOfLastRun /\ FlowingHasSource
    /\ rt.active = 0 <=> rt.open = {}
    /\ rt.active \in rt.open \cup {0}
    /\ Cardinality(rt.open) <= RtMax
    /\ \A i, j \in rt.open : rt.tab[i].slot = rt.tab[j].slot => i = j
    /\ ToSet(rt.jumps) \subseteq rt.open
=============================================================================
