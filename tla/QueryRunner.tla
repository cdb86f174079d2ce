---------------------------- MODULE QueryRunner ----------------------------
(***************************************************************************)
(* The query runner: one launcher goroutine that executes user actions in   *)
(* the order they were queued, the `last` slot through which a newer action *)
(* supersedes an older one, the out-of-band cancel that makes "last wins"   *)
(* real on the wire, and the bound results of navigation that nobody owns   *)
(* until the UI adopts them                                                 *)
(* (pkg/gui/controllers/helpers/data/query_runner.go and bound_query.go).   *)
(*                                                                          *)
(* Threads: the UI thread (enqueue, Cancel, the synchronous RunQuery, Bind, *)
(* quit), the launcher, the worker that retires a connection (Unbind), and  *)
(* one goroutine per wire cancel and per disposed result. A step is what    *)
(* one of them does between two reads of state the others write.            *)
(*                                                                          *)
(* The session is the lock of SQLSession and what runs under it; its own    *)
(* protocol is the module SQLSession. A cancel request that was sent        *)
(* reaches the backend before CancelCurrent returns, and then interrupts    *)
(* whatever statement the backend is executing at that moment.              *)
(***************************************************************************)
EXTENDS Integers, Sequences, FiniteSets

CONSTANTS
    Nil,        \* the nil pointer
    MaxActions,  \* bound: user actions
    MaxSessions, \* bound: connections the runner is bound to in turn
    MaxEvents,   \* bound: <leader>x, cancelled navigations, retirements, quit
    Kinds,       \* the kinds of action the user performs
    TabsFull     \* whether OpenResultTab may find every tab pinned

Actions == 1..MaxActions
Sessions == 1..MaxSessions
NoSess == 0
\* Statements of an action; a handle is named by the statement it streams.
Stmts(kind) == IF kind = "batch" THEN 1..2 ELSE 1..1
Handles == Actions \X (1..2)

\* The values that a nil pointer stands beside: what `last` points to, an
\* enqueue under way, a cancel under way.
Slots == [root : Actions, st : {"pending", "resolved"}, h : Handles \cup {Nil}, more : BOOLEAN]
Requests == [a : Actions, root : Actions \cup {Nil}]
Cancels == [st : {"load", "cas", "abandon", "check", "hit"}, root : Actions \cup {Nil},
            b : Sessions \cup {NoSess}, h : Handles \cup {Nil}, upto : 0..MaxActions,
            want : BOOLEAN]

ASSUME RunnerAssumption ==
    /\ TabsFull \in BOOLEAN
    /\ MaxActions \in Nat /\ MaxSessions \in Nat /\ MaxEvents \in Nat
    /\ Kinds \subseteq {"run", "batch", "explain", "bound", "sync"}
    /\ Nil \notin Actions \cup Handles \cup Slots \cup Requests \cup Cancels

VARIABLES
    binding,    \* QueryRunner.binding: the session, or NoSess
    generation, \* actionGeneration
    last,       \* QueryRunner.last
    act,        \* per action: its slot and what became of its statements
    queue,      \* launchQ
    launching,  \* launching
    run,        \* the launcher goroutine's position
    sess,       \* per session: streamMu and what holds it
    enq,        \* the enqueue that holds boundMu, or Nil
    canc,       \* cancels under way, by the thread that performs them
    tabs,       \* statements whose ack waits for the UI; handles a tab reads
    signal,     \* queryRunState: the run the indicator shows, or 0
    ui,         \* the UI thread
    retirer,    \* the worker that retires the connection
    events,     \* how many of these there have been
    stray       \* history: actions interrupted by a cancel meant for others

runnerVars == <<binding, generation, last, act, queue, launching, run, sess, enq,
          canc, tabs, signal, ui, retirer, events, stray>>

\* The threads that perform cancels.
WireCancel(a) == <<"wire", a>>
Disposer(a) == <<"dispose", a>>
NavWatch(a) == <<"nav", a>>
UI == <<"ui", 0>>
Launcher == <<"launcher", 0>>
Retirer == <<"retirer", 0>>
Threads == {UI, Launcher, Retirer}
             \cup {WireCancel(a) : a \in Actions} \cup {Disposer(a) : a \in Actions}
             \cup {NavWatch(a) : a \in Actions}

NewAction(kind, b, g) ==
    [kind |-> kind, binding |-> b, gen |-> g, ctx |-> FALSE, abandoned |-> FALSE,
     wire |-> FALSE, nav |-> FALSE, draining |-> FALSE, done |-> FALSE,
     acks |-> [i \in 1..2 |-> <<>>], result |-> "none"]

NoAction == NewAction("none", NoSess, 0)
NextAction == Cardinality({a \in Actions : act[a].kind # "none"}) + 1
IdleRun == [pc |-> "idle", a |-> 0, i |-> 0, b |-> NoSess, h |-> Nil, calls |-> 1,
            err |-> "ok"]
IdleUi == [pc |-> "idle", a |-> 0, h |-> Nil]
FreeSess == [st |-> "free", h |-> Nil, hit |-> FALSE, fence |-> FALSE, closed |-> FALSE]

RunnerInit ==
    /\ binding = IF MaxSessions > 0 THEN 1 ELSE NoSess
    /\ generation = 0
    /\ last = Nil
    /\ act = [a \in Actions |-> NoAction]
    /\ queue = <<>>
    /\ launching = FALSE
    /\ run = IdleRun
    /\ sess = [b \in Sessions |-> FreeSess]
    /\ enq = Nil
    /\ canc = [t \in Threads |-> Nil]
    /\ tabs = [acked |-> {}, open |-> {}]
    /\ signal = 0
    /\ ui = IdleUi
    /\ retirer = "idle"
    /\ events = 0
    /\ stray = {}

-----------------------------------------
(* Bounded events. *)

Event == events < MaxEvents /\ events' = events + 1

-----------------------------------------
(* Slots.  A slot is pending (the sentinel of an action) or resolved (one *)
(* statement's handle); a synchronous run's slot has no owner. *)

Pending(a) == [root |-> a, st |-> "pending", h |-> Nil, more |-> TRUE]
Resolved(a, h, more) == [root |-> a, st |-> "resolved", h |-> h, more |-> more]

\* pendingRoot: the sentinel that a cancel of slot s has to cancel, or Nil.
PendingRoot(s) ==
    IF s # Nil /\ (s.st = "pending" \/ s.more) THEN s.root ELSE Nil

HeldBy(h) == {b \in Sessions : sess[b].h = h}
Live(h) == \E b \in HeldBy(h) : sess[b].st = "live"
Released(h) == [b \in Sessions |-> IF sess[b].h = h /\ sess[b].st = "live"
                                     THEN [sess[b] EXCEPT !.st = "free", !.h = Nil,
                                                          !.hit = FALSE, !.fence = FALSE]
                                     ELSE sess[b]]

\* A streamed row set on session b ends: finish releases streamMu, the fence.
FreedSess(s) == [s EXCEPT !.st = "free", !.h = Nil, !.hit = FALSE, !.fence = FALSE]
Owner(h) == act[h[1]]

-----------------------------------------
(* Cancels.  cancelPendingSlot loads the slot, takes it out of `last` by *)
(* compare-and-swap, marks the sentinel abandoned and aborts the wire; the *)
(* other cancels start at the wire. *)

CancelSlot(upto, want) ==
    [st |-> "load", root |-> Nil, b |-> NoSess, h |-> Nil, upto |-> upto, want |-> want]
CancelCurrent(b, upto) ==
    [st |-> "check", root |-> Nil, b |-> b, h |-> Nil, upto |-> upto, want |-> FALSE]
CancelHandle(h, upto) ==
    [st |-> "check", root |-> Nil, b |-> NoSess, h |-> h, upto |-> upto, want |-> FALSE]

\* Cancel's continuation: a final result gets a cancel of its own handle.
AfterSlot(c, s) ==
    IF c.want /\ s # Nil /\ s.h # Nil THEN CancelHandle(s.h, c.upto) ELSE Nil

\* What the thread does when its cancel has returned: the wire goroutine
\* closes wireDone, the disposer closes the rows.
Returned(t, cs, ss, as) ==
    /\ canc' = [cs EXCEPT ![t] = Nil]
    /\ sess' = IF t[1] = "dispose"
                 THEN [b \in Sessions |-> IF ss[b].st = "live" /\ ss[b].h = <<t[2], 1>>
                                            THEN FreedSess(ss[b]) ELSE ss[b]]
                 ELSE ss
    /\ act' = IF t[1] = "wire" THEN [as EXCEPT ![t[2]].wire = TRUE] ELSE as

CancelLoad(t) ==
    /\ canc[t] # Nil /\ canc[t].st = "load"
    /\ LET r == PendingRoot(last)
       IN canc' = [canc EXCEPT ![t] = IF r = Nil THEN AfterSlot(canc[t], last)
                                      ELSE [canc[t] EXCEPT !.st = "cas", !.root = r]]
    /\ UNCHANGED <<binding, generation, last, act, queue, launching, run, sess, enq,
                   tabs, signal, ui, retirer, events, stray>>

CancelCas(t) ==
    /\ canc[t] # Nil /\ canc[t].st = "cas"
    /\ LET c == canc[t]
           mine == last # Nil /\ last.root = c.root
           win == mine /\ PendingRoot(last) # Nil
       IN /\ last' = IF win THEN Nil ELSE last
          /\ canc' = [canc EXCEPT ![t] = IF win THEN [c EXCEPT !.st = "abandon"]
                                         ELSE IF mine THEN AfterSlot(c, last) ELSE Nil]
    /\ UNCHANGED <<binding, generation, act, queue, launching, run, sess, enq, tabs,
                   signal, ui, retirer, events, stray>>

CancelAbandon(t) ==
    /\ canc[t] # Nil /\ canc[t].st = "abandon"
    /\ LET r == canc[t].root
       IN /\ act' = [act EXCEPT ![r].abandoned = TRUE, ![r].ctx = TRUE]
          /\ canc' = [canc EXCEPT ![t] = CancelCurrent(act[r].binding, canc[t].upto)]
    /\ UNCHANGED <<binding, generation, last, queue, launching, run, sess, enq, tabs,
                   signal, ui, retirer, events, stray>>

\* SQLSession.CancelCurrent returns when no Stream is in flight; RunHandle.Cancel
\* when its run has ended.
InFlight(c) ==
    IF c.h = Nil THEN {b \in Sessions \cap {c.b} : sess[b].st \in {"exec", "live"}}
                  ELSE {b \in HeldBy(c.h) : sess[b].st = "live"}

CancelCheck(t) ==
    /\ canc[t] # Nil /\ canc[t].st = "check"
    /\ LET bs == InFlight(canc[t])
       IN IF bs = {} THEN Returned(t, canc, sess, act)
          ELSE /\ canc' = [canc EXCEPT ![t].st = "hit", ![t].b = CHOOSE b \in bs : TRUE]
               /\ UNCHANGED <<sess, act>>
    /\ UNCHANGED <<binding, generation, last, queue, launching, run, enq, tabs,
                   signal, ui, retirer, events, stray>>

\* The request interrupts what the backend executes now.
CancelHit(t) ==
    /\ canc[t] # Nil /\ canc[t].st = "hit"
    /\ LET b == canc[t].b
           busy == sess[b].st \in {"exec", "live"}
       IN /\ Returned(t, canc, IF busy THEN [sess EXCEPT ![b].hit = TRUE] ELSE sess, act)
          /\ stray' = IF busy /\ sess[b].h[1] > canc[t].upto
                        THEN stray \cup {sess[b].h[1]} ELSE stray
    /\ UNCHANGED <<binding, generation, last, queue, launching, run, enq, tabs,
                   signal, ui, retirer, events>>

Canceller == \E t \in Threads :
    CancelLoad(t) \/ CancelCas(t) \/ CancelAbandon(t) \/ CancelCheck(t) \/ CancelHit(t)

-----------------------------------------
(* Enqueue.  Under boundMu: discard what nobody adopted, swap `last`, *)
(* cancel the prior sentinel, append the request; then the wire cancel of *)
(* the prior action, which the new one waits for. *)

BoundKind(a) == act[a].kind = "bound"

\* QueryBinding.Current and the caller's context.
Valid(a) == binding # NoSess /\ binding = act[a].binding
              /\ act[a].gen = generation /\ ~act[a].nav

Unadopted == {a \in Actions : act[a].result = "unadopted"}

\* discardUnadoptedLocked: each result is disposed by a goroutine of its own.
Discard(as, set) == [a \in Actions |-> IF a \in set THEN [as[a] EXCEPT !.result = "disposed"]
                                                    ELSE as[a]]
DiscardCanc(cs, set) == [t \in Threads |->
    IF t[1] = "dispose" /\ t[2] \in set THEN CancelHandle(<<t[2], 1>>, t[2]) ELSE cs[t]]

EnqueueSwap(kind) ==
    /\ ui.pc = "idle" /\ enq = Nil /\ NextAction \in Actions
    /\ kind \in Kinds \ {"sync"}
    /\ kind = "bound" => binding # NoSess
    /\ LET a == NextAction
       IN /\ generation' = generation + 1
          /\ act' = [Discard(act, Unadopted) EXCEPT
                       ![a] = NewAction(kind, binding, generation + 1)]
          /\ canc' = DiscardCanc(canc, Unadopted)
          /\ last' = Pending(a)
          /\ enq' = [a |-> a, root |-> PendingRoot(last)]
          /\ ui' = [ui EXCEPT !.pc = "enqueue", !.a = a]
          /\ signal' = IF kind \in {"run", "batch"} THEN a ELSE signal
    /\ UNCHANGED <<binding, queue, launching, run, sess, tabs, retirer, events,
                   stray>>

\* Mutant: the new action does not wait for the cancel of the old one.
EnqueueQueueNoWait ==
    /\ enq # Nil
    /\ LET a == enq.a
           r == enq.root
       IN /\ act' = IF r = Nil THEN [act EXCEPT ![a].wire = TRUE]
                    ELSE [act EXCEPT ![r].abandoned = TRUE, ![r].ctx = TRUE,
                                     ![a].wire = TRUE]
          /\ canc' = IF r = Nil THEN canc
                     ELSE [canc EXCEPT ![WireCancel(a)] = CancelCurrent(act[r].binding, a - 1)]
          /\ queue' = Append(queue, a)
          /\ launching' = TRUE
          /\ ui' = [ui EXCEPT !.pc = IF BoundKind(a) THEN "idle" ELSE "waitWire"]
    /\ enq' = Nil
    /\ UNCHANGED <<binding, generation, last, run, sess, tabs, signal, retirer,
                   events, stray>>

EnqueueQueue ==
    /\ enq # Nil
    /\ LET a == enq.a
           r == enq.root
       IN /\ act' = IF r = Nil THEN [act EXCEPT ![a].wire = TRUE]
                    ELSE [act EXCEPT ![r].abandoned = TRUE, ![r].ctx = TRUE]
          /\ canc' = IF r = Nil THEN canc
                     ELSE [canc EXCEPT ![WireCancel(a)] = CancelCurrent(act[r].binding, a - 1)]
          /\ queue' = Append(queue, a)
          /\ launching' = TRUE
          /\ ui' = [ui EXCEPT !.pc = IF BoundKind(a) THEN "idle" ELSE "waitWire"]
    /\ enq' = Nil
    /\ UNCHANGED <<binding, generation, last, run, sess, tabs, signal, retirer,
                   events, stray>>

WaitWire ==
    /\ ui.pc = "waitWire" /\ act[ui.a].wire
    /\ ui' = IdleUi
    /\ UNCHANGED <<binding, generation, last, act, queue, launching, run, sess, enq,
                   canc, tabs, signal, retirer, events, stray>>

-----------------------------------------
(* The launcher: execLaunch, one request at a time. *)

Goto(pc) == run' = [run EXCEPT !.pc = pc]
OpFailed(err) == run' = [run EXCEPT !.pc = "publish", !.h = Nil, !.err = err]

Pop ==
    /\ launching /\ run.pc = "idle" /\ queue # <<>>
    /\ run' = [IdleRun EXCEPT !.pc = "wait", !.a = Head(queue), !.i = 1]
    /\ queue' = Tail(queue)
    /\ UNCHANGED <<binding, generation, last, act, launching, sess, enq, canc, tabs,
                   signal, ui, retirer, events, stray>>

LauncherExits ==
    /\ launching /\ run.pc = "idle" /\ queue = <<>>
    /\ launching' = FALSE
    /\ UNCHANGED <<binding, generation, last, act, queue, run, sess, enq, canc, tabs,
                   signal, ui, retirer, events, stray>>

\* <-wireCancelDone.
WaitCancel ==
    /\ run.pc = "wait" /\ act[run.a].wire
    /\ Goto("check")
    /\ UNCHANGED <<binding, generation, last, act, queue, launching, sess, enq, canc,
                   tabs, signal, ui, retirer, events, stray>>

\* The preempt chokepoint before each statement: a bound request first asks
\* whether it is still current; an unbound one cancels the last resolved run.
Check ==
    /\ run.pc = "check"
    /\ IF BoundKind(run.a)
         THEN /\ enq = Nil
              /\ IF act[run.a].ctx \/ ~Valid(run.a)
                   THEN /\ act' = [act EXCEPT ![run.a].acks[run.i] = Append(@, "canceled"),
                                              ![run.a].draining = TRUE]
                        /\ run' = IdleRun
                   ELSE Goto("hook") /\ UNCHANGED act
              /\ UNCHANGED canc
         ELSE /\ canc' = IF last # Nil /\ last.h # Nil
                           THEN [canc EXCEPT ![Launcher] = CancelHandle(last.h, run.a)]
                           ELSE canc
              /\ Goto("hook")
              /\ UNCHANGED act
    /\ UNCHANGED <<binding, generation, last, queue, launching, sess, enq, tabs,
                   signal, ui, retirer, events, stray>>

\* PreemptInFlight, called for action a with session b: the streams that
\* tabs read are stopped, or the bounded wait expires and b is fenced.
Streaming == {b \in Sessions : sess[b].st = "live" /\ sess[b].h \in tabs.open}

PreemptHook(a, b) ==
    \/ /\ sess' = [c \in Sessions |-> IF c \in Streaming THEN FreedSess(sess[c]) ELSE sess[c]]
       /\ stray' = stray \cup {sess[c].h[1] : c \in {d \in Streaming : sess[d].h[1] > a}}
    \/ /\ Streaming # {}
       /\ sess' = IF b \in Streaming THEN [sess EXCEPT ![b].fence = TRUE] ELSE sess
       /\ UNCHANGED stray

Hook ==
    /\ run.pc = "hook" /\ canc[Launcher] = Nil
    /\ PreemptHook(run.a, IF BoundKind(run.a) THEN act[run.a].binding ELSE binding)
    /\ Goto("fence")
    /\ UNCHANGED <<binding, generation, last, act, queue, launching, enq, canc, tabs,
                   signal, ui, retirer, events>>

\* The op's fence: a cancelled sentinel never touches the session. A bound
\* op is admitted under boundMu.
Fence ==
    /\ run.pc = "fence"
    /\ enq = Nil \/ ~BoundKind(run.a)
    /\ IF act[run.a].ctx \/ (BoundKind(run.a) /\ ~Valid(run.a))
         THEN OpFailed("canceled") ELSE Goto("load")
    /\ UNCHANGED <<binding, generation, last, act, queue, launching, sess, enq, canc,
                   tabs, signal, ui, retirer, events, stray>>

\* The session calls an op makes: EXPLAIN ANALYZE outside a transaction is
\* wrapped in BEGIN and ROLLBACK.
CallsOf(kind) == IF kind = "explain" THEN {1, 3} ELSE {1}

\* r.load() inside the op; a bound op has its session.
Load ==
    /\ run.pc = "load"
    /\ LET b == IF BoundKind(run.a) THEN act[run.a].binding ELSE binding
       IN IF b = NoSess THEN OpFailed("nosession")
          ELSE \E n \in CallsOf(act[run.a].kind) :
                 run' = [run EXCEPT !.pc = "lock", !.b = b, !.calls = n]
    /\ UNCHANGED <<binding, generation, last, act, queue, launching, sess, enq, canc,
                   tabs, signal, ui, retirer, events, stray>>

\* The session refuses a fenced or closed call; otherwise it waits for streamMu.
Lock ==
    /\ run.pc = "lock"
    /\ \/ /\ sess[run.b].fence \/ sess[run.b].closed
          /\ run' = [run EXCEPT !.pc = "return", !.err = "refused"]
          /\ UNCHANGED sess
       \/ /\ sess[run.b].st = "free"
          /\ sess' = [sess EXCEPT ![run.b].h = <<run.a, run.i>>, ![run.b].st =
                        IF act[run.a].kind = "explain" THEN "explain" ELSE "exec"]
          /\ Goto("exec")
    /\ UNCHANGED <<binding, generation, last, act, queue, launching, enq, canc, tabs,
                   signal, ui, retirer, events, stray>>

\* The session call returns: a row stream, or an error (which an interrupted
\* or closed call always is), or the answer to one call of an explain, whose
\* ROLLBACK follows the EXPLAIN even when that failed.
Exec ==
    /\ run.pc = "exec"
    /\ \/ /\ act[run.a].kind # "explain"
          /\ sess' = [sess EXCEPT ![run.b] = FreedSess(@)]
          /\ run' = [run EXCEPT !.pc = "return", !.err = "failed"]
       \/ /\ act[run.a].kind # "explain" /\ ~sess[run.b].hit /\ ~sess[run.b].closed
          /\ sess' = [sess EXCEPT ![run.b].st = "live"]
          /\ run' = [run EXCEPT !.pc = "return", !.h = <<run.a, run.i>>]
       \/ /\ act[run.a].kind = "explain"
          /\ sess' = [sess EXCEPT ![run.b] = FreedSess(@)]
          /\ \E e \in IF sess[run.b].closed THEN {"failed"} ELSE {"ok", "failed"} :
               run' = IF run.calls = 1 \/ (run.calls = 3 /\ e = "failed")
                        THEN [run EXCEPT !.pc = "return", !.err = e]
                        ELSE [run EXCEPT !.pc = "lock", !.calls = @ - 1]
    /\ UNCHANGED <<binding, generation, last, act, queue, launching, enq, canc, tabs,
                   signal, ui, retirer, events, stray>>

\* A bound op returns once its cancel goroutine has.
OpReturns ==
    /\ run.pc = "return" /\ canc[NavWatch(run.a)] = Nil
    /\ Goto("publish")
    /\ UNCHANGED <<binding, generation, last, act, queue, launching, sess, enq, canc,
                   tabs, signal, ui, retirer, events, stray>>

\* Mutant: a handle resolved by a superseded launch is not closed.
PublishKeepsRows ==
    /\ run.pc = "publish"
    /\ LET a == run.a
           wins == ~act[a].abandoned /\ last # Nil /\ last.root = a
       IN /\ last' = IF wins THEN Resolved(a, run.h, run.i + 1 \in Stmts(act[a].kind)) ELSE last
          /\ run' = [run EXCEPT !.pc = "ack", !.h = IF wins THEN @ ELSE Nil,
                                !.err = IF wins THEN @ ELSE "canceled"]
    /\ UNCHANGED <<binding, generation, act, queue, launching, sess, enq, canc, tabs,
                   signal, ui, retirer, events, stray>>

\* publishResolved by compare-and-swap over the action's own slot; a losing
\* publisher closes its rows and reports a cancellation.
PublishHandle ==
    /\ run.pc = "publish"
    /\ LET a == run.a
           wins == ~act[a].abandoned /\ last # Nil /\ last.root = a
       IN /\ last' = IF wins THEN Resolved(a, run.h, run.i + 1 \in Stmts(act[a].kind)) ELSE last
          /\ sess' = IF wins \/ run.h = Nil THEN sess ELSE Released(run.h)
          /\ run' = [run EXCEPT !.pc = "ack", !.h = IF wins THEN @ ELSE Nil,
                                !.err = IF wins THEN @ ELSE "canceled"]
    /\ UNCHANGED <<binding, generation, act, queue, launching, enq, canc, tabs,
                   signal, ui, retirer, events, stray>>

\* The ack, on the launcher. An unbound handle travels to the UI; a bound one
\* becomes an unadopted result, or is disposed when its action is stale.
Ack ==
    /\ run.pc = "ack"
    /\ LET a == run.a
           owned == BoundKind(a) /\ run.h # Nil
           told == IF owned /\ ~Valid(a) THEN "canceled" ELSE run.err
           acked == [act EXCEPT ![a].acks[run.i] = Append(@, told)]
       IN /\ owned => enq = Nil
          /\ act' = IF ~owned THEN acked
                    ELSE IF Valid(a) THEN [acked EXCEPT ![a].result = "unadopted"]
                    ELSE Discard(acked, {a})
          /\ canc' = IF owned /\ ~Valid(a) THEN DiscardCanc(canc, {a}) ELSE canc
          /\ tabs' = IF owned THEN tabs
                     ELSE [tabs EXCEPT !.acked = @ \cup {<<a, run.i, run.h>>}]
    /\ Goto("next")
    /\ UNCHANGED <<binding, generation, last, queue, launching, sess, enq, signal, ui,
                   retirer, events, stray>>

\* The statements of the request that have not been launched.
Rest == {j \in Stmts(act[run.a].kind) : j > run.i}

\* After the ack: a cancelled action acks its remaining statements and stops.
\* execLaunch returns while a goroutine waits for the handles of the action.
NextStatement ==
    /\ run.pc = "next"
    /\ LET a == run.a
       IN IF act[a].ctx \/ Rest = {}
            THEN /\ act' = [act EXCEPT ![a].draining = TRUE, ![a].acks = [j \in 1..2 |->
                              IF j \in Rest THEN Append(@[j], "canceled") ELSE @[j]]]
                 /\ tabs' = [tabs EXCEPT !.acked = @ \cup {<<a, j, Nil>> : j \in Rest}]
                 /\ run' = IdleRun
            ELSE /\ run' = [IdleRun EXCEPT !.pc = "check", !.a = a, !.i = run.i + 1]
                 /\ UNCHANGED <<act, tabs>>
    /\ UNCHANGED <<binding, generation, last, queue, launching, sess, enq, canc,
                   signal, ui, retirer, events, stray>>

LaunchStep ==
    \/ Pop \/ LauncherExits \/ WaitCancel \/ Check \/ Hook \/ Fence \/ Load \/ Lock
    \/ Exec \/ OpReturns \/ PublishHandle \/ Ack \/ NextStatement

\* Done closes, and the busy hold is released, once every handle has ended.
Drained(a) ==
    /\ act[a].draining /\ \A i \in Stmts(act[a].kind) : ~Live(<<a, i>>)
    /\ act' = [act EXCEPT ![a].draining = FALSE, ![a].done = TRUE]
    /\ UNCHANGED <<binding, generation, last, queue, launching, run, sess, enq, canc,
                   tabs, signal, ui, retirer, events, stray>>

-----------------------------------------
(* Bound results. *)

\* The navigation's context is cancelled (its tab closed, a newer one began).
CancelNavigation(a) ==
    /\ BoundKind(a) /\ ~act[a].nav /\ ui.pc = "idle"
    /\ Event
    /\ act' = [act EXCEPT ![a].nav = TRUE]
    /\ UNCHANGED <<binding, generation, last, queue, launching, run, sess, enq, canc,
                   tabs, signal, ui, retirer, stray>>

\* RunAsync's goroutine, while the op runs: abort the wire.
NavAbort(a) ==
    /\ act[a].nav /\ run.a = a /\ run.pc \in {"lock", "exec"} /\ canc[NavWatch(a)] = Nil
    /\ canc' = [canc EXCEPT ![NavWatch(a)] = CancelCurrent(run.b, a)]
    /\ UNCHANGED <<binding, generation, last, act, queue, launching, run, sess, enq,
                   tabs, signal, ui, retirer, events, stray>>

\* The goroutine that waits for adoption sees the cancelled context first.
NavDiscard(a) ==
    /\ act[a].nav /\ act[a].result = "unadopted" /\ enq = Nil
    /\ act' = Discard(act, {a})
    /\ canc' = DiscardCanc(canc, {a})
    /\ UNCHANGED <<binding, generation, last, queue, launching, run, sess, enq, tabs,
                   signal, ui, retirer, events, stray>>

\* Accept on the UI thread, then Discard, which finds nothing to do when the
\* result was adopted. The adoption itself may fail (the tab cap).
Accept(a) ==
    /\ ui.pc = "idle" /\ enq = Nil /\ act[a].result = "unadopted"
    /\ \/ /\ Valid(a)
          /\ act' = [act EXCEPT ![a].result = "adopted"]
          /\ tabs' = [tabs EXCEPT !.open = @ \cup {<<a, 1>>}]
          /\ UNCHANGED canc
       \/ /\ act' = Discard(act, {a})
          /\ canc' = DiscardCanc(canc, {a})
          /\ UNCHANGED tabs
    /\ UNCHANGED <<binding, generation, last, queue, launching, run, sess, enq,
                   signal, ui, retirer, events, stray>>

-----------------------------------------
(* The UI thread. *)

\* Statements of an action that have not settled on the UI thread.
UnsettledStmts(a) == {i \in Stmts(act[a].kind) :
                   act[a].acks[i] = <<>> \/ \E h \in Handles \cup {Nil} : <<a, i, h>> \in tabs.acked}

\* The ack's callback: settleStatement opens a tab for the handle, which
\* starts reading it, or closes the rows when no tab can be had. The last
\* statement of a run clears the indicator, if it still shows this run.
Settle(k) ==
    /\ ui.pc = "idle" /\ k \in tabs.acked
    /\ \/ /\ tabs' = [acked |-> tabs.acked \ {k},
                      open |-> tabs.open \cup (IF k[3] = Nil THEN {} ELSE {k[3]})]
          /\ UNCHANGED sess
       \/ /\ k[3] # Nil /\ TabsFull
          /\ tabs' = [tabs EXCEPT !.acked = @ \ {k}]
          /\ sess' = Released(k[3])
    /\ signal' = IF UnsettledStmts(k[1]) = {k[2]} /\ signal = k[1] THEN 0 ELSE signal
    /\ UNCHANGED <<binding, generation, last, act, queue, launching, run, enq, canc,
                   ui, retirer, events, stray>>

\* The reader of an open tab reaches the end of its stream. An interrupted
\* stream ends at the next read.
StreamEnds(b) ==
    /\ b \in Streaming
    /\ sess' = [sess EXCEPT ![b] = FreedSess(@)]
    /\ UNCHANGED <<binding, generation, last, act, queue, launching, run, enq, canc,
                   tabs, signal, ui, retirer, events, stray>>

\* Cancel, from <leader>x.
UserCancel ==
    /\ ui.pc = "idle" /\ binding # NoSess
    /\ Event
    /\ canc' = [canc EXCEPT ![UI] = CancelSlot(NextAction - 1, TRUE)]
    /\ ui' = [ui EXCEPT !.pc = "cancel"]
    /\ UNCHANGED <<binding, generation, last, act, queue, launching, run, sess, enq,
                   tabs, signal, retirer, stray>>

UserCancelled ==
    /\ ui.pc = "cancel" /\ canc[UI] = Nil
    /\ ui' = IdleUi
    /\ UNCHANGED <<binding, generation, last, act, queue, launching, run, sess, enq,
                   canc, tabs, signal, retirer, events, stray>>

\* The synchronous RunQuery: preemptInFlight, the session call, publication
\* and the tab, all in one UI event.
SyncStart ==
    /\ "sync" \in Kinds /\ ui.pc = "idle" /\ NextAction \in Actions
    /\ act' = [act EXCEPT ![NextAction] = NewAction("sync", NoSess, 0)]
    /\ canc' = [canc EXCEPT ![UI] = CancelSlot(NextAction - 1, FALSE)]
    /\ ui' = [ui EXCEPT !.pc = "syncCancel", !.a = NextAction]
    /\ UNCHANGED <<binding, generation, last, queue, launching, run, sess, enq, tabs,
                   signal, retirer, events, stray>>

SyncCancelLast ==
    /\ ui.pc = "syncCancel" /\ canc[UI] = Nil
    /\ canc' = IF last # Nil /\ last.h # Nil
                 THEN [canc EXCEPT ![UI] = CancelHandle(last.h, ui.a - 1)] ELSE canc
    /\ ui' = [ui EXCEPT !.pc = "syncHook"]
    /\ UNCHANGED <<binding, generation, last, act, queue, launching, run, sess, enq,
                   tabs, signal, retirer, events, stray>>

SyncHook ==
    /\ ui.pc = "syncHook" /\ canc[UI] = Nil
    /\ PreemptHook(ui.a, binding)
    /\ ui' = [ui EXCEPT !.pc = "syncLoad"]
    /\ UNCHANGED <<binding, generation, last, act, queue, launching, run, enq, canc,
                   tabs, signal, retirer, events>>

SyncLoad ==
    /\ ui.pc = "syncLoad"
    /\ IF binding = NoSess THEN ui' = IdleUi /\ UNCHANGED act
       ELSE /\ ui' = [ui EXCEPT !.pc = "syncLock"]
            /\ act' = [act EXCEPT ![ui.a].binding = binding]
    /\ UNCHANGED <<binding, generation, last, queue, launching, run, sess, enq, canc,
                   tabs, signal, retirer, events, stray>>

SyncLock ==
    /\ ui.pc = "syncLock"
    /\ LET b == act[ui.a].binding
       IN \/ (sess[b].fence \/ sess[b].closed) /\ ui' = IdleUi /\ UNCHANGED sess
          \/ /\ sess[b].st = "free"
             /\ sess' = [sess EXCEPT ![b].st = "exec", ![b].h = <<ui.a, 1>>]
             /\ ui' = [ui EXCEPT !.pc = "syncExec"]
    /\ UNCHANGED <<binding, generation, last, act, queue, launching, run, enq, canc,
                   tabs, signal, retirer, events, stray>>

SyncExec ==
    /\ ui.pc = "syncExec"
    /\ LET b == act[ui.a].binding
       IN \/ sess' = [sess EXCEPT ![b] = FreedSess(@)] /\ ui' = IdleUi
          \/ /\ ~sess[b].hit /\ ~sess[b].closed
             /\ sess' = [sess EXCEPT ![b].st = "live"]
             /\ ui' = [ui EXCEPT !.pc = "syncPublish", !.h = <<ui.a, 1>>]
    /\ UNCHANGED <<binding, generation, last, act, queue, launching, run, enq, canc,
                   tabs, signal, retirer, events, stray>>

\* publishResolved with no sentinel, then OpenResultTab; the callers
\* (openInbound, the reverse picker) drop the handle when no tab can be had.
SyncPublish ==
    /\ ui.pc = "syncPublish"
    /\ last' = IF PendingRoot(last) = Nil THEN Resolved(ui.a, ui.h, FALSE) ELSE last
    /\ \/ tabs' = [tabs EXCEPT !.open = @ \cup {ui.h}]
       \/ TabsFull /\ UNCHANGED tabs
    /\ ui' = IdleUi
    /\ UNCHANGED <<binding, generation, act, queue, launching, run, sess, enq, canc,
                   signal, retirer, events, stray>>

\* A connect publishes its session (Bind, under boundMu).
Bind ==
    /\ ui.pc = "idle" /\ enq = Nil /\ binding = NoSess /\ retirer = "idle"
    /\ \E b \in Sessions :
         /\ ~sess[b].closed /\ \A c \in 1..(b - 1) : sess[c].closed
         /\ binding' = b
    /\ act' = Discard(act, Unadopted)
    /\ canc' = DiscardCanc(canc, Unadopted)
    /\ UNCHANGED <<generation, last, queue, launching, run, sess, enq, tabs, signal,
                   ui, retirer, events, stray>>

-----------------------------------------
(* Unbind, on the worker that retires the connection: the session is closed *)
(* first, then the binding is dropped, then the pending launch cancelled. *)

Retire ==
    /\ retirer = "idle" /\ binding # NoSess
    /\ ui.pc \notin {"stopping", "stopped"}
    /\ Event
    /\ sess' = [sess EXCEPT ![binding].closed = TRUE,
                            ![binding].hit = @ \/ sess[binding].st \in {"exec", "live"}]
    /\ retirer' = "unbind"
    /\ UNCHANGED <<binding, generation, last, act, queue, launching, run, enq, canc,
                   tabs, signal, ui, stray>>

Unbind ==
    /\ retirer = "unbind" /\ enq = Nil
    /\ binding' = NoSess
    /\ act' = Discard(act, Unadopted)
    /\ canc' = [DiscardCanc(canc, Unadopted) EXCEPT ![Retirer] = CancelSlot(MaxActions, FALSE)]
    /\ retirer' = "cancel"
    /\ UNCHANGED <<generation, last, queue, launching, run, sess, enq, tabs, signal,
                   ui, events, stray>>

\* last.Store(nil), whatever it holds by now.
Unbound ==
    /\ retirer = "cancel" /\ canc[Retirer] = Nil
    /\ last' = Nil
    /\ retirer' = "idle"
    /\ UNCHANGED <<binding, generation, act, queue, launching, run, sess, enq, canc,
                   tabs, signal, ui, events, stray>>

-----------------------------------------
(* Quit: CancelAndWaitActiveRun, then Gui.Close, which cancels what is *)
(* queued and waits, bounded, for the launcher. *)

\* What CancelAndWaitActiveRun waits for: the sentinel's Done, or the handle's.
QuitCancel ==
    /\ ui.pc = "idle"
    /\ Event
    /\ LET r == PendingRoot(last)
           nothing == last = Nil
                        \/ (last.h = Nil /\ r = Nil /\ act[last.root].kind # "batch")
       IN /\ ui' = [pc |-> "quitWait", a |-> IF nothing THEN 0 ELSE last.root,
                    h |-> IF r = Nil /\ last # Nil THEN last.h ELSE Nil]
          /\ act' = IF r = Nil THEN act ELSE [act EXCEPT ![r].ctx = TRUE]
          /\ canc' = [canc EXCEPT ![UI] =
                IF r # Nil THEN CancelCurrent(act[r].binding, MaxActions)
                ELSE IF last # Nil /\ last.h # Nil THEN CancelHandle(last.h, MaxActions)
                ELSE Nil]
    /\ UNCHANGED <<binding, generation, last, queue, launching, run, sess, enq, tabs,
                   signal, retirer, stray>>

QuitTargetDone ==
    IF ui.a = 0 THEN TRUE
    ELSE IF act[ui.a].kind = "batch" \/ (ui.h = Nil /\ act[ui.a].kind # "sync")
           THEN act[ui.a].done
    ELSE ~Live(ui.h)

QuitDrained ==
    /\ ui.pc = "quitWait" /\ canc[UI] = Nil /\ QuitTargetDone
    /\ ui' = [ui EXCEPT !.pc = "drained"]
    /\ UNCHANGED <<binding, generation, last, act, queue, launching, run, sess, enq,
                   canc, tabs, signal, retirer, events, stray>>

\* The two-second bound.
QuitExpires ==
    /\ ui.pc = "quitWait" /\ canc[UI] = Nil /\ ~QuitTargetDone
    /\ ui' = [ui EXCEPT !.pc = "closing"]
    /\ UNCHANGED <<binding, generation, last, act, queue, launching, run, sess, enq,
                   canc, tabs, signal, retirer, events, stray>>

\* Gui.Close: PreemptInFlight, then CancelQueuedAndWaitIdle.
Close ==
    /\ ui.pc \in {"drained", "closing"}
    /\ PreemptHook(MaxActions, NoSess)
    /\ canc' = [canc EXCEPT ![UI] = CancelSlot(MaxActions, FALSE)]
    /\ ui' = [ui EXCEPT !.pc = "sweep"]
    /\ UNCHANGED <<binding, generation, last, act, queue, launching, run, enq, tabs,
                   signal, retirer, events>>

\* cancelQueuedSentinels.
Sweep ==
    /\ ui.pc = "sweep" /\ canc[UI] = Nil
    /\ act' = [a \in Actions |-> IF \E j \in DOMAIN queue : queue[j] = a
                                   THEN [act[a] EXCEPT !.abandoned = TRUE, !.ctx = TRUE]
                                   ELSE act[a]]
    /\ ui' = [ui EXCEPT !.pc = "stopping"]
    /\ UNCHANGED <<binding, generation, last, queue, launching, run, sess, enq, canc,
                   tabs, signal, retirer, events, stray>>

\* waitLauncherIdle, or its bound; then the session is closed.
Stop ==
    /\ ui.pc = "stopping" /\ retirer = "idle"
    /\ sess' = [b \in Sessions |-> IF b = binding THEN
                  [sess[b] EXCEPT !.closed = TRUE, !.hit = @ \/ sess[b].st \in {"exec", "live"}]
                  ELSE sess[b]]
    /\ retirer' = IF binding = NoSess THEN "idle" ELSE "unbind"
    /\ ui' = [ui EXCEPT !.pc = "stopped"]
    /\ UNCHANGED <<binding, generation, last, act, queue, launching, run, enq, canc,
                   tabs, signal, events, stray>>

UiStep ==
    \/ EnqueueQueue \/ WaitWire \/ UserCancelled
    \/ SyncCancelLast \/ SyncHook \/ SyncLoad \/ SyncLock \/ SyncExec \/ SyncPublish
    \/ QuitDrained \/ QuitExpires \/ Close \/ Sweep \/ Stop

UserStep ==
    \/ \E k \in Kinds : EnqueueSwap(k)
    \/ UserCancel \/ SyncStart \/ Bind \/ QuitCancel
    \/ \E a \in Actions : CancelNavigation(a)

Callback ==
    \/ \E k \in tabs.acked : Settle(k)
    \/ \E a \in Actions : Accept(a)

Goroutine ==
    \/ Canceller
    \/ \E a \in Actions : Drained(a) \/ NavDiscard(a)

RunnerNext ==
    \/ UserStep \/ UiStep \/ Callback \/ LaunchStep \/ Goroutine
    \/ \E a \in Actions : NavAbort(a)
    \/ \E b \in Sessions : StreamEnds(b)
    \/ Retire \/ Unbind \/ Unbound

RunnerSpec == RunnerInit /\ [][RunnerNext]_runnerVars

-----------------------------------------
(* Properties. *)

\* Every statement of an action is answered exactly once, whatever cancelled
\* it and when: the fan-out of run-all counts acks to know that it is over
\* (execLaunch, RunStatementsAsync).
AckedOnce ==
    \A a \in Actions : \A i \in Stmts(act[a].kind) :
        /\ Len(act[a].acks[i]) <= 1
        /\ act[a].draining \/ act[a].done => Len(act[a].acks[i]) = 1

\* Last wins and never more than that: a cancel meant for an action, or for
\* what came before it, does not interrupt an asynchronous action that the
\* user started later (enqueueBoundLaunch's wireCancelDone, RunAsync's
\* cancelFinished). A synchronous run is not queued behind the launcher, whose
\* chokepoint may still cancel it.
NoStrayCancel == \A a \in stray : act[a].kind = "sync"

\* Who is going to close the live stream of handle h.
OwnersOf(h) ==
    {x \in {"launcher", "callback", "tab", "unadopted", "disposer", "ui"} :
        CASE x = "launcher"  -> run.h = h /\ run.pc \in {"return", "publish", "ack"}
          [] x = "callback"  -> <<h[1], h[2], h>> \in tabs.acked
          [] x = "tab"       -> h \in tabs.open
          [] x = "unadopted" -> act[h[1]].result = "unadopted"
          [] x = "disposer"  -> canc[Disposer(h[1])] # Nil
          [] x = "ui"        -> ui.h = h /\ ui.pc = "syncPublish"}

\* A live stream holds streamMu, so at every moment exactly one party owns it
\* and will close it: superseded launches, stale navigation results and
\* retired bindings leave no orphan and no stream with two owners
\* (execLaunch, Accept, Discard, discardUnadoptedLocked). A synchronous
\* run's handle is dropped by callers whose tab cannot be opened, so it is not
\* covered.
OneOwner ==
    \A b \in Sessions : sess[b].st = "live" /\ Owner(sess[b].h).kind # "sync" =>
        Cardinality(OwnersOf(sess[b].h)) = 1

\* Every statement is answered and every stream has somebody to close it
\* (execLaunch, publishResolved, Accept).
RunsAnswered == AckedOnce /\ OneOwner

\* The running indicator never outlives its run and a late settle of an older
\* run never clears it: it shows the newest editor run exactly while one of
\* that run's statements is unsettled (SetQueryRunStarted, ClearQueryRun).
SignalIsNewestRun ==
    LET runs == {a \in Actions : act[a].kind \in {"run", "batch"}}
    IN /\ signal # 0 => UnsettledStmts(signal) # {}
       /\ \A a \in runs : (UnsettledStmts(a) # {} /\ \A c \in runs : c <= a) => signal = a

\* When the quit path's wait ends with Done and not with its bound, nothing
\* of that action is on the wire any more, so the COMMIT that follows cannot
\* overtake it (CancelAndWaitActiveRun).
DrainedBeforeCommit ==
    (ui.pc = "drained" /\ ui.a # 0) =>
        \A b \in Sessions : sess[b].h # Nil => sess[b].h[1] # ui.a

\* Cancels, the indicator and quit speak of the run they were meant for
\* (wireCancelDone, ClearQueryRun, CancelAndWaitActiveRun).
CancelsHitTheirRun == NoStrayCancel /\ SignalIsNewestRun /\ DrainedBeforeCommit
=============================================================================
