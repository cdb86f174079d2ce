----------------------------- MODULE SQLSession -----------------------------
(***************************************************************************)
(* One SQLSession (pkg/session/sql_session.go) over one driver session      *)
(* (pkg/drivers/pg/session.go): the queue serializer streamMu, the          *)
(* per-Stream RunHandle (run_handle.go), the cancel registry, the preempt   *)
(* fence, the history hand-off, and Close.                                  *)
(*                                                                          *)
(* Every element of Calls is one goroutine making one call. The driver      *)
(* session panics when a second operation enters it while its inFlight      *)
(* guard is taken, so the serializer must keep the two in step; the notice  *)
(* barrier of NoticeFanout runs inside the finish of a stream.              *)
(***************************************************************************)
EXTENDS NoticeFanout

CONSTANT Methods   \* the methods the calls of an instance use

\* A method, and for those that write history whether the call's context
\* carries WithoutLogging ("silent").
Kinds == {"stream", "execute", "silent stream", "silent execute", "explain", "begin"}

ASSUME MethodsAssumption == Methods \subseteq Kinds

VARIABLES
    pc,              \* where each call stands
    kind,            \* which method it called
    outcome,         \* how its driver operation ended
    streamMu,        \* the call holding SQLSession.streamMu, or None
    registry,        \* CancelRegistry entry of this session, or None
    inFlight,        \* the call holding the driver session's guard, or None
    innerClosed,     \* the driver session is closed
    disconnected,    \* SQLSession.disconnected
    preemptPending,  \* SQLSession.preemptPending: the fence
    preempter,       \* a launcher between Stop-wait expiry and fencing
    history,         \* per call: HistoryRecorder.Record calls made for it
    closer           \* where SQLSession.Close stands

queueVars == <<pc, kind, outcome, streamMu, registry, inFlight, innerClosed,
               disconnected, preemptPending, preempter, history, closer>>
vars == <<queueVars, runActive, noticeVars>>

\* "decode": Next failed to decode a row, which pgRowStream.Next reports
\* without releasing the guard; "dead": a transport error (IsConnectionDead).
Outcomes == {"none", "ok", "error", "dead", "decode"}

PCs == {"idle", "rejected", "lock", "entering", "wire", "wired", "open", "flush",
        "unregister", "record", "release", "closing", "finished", "erring",
        "errtail", "done", "panicked"}

CloserStates == {"none", "waiting", "inner", "channel", "join", "closed"}

TypeOK ==
    /\ NoticeTypeOK
    /\ pc \in [Calls -> PCs]
    /\ kind \in [Calls -> Methods]
    /\ outcome \in [Calls -> Outcomes]
    /\ streamMu \in Calls \cup {None}
    /\ registry \in Calls \cup {None}
    /\ inFlight \in Calls \cup {None}
    /\ innerClosed \in BOOLEAN
    /\ disconnected \in BOOLEAN
    /\ preemptPending \in BOOLEAN
    /\ preempter \in {"idle", "expired"}
    /\ history \in [Calls -> Nat]
    /\ closer \in CloserStates

Init ==
    /\ NoticeInit
    /\ pc = [c \in Calls |-> "idle"]
    /\ kind \in [Calls -> Methods]
    /\ outcome = [c \in Calls |-> "none"]
    /\ streamMu = None
    /\ registry = None
    /\ inFlight = None
    /\ innerClosed = FALSE
    /\ disconnected = FALSE
    /\ preemptPending = FALSE
    /\ preempter = "idle"
    /\ history = [c \in Calls |-> 0]
    /\ closer = "none"

Move(c, from, to) == pc[c] = from /\ pc' = [pc EXCEPT ![c] = to]

IsStream(c) == kind[c] \in {"stream", "silent stream"}

\* !LoggingSuppressed(ctx), of a method that has a history record at all.
Logged(c) == kind[c] \in {"stream", "execute"}

RecordHistory(c) ==
    history' = IF Logged(c) THEN [history EXCEPT ![c] = @ + 1] ELSE history

\* A terminal error that IsConnectionDead classifies marks the session.
ObserveDead(o) == disconnected' = IF o = "dead" THEN TRUE ELSE disconnected

\* The call is past its admission checks and has not given the queue back.
Holding(c) == pc[c] \in {"entering", "wire", "wired", "open", "flush",
                         "unregister", "record", "release", "erring"}

-----------------------------------------
(* Admission and the queue mutex. *)

\* Callers have stopped before SQLSession.Close runs (Gui.Close steps 3-6).
Reject(c) ==
    /\ closer = "none"
    /\ disconnected \/ preemptPending
    /\ Move(c, "idle", "rejected")
    /\ UNCHANGED <<kind, outcome, streamMu, registry, inFlight, innerClosed,
                   disconnected, preemptPending, preempter, history, closer,
                   runActive, noticeVars>>

Admit(c) ==
    /\ closer = "none"
    /\ ~disconnected /\ ~preemptPending
    /\ Move(c, "idle", "lock")
    /\ UNCHANGED <<kind, outcome, streamMu, registry, inFlight, innerClosed,
                   disconnected, preemptPending, preempter, history, closer,
                   runActive, noticeVars>>

\* Mutant: the handle is published without waiting for the mutex.
LockUnguarded(c) ==
    /\ Move(c, "lock", "entering")
    /\ streamMu' = c
    /\ runActive' = IF IsStream(c) THEN c ELSE runActive
    /\ UNCHANGED <<kind, outcome, registry, inFlight, innerClosed,
                   disconnected, preemptPending, preempter, history, closer,
                   noticeVars>>

\* streamMu.Lock(); Stream publishes its RunHandle before the driver call so
\* that notices raised during it find an active run.
Lock(c) ==
    /\ streamMu = None
    /\ Move(c, "lock", "entering")
    /\ streamMu' = c
    /\ runActive' = IF IsStream(c) THEN c ELSE runActive
    /\ UNCHANGED <<kind, outcome, registry, inFlight, innerClosed,
                   disconnected, preemptPending, preempter, history, closer,
                   noticeVars>>

\* acquireInFlight: panics after Close and on concurrent use. Execute, Explain
\* and Begin unlock in a defer that a panic runs; Stream does not.
EnterDriver(c) ==
    /\ \/ /\ ~innerClosed /\ inFlight = None
          /\ Move(c, "entering", "wire")
          /\ inFlight' = c
          /\ UNCHANGED streamMu
       \/ /\ innerClosed \/ inFlight # None
          /\ Move(c, "entering", "panicked")
          /\ streamMu' = IF IsStream(c) THEN streamMu ELSE None
          /\ UNCHANGED inFlight
    /\ UNCHANGED <<kind, outcome, registry, innerClosed, disconnected,
                   preemptPending, preempter, history, closer, runActive,
                   noticeVars>>

\* The read loop of the call on the wire hands a notice to the router.
RaiseNotice(c) ==
    /\ pc[c] \in {"wire", "open"}
    /\ RouteLookup(c)
    /\ UNCHANGED queueVars

SendNotice(c) ==
    /\ RouteSend(c)
    /\ UNCHANGED queueVars

\* The read loop has no notice in its hands when the driver call returns.
Drained(c) == c \notin sending

-----------------------------------------
(* Execute, Explain, Begin: the mutex is held for the driver call only. *)

SyncReturn(c, o) ==
    /\ ~IsStream(c)
    /\ Drained(c)
    /\ Move(c, "wire", "done")
    /\ outcome' = [outcome EXCEPT ![c] = o]
    /\ inFlight' = None
    /\ RecordHistory(c)
    /\ IF kind[c] = "begin" THEN UNCHANGED disconnected ELSE ObserveDead(o)
    /\ streamMu' = None
    /\ UNCHANGED <<kind, registry, innerClosed, preemptPending, preempter,
                   closer, runActive, noticeVars>>

-----------------------------------------
(* Stream: the mutex is held until the run finishes. *)

\* The driver returns a RowStream: cancelFn, flush and onFinish are installed.
StreamOpen(c) ==
    /\ IsStream(c)
    /\ Drained(c)
    /\ Move(c, "wire", "wired")
    /\ UNCHANGED <<kind, outcome, streamMu, registry, inFlight, innerClosed,
                   disconnected, preemptPending, preempter, history, closer,
                   runActive, noticeVars>>

\* Stream's last statement; the handle goes to the consumer.
Register(c) ==
    /\ Move(c, "wired", "open")
    /\ registry' = c
    /\ UNCHANGED <<kind, outcome, streamMu, inFlight, innerClosed,
                   disconnected, preemptPending, preempter, history, closer,
                   runActive, noticeVars>>

\* The driver call fails: its guard is released before it returns ...
StreamError(c, o) ==
    /\ IsStream(c)
    /\ Drained(c)
    /\ Move(c, "wire", "erring")
    /\ outcome' = [outcome EXCEPT ![c] = o]
    /\ inFlight' = None
    /\ UNCHANGED <<kind, streamMu, registry, innerClosed, disconnected,
                   preemptPending, preempter, history, closer,
                   runActive, noticeVars>>

\* Mutant: the error path forgets the mutex.
StreamErrorNoUnlock(c) ==
    /\ Move(c, "erring", "errtail")
    /\ runActive' = None
    /\ UNCHANGED <<kind, outcome, streamMu, registry, inFlight, innerClosed,
                   disconnected, preemptPending, preempter, history, closer,
                   noticeVars>>

\* ... then runActive is cleared and the mutex given back ...
StreamErrorUnlock(c) ==
    /\ Move(c, "erring", "errtail")
    /\ runActive' = None
    /\ streamMu' = None
    /\ UNCHANGED <<kind, outcome, registry, inFlight, innerClosed,
                   disconnected, preemptPending, preempter, history, closer,
                   noticeVars>>

\* ... and history and the disconnected flag come after the unlock.
StreamErrorTail(c) ==
    /\ Move(c, "errtail", "done")
    /\ RecordHistory(c)
    /\ ObserveDead(outcome[c])
    /\ UNCHANGED <<kind, outcome, streamMu, registry, inFlight, innerClosed,
                   preemptPending, preempter, closer, runActive,
                   noticeVars>>

\* The consumer's Next ends the stream (EOF, terminal error) or it closes the
\* rows: the guard is released, then finish starts with the flush barrier. A
\* row that fails to decode ends the run with the guard still taken.
Terminate(c, o) ==
    /\ Drained(c)
    /\ Move(c, "open", "flush")
    /\ outcome' = [outcome EXCEPT ![c] = o]
    /\ inFlight' = IF o = "decode" THEN inFlight ELSE None
    /\ barrier' = [barrier EXCEPT ![c] = "requested"]
    /\ UNCHANGED <<kind, streamMu, registry, innerClosed, disconnected,
                   preemptPending, preempter, history, closer,
                   runActive, noticeCh, chClosed, subscribed, sending,
                   sendPanic, emitted, lost, fan, hand, target, notices,
                   dropped, noticeClosed, drained>>

\* Mutant: the wait has no noticeDone arm.
FlushedAckOnly(c) == barrier[c] = "acked"

\* flushNotices has returned: the barrier was acked, or the fan-out had
\* exited before taking the request.
Flushed(c) == barrier[c] = "acked" \/ (barrier[c] = "requested" /\ fan = "exited")

\* onFinish: the run is no longer the active one ...
FinishRun(c) ==
    /\ Flushed(c)
    /\ Move(c, "flush", "unregister")
    /\ runActive' = None
    /\ UNCHANGED <<kind, outcome, streamMu, registry, inFlight, innerClosed,
                   disconnected, preemptPending, preempter, history, closer,
                   noticeVars>>

\* Mutant: the run stays in the cancel registry.
FinishKeepsRegistered(c) ==
    /\ Move(c, "unregister", "record")
    /\ UNCHANGED <<kind, outcome, streamMu, registry, inFlight, innerClosed,
                   disconnected, preemptPending, preempter, history, closer,
                   runActive, noticeVars>>

\* ... and, a statement later, no longer registered ...
FinishUnregister(c) ==
    /\ Move(c, "unregister", "record")
    /\ registry' = None
    /\ UNCHANGED <<kind, outcome, streamMu, inFlight, innerClosed,
                   disconnected, preemptPending, preempter, history, closer,
                   runActive, noticeVars>>

\* Mutant: the queue is given back before the run is settled.
FinishRecordUnlocks(c) ==
    /\ Move(c, "record", "release")
    /\ RecordHistory(c)
    /\ streamMu' = None
    /\ UNCHANGED <<kind, outcome, registry, inFlight, innerClosed, disconnected,
                   preemptPending, preempter, closer, runActive, noticeVars>>

\* ... the history record, unless the call's context suppresses it, and the
\* disconnected flag ...
FinishRecord(c) ==
    /\ Move(c, "record", "release")
    /\ RecordHistory(c)
    /\ ObserveDead(outcome[c])
    /\ UNCHANGED <<kind, outcome, streamMu, registry, inFlight, innerClosed,
                   preemptPending, preempter, closer, runActive, noticeVars>>

\* onFinish's last two statements: the fence lifts and the mutex is released.
FinishUnlock(c) ==
    /\ Move(c, "release", "closing")
    /\ preemptPending' = FALSE
    /\ streamMu' = None
    /\ UNCHANGED <<kind, outcome, registry, inFlight, innerClosed,
                   disconnected, preempter, history, closer,
                   runActive, noticeVars>>

\* finish closes the notice channel, then Done.
FinishClose(c) ==
    /\ ~(HoldsNoticeMu /\ target = c)
    /\ Move(c, "closing", "finished")
    /\ noticeClosed' = noticeClosed \cup {c}
    /\ UNCHANGED <<kind, outcome, streamMu, registry, inFlight, innerClosed,
                   disconnected, preemptPending, preempter, history, closer,
                   runActive, noticeCh, chClosed, subscribed, sending, sendPanic, emitted, lost, fan, hand, target,
                   barrier, notices, dropped, drained>>

\* The consumer closes the rows it was reading; the driver stream releases
\* the guard now if Next had not done so.
CloseRows(c) ==
    /\ Move(c, "finished", "done")
    /\ inFlight' = IF inFlight = c THEN None ELSE inFlight
    /\ UNCHANGED <<kind, outcome, streamMu, registry, innerClosed,
                   disconnected, preemptPending, preempter, history, closer,
                   runActive, noticeVars>>

-----------------------------------------
(* The preempt fence. *)

\* PreemptInFlight's bounded Stop-wait expires while a stream's worker lives.
PreemptExpire ==
    /\ preempter = "idle"
    /\ closer = "none"
    /\ \E c \in Calls : pc[c] = "open"
    /\ preempter' = "expired"
    /\ UNCHANGED <<pc, kind, outcome, streamMu, registry, inFlight,
                   innerClosed, disconnected, preemptPending, history,
                   closer, runActive, noticeVars>>

\* The launcher, told of the expiry, calls MarkPreemptPending.
MarkPreemptPending ==
    /\ preempter = "expired"
    /\ preempter' = "idle"
    /\ preemptPending' = TRUE
    /\ UNCHANGED <<pc, kind, outcome, streamMu, registry, inFlight,
                   innerClosed, disconnected, history, closer,
                   runActive, noticeVars>>

-----------------------------------------
(* Close. *)

\* Only calls wedged in the driver outlive the bounded drains before Close.
Quiesced == \A c \in Calls : pc[c] \notin {"lock", "entering"}

CloseBegin ==
    /\ closer = "none"
    /\ preempter = "idle"
    /\ Quiesced
    /\ closer' = IF runActive = None THEN "inner" ELSE "waiting"
    /\ UNCHANGED <<pc, kind, outcome, streamMu, registry, inFlight,
                   innerClosed, disconnected, preemptPending, preempter,
                   history, runActive, noticeVars>>

\* Done closes, or the two-second wait runs out.
CloseWaited ==
    /\ closer = "waiting"
    /\ closer' = "inner"
    /\ UNCHANGED <<pc, kind, outcome, streamMu, registry, inFlight,
                   innerClosed, disconnected, preemptPending, preempter,
                   history, runActive, noticeVars>>

\* inner.Close: the closed flag, then the router forgets the session.
CloseInner ==
    /\ closer = "inner"
    /\ closer' = "channel"
    /\ innerClosed' = TRUE
    /\ subscribed' = FALSE
    /\ UNCHANGED <<pc, kind, outcome, streamMu, registry, inFlight,
                   disconnected, preemptPending, preempter, history,
                   runActive, noticeCh, chClosed, sending, sendPanic, emitted,
                   lost, fan, hand, target, barrier, notices, dropped,
                   noticeClosed, drained>>

CloseChannel ==
    /\ closer = "channel"
    /\ closer' = "join"
    /\ chClosed' = TRUE
    /\ UNCHANGED <<pc, kind, outcome, streamMu, registry, inFlight,
                   innerClosed, disconnected, preemptPending, preempter,
                   history, runActive, noticeCh, subscribed,
                   sending, sendPanic, emitted, lost, fan, hand, target,
                   barrier, notices, dropped, noticeClosed, drained>>

\* noticeWG.Wait.
CloseJoin ==
    /\ closer = "join"
    /\ fan = "exited"
    /\ closer' = "closed"
    /\ UNCHANGED <<pc, kind, outcome, streamMu, registry, inFlight,
                   innerClosed, disconnected, preemptPending, preempter,
                   history, runActive, noticeVars>>

-----------------------------------------
Closing == CloseBegin \/ CloseWaited \/ CloseInner \/ CloseChannel \/ CloseJoin

FanOut == FanStep /\ UNCHANGED queueVars

Finish(c) ==
    \/ FinishRun(c) \/ FinishUnregister(c) \/ FinishRecord(c) \/ FinishUnlock(c)
    \/ FinishClose(c) \/ CloseRows(c)

SyncOutcomes == {"ok", "error", "dead"}

CallStep(c) ==
    \/ Reject(c) \/ Admit(c) \/ Lock(c) \/ EnterDriver(c)
    \/ RaiseNotice(c) \/ SendNotice(c)
    \/ \E o \in SyncOutcomes : SyncReturn(c, o)
    \/ StreamOpen(c) \/ Register(c)
    \/ \E o \in {"error", "dead"} : StreamError(c, o)
    \/ StreamErrorUnlock(c) \/ StreamErrorTail(c)
    \/ \E o \in Outcomes \ {"none"} : Terminate(c, o)
    \/ Finish(c)

Next ==
    \/ \E c \in Calls : CallStep(c)
    \/ \E c \in Calls : ReadNotice(c) /\ UNCHANGED queueVars
    \/ FanOut
    \/ PreemptExpire \/ MarkPreemptPending
    \/ Closing

Spec == Init /\ [][Next]_vars

\* The goroutines of the session keep running: the fan-out, a finish under
\* way, the tail of a failed Stream, Close, the router's send.
SessionFairness ==
    /\ WF_vars(FanOut)
    /\ WF_vars(MarkPreemptPending)
    /\ WF_vars(CloseWaited \/ CloseInner \/ CloseChannel \/ CloseJoin)
    /\ \A c \in Calls :
         /\ WF_vars(EnterDriver(c) \/ SendNotice(c) \/ Register(c)
                    \/ StreamErrorUnlock(c) \/ StreamErrorTail(c) \/ Finish(c))

\* The server answers every statement and the consumer ends every stream.
DriverFairness ==
    \A c \in Calls :
      WF_vars(\/ \E o \in SyncOutcomes : SyncReturn(c, o)
              \/ StreamOpen(c)
              \/ \E o \in {"error", "dead"} : StreamError(c, o)
              \/ \E o \in {"ok", "error", "dead"} : Terminate(c, o))

\* Go's mutex hands the lock to every waiter in the end (starvation mode).
LockFairness == \A c \in Calls : SF_vars(Lock(c))

\* The session alone, with a server that may never answer ...
LiveSpec == Spec /\ SessionFairness
\* ... and with one that does.
FairSpec == Spec /\ SessionFairness /\ DriverFairness /\ LockFairness

-----------------------------------------
(* Properties. *)

\* The queue serializer: at most one call is between its Lock and its Unlock,
\* and it is the one streamMu names. A Stream keeps the queue from the driver
\* call through the last statement of onFinish, so this ties Lock to four
\* different unlock sites.
OneInFlight ==
    \A c \in Calls : Holding(c) => streamMu = c

\* The driver guard follows the queue: whoever holds it holds streamMu, except
\* for a run whose Next failed to decode a row and was not yet closed. So the
\* "session: concurrent use" panic of acquireInFlight needs such a run.
GuardUnderQueue ==
    inFlight # None =>
        \/ streamMu = inFlight
        \/ /\ outcome[inFlight] = "decode"
           /\ pc[inFlight] \in {"closing", "finished"}

\* The queue and the driver's guard together: no call reaches the driver beside
\* another one (streamMu of SQLSession, inFlight of the driver's Session).
QueueGuards == OneInFlight /\ GuardUnderQueue

\* The CancelRegistry names a run that holds the queue or nothing, so that
\* Cancel(qid) never dials for a run whose queue another call may have taken. It
\* is the active run, but for the moment of its finish between the two clears.
RegistryNamesActiveRun ==
    registry # None =>
        /\ streamMu = registry
        /\ \/ pc[registry] \in {"open", "flush"} /\ runActive = registry
           \/ pc[registry] = "unregister" /\ runActive = None

\* HistoryRecorder.Record fires exactly once for every Execute and Stream that
\* reached the driver and settled, unless the call's context carries
\* WithoutLogging; once at most before that, and never for a silent call, a
\* rejected one, an Explain or a Begin.
HistoryOnce ==
    \A c \in Calls :
        /\ history[c] <= 1
        /\ history[c] = 1 => Logged(c) /\ pc[c] \in {"release", "closing", "finished", "done"}
        /\ (pc[c] \in {"release", "closing", "finished", "done"} /\ Logged(c)) => history[c] = 1

\* What is recorded of a run, who can cancel it and whether the history has it,
\* is true of it at every moment (CancelRegistry, HistoryRecorder).
RunRecords == RegistryNamesActiveRun /\ HistoryOnce

NoticesOf(s, c) == {n \in {s[i] : i \in DOMAIN s} : n.of = c}

\* The flush barrier: when a run's notice channel closes, none of its notices
\* is still on its way - not on noticeCh, not in the fan-out's hands. Only the
\* fan-out's own exit, which Close causes, excuses it.
NoticesSettledAtClose ==
    \A c \in noticeClosed :
        fan # "exited" =>
            /\ NoticesOf(noticeCh, c) = {}
            /\ hand = None \/ hand.of # c

\* A run's reader sees its own notices in the order the server raised them,
\* gaps being the ones drop-oldest evicted.
NoticesInOrder ==
    \A c \in Calls :
        LET seen == drained[c] \o notices[c]
        IN \A i, j \in DOMAIN seen :
              (i < j /\ seen[i].of = c /\ seen[j].of = c) => seen[i].seq < seen[j].seq

\* The fan-out never routes into a run whose notice channel is closed: the
\* barrier makes a finishing run wait for the fan-out to be back at its select,
\* so routeNotice's noticeClosed test is a second line of defence.
RoutesOnlyToOpenRuns ==
    fan \in {"routing", "draining", "evicting", "resending"} => target \notin noticeClosed

\* The barrier from both sides: nothing of a run is left behind when its channel
\* closes, nothing is sent into a closed one (flushNotices, fanOutNotices).
NoticesSettled == NoticesSettledAtClose /\ RoutesOnlyToOpenRuns

\* Close returns even when the server never answers and the consumer never
\* reads: its wait is bounded and the fan-out always reaches its exit.
CloseReturns == (closer = "waiting") ~> (closer = "closed" \/ sendPanic)

\* A finishing run never hangs on its barrier, Close racing it or not.
FinishCompletes ==
    \A c \in Calls : (pc[c] = "flush") ~> (pc[c] = "done")

\* With a server that answers and a mutex that is handed over, every call that
\* was admitted settles, unless a panic brought the process down.
AdmittedSettles ==
    (DriverFairness /\ LockFairness) =>
      \A c \in Calls : (pc[c] = "lock") ~>
          (pc[c] = "done" \/ \E d \in Calls : pc[d] = "panicked")

-----------------------------------------
(* Refinement. *)

\* A caller's view of a call: it runs from the queue's Lock to its Unlock.
PhaseOf(c) ==
    CASE pc[c] = "idle" -> "idle"
      [] pc[c] = "rejected" -> "refused"
      [] pc[c] = "lock" -> "queued"
      [] Holding(c) -> "running"
      [] pc[c] = "panicked" -> "crashed"
      [] OTHER -> "settled"

Service == INSTANCE QueryService
             WITH phase <- [c \in Calls |-> PhaseOf(c)],
                  recorded <- {c \in Calls : history[c] > 0}

\* The session implements the one-at-a-time query service: whatever the
\* goroutines of a finish, a failed Stream and Close interleave, a call starts
\* only when no other runs, and its history record is written once, between
\* its start and the end of its tail.
ImplementsService == Service!ServiceSpec

-----------------------------------------
(* What the repository says of this code and the code does not do. *)

\* ErrPreemptPending: "The fence lifts when that wedged worker finally exits"
\* (or the session is closed first).
FenceLifts == preemptPending ~> (~preemptPending \/ closer # "none")

\* Session.Stream: the guard is released by "a Next call that observes a
\* terminal pgx error", so a queued caller never meets it taken.
NoConcurrentUsePanic ==
    \A c \in Calls : pc[c] = "panicked" => innerClosed

\* NoticeRouter.route: a notice between Session.Close and the pool recycle
\* does "not panic".
NoSendOnClosedChannel == ~sendPanic
=============================================================================
