-------------------------- MODULE SQLSessionProofs --------------------------
(***************************************************************************)
(* The safety properties of SQLSession, for any set of calls, any channel   *)
(* capacities and any number of notices.                                    *)
(*                                                                          *)
(* None of them is inductive alone. QueueInv ties every program counter to  *)
(* the queue, the guard, the registry and the history; BarrierInv tells how *)
(* far the fan-out goroutine can be from a run that is finishing. IInv is   *)
(* their conjunction with the types. OrderInv, inductive relative to IInv,  *)
(* orders the stations of the notice path; QueueInv also carries the        *)
(* refinement of QueryService.                                              *)
(*                                                                          *)
(* The last part is about EXPLAIN, whose launch makes several calls of a    *)
(* session.                                                                 *)
(***************************************************************************)
EXTENDS SQLSession, ExplainRun, TLAPS

\* A stream between publishing its handle and clearing it; a panic inside the
\* driver call leaves it published, and the queue locked, for good.
Published(c) == IsStream(c)
                /\ pc[c] \in {"entering", "wire", "wired", "open", "flush", "erring",
                              "panicked"}

Settling(c) == pc[c] \in {"release", "closing", "finished", "done"}

QueueInv ==
    /\ \A c \in Calls : Holding(c) \/ Published(c) => streamMu = c
    /\ \A c \in Calls : Published(c) <=> runActive = c
    /\ \A c \in Calls : pc[c] \in {"wired", "open", "flush", "unregister", "record", "release",
                                   "closing", "finished", "erring", "errtail"}
                          => IsStream(c)
    /\ \A c \in Calls : inFlight = c =>
          \/ pc[c] \in {"wire", "wired", "open"}
          \/ /\ outcome[c] = "decode"
             /\ pc[c] \in {"flush", "unregister", "record", "release", "closing", "finished"}
    /\ \A c \in Calls : registry = c => pc[c] \in {"open", "flush", "unregister"}
    /\ \A c \in Calls : history[c] = IF Settling(c) /\ Logged(c) THEN 1 ELSE 0

\* Where the pieces of the notice path stand relative to each other.
PathInv ==
    /\ \A c \in sending : pc[c] \in {"wire", "open"} /\ emitted[c] > 0
    /\ fan \in {"received", "routing", "evicting", "resending"} <=> hand # None
    /\ fan \in {"routing", "draining", "evicting", "resending"} => target \in Calls
    /\ \A c \in noticeClosed : pc[c] \in {"finished", "done"}
    /\ \A c \in Calls : barrier[c] = "requested" => pc[c] = "flush" \/ fan = "exited"
    /\ \A c \in Calls : fan = "draining" /\ target = c => barrier[c] = "taken"
    /\ \A c \in Calls : barrier[c] = "taken" => fan \in {"draining", "evicting", "resending"} /\ target = c
    /\ \A c \in Calls : barrier[c] = "taken" => pc[c] = "flush"

\* What an acked barrier means, as long as the run it belongs to has not
\* moved on: the channel is empty and the fan-out is back at its select.
AckInv ==
    \A c \in Calls : (barrier[c] = "acked" /\ pc[c] = "flush")
          => noticeCh = <<>> /\ fan \in {"select", "exited"}

\* The run is past its barrier.
Past(c) == pc[c] \in {"unregister", "record", "release", "closing"} \/ c \in noticeClosed

RouteInv ==
    \A c \in Calls : (fan \in {"routing", "evicting", "resending"} /\ target = c) => ~Past(c)

SettledInv ==
    \A c \in Calls : (fan # "exited" /\ Past(c))
        => /\ \A i \in 1..Len(noticeCh) : noticeCh[i].of # c
           /\ hand # None => hand.of # c

BarrierInv == PathInv /\ AckInv /\ RouteInv /\ SettledInv

IInv == TypeOK /\ QueueInv /\ BarrierInv

-----------------------------------------
(* The parts of Next that leave the queue alone. *)

\* The fan-out goroutine reads runActive and never writes it.
LEMMA FanKeepsRunActive ==
    ASSUME FanStep
    PROVE  UNCHANGED <<runActive, chClosed, subscribed, sending, sendPanic,
                       emitted, lost, noticeClosed, drained>>
BY DEF FanStep, FanReceive, FanLoad, FanRoute, FanEvict, FanResend, FanTakeFlush,
       FanDrainOne, FanDrainDone, FanExit

\* Which method a call made, and whether it is silent, is settled at the start.
LEMMA KindFixed ==
    ASSUME [Next]_vars
    PROVE  \A d \in Calls : (IsStream(d)' <=> IsStream(d)) /\ (Logged(d)' <=> Logged(d))
<1>1. ASSUME NEW c \in Calls, CallStep(c) PROVE kind' = kind
  BY <1>1 DEF CallStep, Finish, Reject, Admit, Lock, EnterDriver, RaiseNotice, SendNotice, queueVars,
     SyncReturn, StreamOpen, Register, StreamError, StreamErrorUnlock, StreamErrorTail, Terminate,
     FinishRun, FinishUnregister, FinishRecord, FinishUnlock, FinishClose, CloseRows
<1>2. kind' = kind
  BY <1>1 DEF Next, vars, queueVars, FanOut, PreemptExpire, MarkPreemptPending, Closing, CloseBegin,
     CloseWaited, CloseInner, CloseChannel, CloseJoin
<1> QED BY <1>2 DEF IsStream, Logged

\* Every step keeps the queue invariant: mutex, guard, registry and history
\* move together at each of the queue's unlock sites.
LEMMA QueueStep == IInv /\ [Next]_vars => QueueInv'
<1> SUFFICES ASSUME IInv, [Next]_vars PROVE QueueInv' OBVIOUS
<1>0. /\ pc \in [Calls -> PCs] /\ outcome \in [Calls -> Outcomes]
      /\ history \in [Calls -> Nat] /\ None \notin Calls
      /\ QueueInv
      /\ \A d \in Calls : (IsStream(d)' <=> IsStream(d)) /\ (Logged(d)' <=> Logged(d))
  BY NoticeAssumption, KindFixed DEF IInv, TypeOK
<1> USE <1>0 DEF QueueInv, Published, Holding, Settling
<1>1. CASE UNCHANGED vars BY <1>1 DEF vars, queueVars
<1>2. ASSUME NEW c \in Calls, CallStep(c) PROVE QueueInv'
  <2>1. CASE Reject(c) BY <2>1 DEF Reject, Move
  <2>2. CASE Admit(c) BY <2>2 DEF Admit, Move
  <2>3. CASE Lock(c) BY <2>3 DEF Lock, Move
  <2>4. CASE EnterDriver(c) BY <2>4 DEF EnterDriver, Move
  <2>5. CASE RaiseNotice(c) BY <2>5 DEF RaiseNotice, RouteLookup, queueVars
  <2>6. CASE SendNotice(c) BY <2>6 DEF SendNotice, RouteSend, queueVars
  <2>7. ASSUME NEW o \in SyncOutcomes, SyncReturn(c, o) PROVE QueueInv' BY <2>7 DEF SyncReturn, Move, RecordHistory
  <2>8. CASE StreamOpen(c) \/ Register(c) BY <2>8 DEF StreamOpen, Register, Move
  <2>9. ASSUME NEW o \in {"error", "dead"}, StreamError(c, o) PROVE QueueInv' BY <2>9 DEF StreamError, Move
  <2>10. CASE StreamErrorUnlock(c) BY <2>10 DEF StreamErrorUnlock, Move
  <2>11. CASE StreamErrorTail(c) BY <2>11 DEF StreamErrorTail, Move, RecordHistory
  <2>12. ASSUME NEW o \in Outcomes \ {"none"}, Terminate(c, o) PROVE QueueInv' BY <2>12 DEF Terminate, Move
  <2>13. CASE FinishRun(c) BY <2>13 DEF FinishRun, Move
  <2>17. CASE FinishUnregister(c) BY <2>17 DEF FinishUnregister, Move
  <2>18. CASE FinishRecord(c) BY <2>18 DEF FinishRecord, Move, RecordHistory
  <2>14. CASE FinishUnlock(c) BY <2>14 DEF FinishUnlock, Move
  <2>15. CASE FinishClose(c) BY <2>15 DEF FinishClose, Move
  <2>16. CASE CloseRows(c) BY <2>16 DEF CloseRows, Move
  <2> QED BY <1>2, <2>1, <2>2, <2>3, <2>4, <2>5, <2>6, <2>7, <2>8, <2>9, <2>10,
       <2>11, <2>12, <2>13, <2>14, <2>15, <2>16, <2>17, <2>18 DEF CallStep, Finish
<1>3. ASSUME NEW c \in Calls, ReadNotice(c), UNCHANGED queueVars PROVE QueueInv' BY <1>3 DEF ReadNotice, queueVars
<1>4. CASE FanOut BY <1>4, FanKeepsRunActive DEF FanOut, queueVars
<1>5. CASE PreemptExpire BY <1>5 DEF PreemptExpire
<1>6. CASE MarkPreemptPending BY <1>6 DEF MarkPreemptPending
<1>7. CASE Closing BY <1>7 DEF Closing, CloseBegin, CloseWaited, CloseInner, CloseChannel, CloseJoin
<1> QED BY <1>1, <1>2, <1>3, <1>4, <1>5, <1>6, <1>7 DEF Next

-----------------------------------------
(* Types. *)

\* Types of the notice plumbing survive a step that leaves it alone.
LEMMA NoticeTypeStable ==
    ASSUME NoticeTypeOK, UNCHANGED noticeVars, runActive' \in Calls \cup {None}
    PROVE  NoticeTypeOK'
BY DEF NoticeTypeOK, noticeVars

\* Routing one notice keeps both per-run maps well typed.
LEMMA TryNoticeType ==
    ASSUME NoticeTypeOK, NEW r \in Calls, NEW n \in Notice, TryNotice(r, n)
    PROVE  notices' \in [Calls -> Seq(Notice)] /\ dropped' \in [Calls -> Nat]
<1>1. notices \in [Calls -> Seq(Notice)] /\ dropped \in [Calls -> Nat] BY DEF NoticeTypeOK
<1>2. Append(notices[r], n) \in Seq(Notice) BY <1>1
<1> QED BY <1>1, <1>2 DEF TryNotice

\* The fan-out's own steps keep the types of the notice plumbing.
LEMMA FanStepType ==
    ASSUME NoticeTypeOK, BarrierInv, FanStep
    PROVE  NoticeTypeOK'
<1> USE DEF NoticeTypeOK, FanStates, BarrierStates
<1>0. noticeCh # <<>> => Head(noticeCh) \in Notice /\ Tail(noticeCh) \in Seq(Notice) OBVIOUS
<1>1. CASE FanReceive BY <1>0, <1>1 DEF FanReceive
<1>2. CASE FanLoad BY <1>2 DEF FanLoad
<1>3. CASE FanRoute
  <2>1. target \in Calls /\ hand \in Notice BY <1>3 DEF FanRoute, BarrierInv, PathInv
  <2>2. notices' \in [Calls -> Seq(Notice)] /\ dropped' \in [Calls -> Nat] BY <1>3, <2>1, TryNoticeType DEF FanRoute
  <2> QED BY <1>3, <2>2 DEF FanRoute
<1>8. CASE FanEvict
  <2>1. target \in Calls BY <1>8 DEF FanEvict, BarrierInv, PathInv
  <2>2. notices[target] # <<>> => Tail(notices[target]) \in Seq(Notice) BY <2>1
  <2> QED BY <1>8, <2>1, <2>2 DEF FanEvict
<1>9. CASE FanResend
  <2>1. target \in Calls /\ hand \in Notice BY <1>9 DEF FanResend, BarrierInv, PathInv
  <2>2. Append(notices[target], hand) \in Seq(Notice) BY <2>1
  <2> QED BY <1>9, <2>1, <2>2 DEF FanResend
<1>4. ASSUME NEW c \in Calls, FanTakeFlush(c) PROVE NoticeTypeOK' BY <1>4 DEF FanTakeFlush
<1>5. CASE FanDrainOne
  <2>1. target \in Calls BY <1>5 DEF FanDrainOne, BarrierInv, PathInv
  <2>2. notices' \in [Calls -> Seq(Notice)] /\ dropped' \in [Calls -> Nat]
    BY <1>0, <1>5, <2>1, TryNoticeType DEF FanDrainOne
  <2> QED BY <1>0, <1>5, <2>2 DEF FanDrainOne
<1>6. CASE FanDrainDone BY <1>6 DEF FanDrainDone
<1>7. CASE FanExit BY <1>7 DEF FanExit
<1> QED BY <1>1, <1>2, <1>3, <1>4, <1>5, <1>6, <1>7, <1>8, <1>9 DEF FanStep

\* The types of the queue's own variables.
QueueTypeOK ==
    /\ pc \in [Calls -> PCs]
    /\ kind \in [Calls -> Methods]
    /\ outcome \in [Calls -> Outcomes]
    /\ streamMu \in Calls \cup {None}
    /\ registry \in Calls \cup {None}
    /\ inFlight \in Calls \cup {None}
    /\ innerClosed \in BOOLEAN
    /\ disconnected \in BOOLEAN
    /\ preemptPending \in BOOLEAN
    /\ preempter \in {"idle", "expired"}
    /\ history \in [Calls -> Nat]
    /\ closer \in CloserStates

\* Every step keeps the types of the queue's variables.
LEMMA QueueTypeStep == IInv /\ [Next]_vars => QueueTypeOK'
<1> SUFFICES ASSUME QueueTypeOK, [Next]_vars PROVE QueueTypeOK' BY DEF IInv, TypeOK, QueueTypeOK
<1> USE DEF QueueTypeOK
<1>1. CASE UNCHANGED vars BY <1>1 DEF vars, queueVars
<1>2. ASSUME NEW c \in Calls, CallStep(c) PROVE QueueTypeOK'
  <2> USE DEF PCs, Outcomes, Move
  <2>1. CASE Reject(c) \/ Admit(c) \/ Lock(c) BY <2>1 DEF Reject, Admit, Lock
  <2>2. CASE EnterDriver(c) BY <2>2 DEF EnterDriver
  <2>3. CASE RaiseNotice(c) \/ SendNotice(c) BY <2>3 DEF RaiseNotice, SendNotice, queueVars
  <2>4. ASSUME NEW o \in SyncOutcomes, SyncReturn(c, o) PROVE QueueTypeOK'
    <3>1. history' \in [Calls -> Nat] BY <2>4 DEF SyncReturn, RecordHistory
    <3>2. disconnected' \in BOOLEAN BY <2>4 DEF SyncReturn, ObserveDead
    <3> QED BY <2>4, <3>1, <3>2 DEF SyncReturn, SyncOutcomes
  <2>5. CASE StreamOpen(c) \/ Register(c) BY <2>5 DEF StreamOpen, Register
  <2>6. ASSUME NEW o \in {"error", "dead"}, StreamError(c, o) PROVE QueueTypeOK' BY <2>6 DEF StreamError
  <2>7. CASE StreamErrorUnlock(c) BY <2>7 DEF StreamErrorUnlock
  <2>8. CASE StreamErrorTail(c)
    <3>1. history' \in [Calls -> Nat] BY <2>8 DEF StreamErrorTail, RecordHistory
    <3>2. disconnected' \in BOOLEAN BY <2>8 DEF StreamErrorTail, ObserveDead
    <3> QED BY <2>8, <3>1, <3>2 DEF StreamErrorTail
  <2>9. ASSUME NEW o \in Outcomes \ {"none"}, Terminate(c, o) PROVE QueueTypeOK' BY <2>9 DEF Terminate
  <2>10. CASE FinishRun(c) \/ FinishUnregister(c) BY <2>10 DEF FinishRun, FinishUnregister
  <2>14. CASE FinishRecord(c)
    <3>1. history' \in [Calls -> Nat] BY <2>14 DEF FinishRecord, RecordHistory
    <3>2. disconnected' \in BOOLEAN BY <2>14 DEF FinishRecord, ObserveDead
    <3> QED BY <2>14, <3>1, <3>2 DEF FinishRecord
  <2>11. CASE FinishUnlock(c) BY <2>11 DEF FinishUnlock
  <2>12. CASE FinishClose(c) BY <2>12 DEF FinishClose
  <2>13. CASE CloseRows(c) BY <2>13 DEF CloseRows
  <2> QED BY <1>2, <2>1, <2>2, <2>3, <2>4, <2>5, <2>6, <2>7, <2>8, <2>9, <2>10,
       <2>11, <2>12, <2>13, <2>14 DEF CallStep, Finish
<1>3. ASSUME UNCHANGED queueVars PROVE QueueTypeOK' BY <1>3 DEF queueVars
<1>4. CASE PreemptExpire \/ MarkPreemptPending BY <1>4 DEF PreemptExpire, MarkPreemptPending
<1>5. CASE Closing
  BY <1>5 DEF Closing, CloseBegin, CloseWaited, CloseInner, CloseChannel,
              CloseJoin, CloserStates
<1> QED BY <1>1, <1>2, <1>3, <1>4, <1>5 DEF Next, FanOut

\* Every step keeps the types of the notice plumbing.
LEMMA NoticeTypeStep == IInv /\ [Next]_vars => NoticeTypeOK'
<1> SUFFICES ASSUME IInv, [Next]_vars PROVE NoticeTypeOK' OBVIOUS
<1>0. NoticeTypeOK /\ BarrierInv /\ runActive \in Calls \cup {None} BY DEF IInv, TypeOK, NoticeTypeOK
<1>1. ASSUME UNCHANGED noticeVars, runActive' \in {runActive, None} \cup Calls
      PROVE  NoticeTypeOK'
  BY <1>0, <1>1, NoticeTypeStable
<1>2. ASSUME NEW c \in Calls, CallStep(c) PROVE NoticeTypeOK'
  <2>1. CASE RaiseNotice(c)
    <3>1. emitted \in [Calls -> 0..MaxNotices] /\ emitted[c] < MaxNotices
          /\ emitted' = [emitted EXCEPT ![c] = emitted[c] + 1]
      BY <1>0, <2>1 DEF RaiseNotice, RouteLookup, NoticeTypeOK
    <3>2. emitted' \in [Calls -> 0..MaxNotices] /\ emitted'[c] \in 1..MaxNotices BY ONLY <3>1, NoticeAssumption
    <3>3. CurrentNotice(c)' \in Notice BY <3>2 DEF CurrentNotice, Notice
    <3> QED BY <1>0, <2>1, <3>2, <3>3 DEF RaiseNotice, RouteLookup, NoticeTypeOK
  <2>2. CASE SendNotice(c)
    <3>1. CurrentNotice(c) \in Notice
      BY <1>0, <2>2, NoticeAssumption
      DEF SendNotice, RouteSend, CurrentNotice, Notice, NoticeTypeOK, BarrierInv, PathInv
    <3>2. Append(noticeCh, CurrentNotice(c)) \in Seq(Notice) BY <1>0, <3>1 DEF NoticeTypeOK
    <3> QED BY <1>0, <2>2, <3>1, <3>2 DEF SendNotice, RouteSend, NoticeTypeOK
  <2>3. ASSUME NEW o \in Outcomes \ {"none"}, Terminate(c, o) PROVE NoticeTypeOK'
    BY <1>0, <2>3 DEF Terminate, NoticeTypeOK, BarrierStates
  <2>4. CASE FinishClose(c) BY <1>0, <2>4 DEF FinishClose, NoticeTypeOK
  <2>5. CASE Reject(c) \/ Admit(c) \/ Lock(c) \/ EnterDriver(c) BY <1>1, <2>5 DEF Reject, Admit, Lock, EnterDriver
  <2>6. ASSUME NEW o \in Outcomes,
               SyncReturn(c, o) \/ StreamOpen(c) \/ Register(c) \/ StreamError(c, o)
        PROVE  NoticeTypeOK'
    BY <1>1, <2>6 DEF SyncReturn, StreamOpen, Register, StreamError
  <2>7. CASE StreamErrorUnlock(c) \/ StreamErrorTail(c) BY <1>1, <2>7 DEF StreamErrorUnlock, StreamErrorTail
  <2>8. CASE FinishRun(c) \/ FinishUnregister(c) \/ FinishRecord(c) \/ FinishUnlock(c) \/ CloseRows(c)
    BY <1>1, <2>8 DEF FinishRun, FinishUnregister, FinishRecord, FinishUnlock, CloseRows
  <2> QED
    BY <1>2, <2>1, <2>2, <2>3, <2>4, <2>5, <2>6, <2>7, <2>8
    DEF CallStep, Finish, Outcomes, SyncOutcomes
<1>3. ASSUME NEW c \in Calls, ReadNotice(c) PROVE NoticeTypeOK'
  <2>1. Head(notices[c]) \in Notice /\ Tail(notices[c]) \in Seq(Notice) BY <1>0, <1>3 DEF ReadNotice, NoticeTypeOK
  <2>2. Append(drained[c], Head(notices[c])) \in Seq(Notice) BY <1>0, <2>1 DEF NoticeTypeOK
  <2>3. drained' \in [Calls -> Seq(Notice)] /\ notices' \in [Calls -> Seq(Notice)]
    BY <1>0, <1>3, <2>1, <2>2 DEF ReadNotice, NoticeTypeOK
  <2> QED BY <1>0, <1>3, <2>3 DEF ReadNotice, NoticeTypeOK
<1>4. CASE FanOut BY <1>0, <1>4, FanStepType DEF FanOut
<1>5. CASE PreemptExpire \/ MarkPreemptPending BY <1>1, <1>5 DEF PreemptExpire, MarkPreemptPending
<1>6. CASE CloseInner \/ CloseChannel BY <1>0, <1>6 DEF CloseInner, CloseChannel, NoticeTypeOK
<1>7. CASE CloseBegin \/ CloseWaited \/ CloseJoin BY <1>1, <1>7 DEF CloseBegin, CloseWaited, CloseJoin
<1>8. CASE UNCHANGED vars BY <1>1, <1>8 DEF vars
<1> QED BY <1>2, <1>3, <1>4, <1>5, <1>6, <1>7, <1>8 DEF Next, Closing

\* Every step keeps the type invariant.
LEMMA TypeStep == IInv /\ [Next]_vars => TypeOK'
BY QueueTypeStep, NoticeTypeStep DEF TypeOK, QueueTypeOK

-----------------------------------------
(* The barrier. *)

\* The facts of IInv the barrier's proof rests on: the types of what it names
\* and that two calls that hold the queue are the same call.
LEMMA BarrierFacts ==
    ASSUME IInv
    PROVE  /\ pc \in [Calls -> PCs] /\ barrier \in [Calls -> BarrierStates]
           /\ noticeCh \in Seq(Notice) /\ hand \in Notice \cup {None}
           /\ target \in Calls \cup {None} /\ runActive \in Calls \cup {None}
           /\ noticeClosed \subseteq Calls /\ sending \subseteq Calls
           /\ emitted \in [Calls -> 0..MaxNotices]
           /\ \A c, d \in Calls : Holding(c) /\ Holding(d) => c = d
           /\ \A c \in Calls : Published(c) <=> runActive = c
           /\ None \notin Calls /\ None \notin Notice /\ BarrierInv
BY NoticeAssumption DEF IInv, TypeOK, NoticeTypeOK, QueueInv

\* A step that leaves the notice path alone and moves one call's pc forward
\* without entering or leaving "flush" keeps the barrier invariant.
LEMMA BarrierMove ==
    ASSUME IInv, UNCHANGED noticeVars, NEW c \in Calls,
           NEW p, pc' = [pc EXCEPT ![c] = p],
           pc[c] # "flush", p \notin {"flush", "unregister"},
           c \notin sending \/ p \in {"wire", "open"},
           c \in noticeClosed => p \in {"finished", "done"},
           p \in {"record", "release", "closing"} => pc[c] \in {"unregister", "record", "release"}
    PROVE  BarrierInv'
<1> USE BarrierFacts DEF noticeVars
<1>1. PathInv' BY DEF BarrierInv, PathInv
<1>2. AckInv' BY DEF BarrierInv, AckInv
<1>3. RouteInv' BY DEF BarrierInv, RouteInv, Past
<1>4. SettledInv' BY DEF BarrierInv, SettledInv, Past
<1> QED BY <1>1, <1>2, <1>3, <1>4 DEF BarrierInv

\* The fan-out's own steps. A notice it takes off the channel, or reads
\* runActive for, cannot belong to a run past its barrier.
LEMMA BarrierFan ==
    ASSUME IInv, FanStep, UNCHANGED queueVars
    PROVE  BarrierInv'
<1> USE BarrierFacts
<1>0. pc' = pc /\ noticeClosed' = noticeClosed /\ sending' = sending
      /\ emitted' = emitted
  BY FanKeepsRunActive DEF queueVars
<1>a. noticeCh # <<>> =>
        /\ Head(noticeCh) = noticeCh[1] /\ 1 \in 1..Len(noticeCh)
        /\ Head(noticeCh) \in Notice
        /\ \A i \in 1..Len(Tail(noticeCh)) :
             Tail(noticeCh)[i] = noticeCh[i + 1] /\ i + 1 \in 1..Len(noticeCh)
  OBVIOUS
<1>1. CASE FanReceive
  <2> USE <1>0, <1>1, <1>a DEF FanReceive, BarrierInv
  <2>1. PathInv' BY DEF PathInv
  <2>2. AckInv' BY DEF AckInv
  <2>3. RouteInv' BY DEF RouteInv
  <2>4. SettledInv' BY DEF SettledInv, Past
  <2> QED BY <2>1, <2>2, <2>3, <2>4
<1>2. CASE FanLoad
  <2> USE <1>0, <1>2 DEF FanLoad, BarrierInv
  <2>1. PathInv' BY DEF PathInv
  <2>2. AckInv' BY DEF AckInv
  <2>3. RouteInv' BY DEF RouteInv, Past, PathInv, Published
  <2>4. SettledInv' BY DEF SettledInv, Past
  <2> QED BY <2>1, <2>2, <2>3, <2>4
<1>3. CASE FanRoute
  <2> USE <1>0, <1>3 DEF FanRoute, BarrierInv
  <2>1. PathInv' BY DEF PathInv
  <2>2. AckInv' BY DEF AckInv
  <2>3. RouteInv' /\ SettledInv' BY DEF RouteInv, SettledInv, Past
  <2> QED BY <2>1, <2>2, <2>3
<1>8. CASE FanEvict
  <2> USE <1>0, <1>8 DEF FanEvict, BarrierInv
  <2>1. PathInv' BY DEF PathInv
  <2>2. AckInv' BY DEF AckInv
  <2>3. RouteInv' /\ SettledInv' BY DEF RouteInv, SettledInv, Past
  <2> QED BY <2>1, <2>2, <2>3
<1>9. CASE FanResend
  <2> USE <1>0, <1>9 DEF FanResend, BarrierInv
  <2>1. PathInv' BY DEF PathInv
  <2>2. AckInv' BY DEF AckInv
  <2>3. RouteInv' /\ SettledInv' BY DEF RouteInv, SettledInv, Past
  <2> QED BY <2>1, <2>2, <2>3
<1>4. ASSUME NEW c \in Calls, FanTakeFlush(c) PROVE BarrierInv'
  <2> USE <1>0, <1>4 DEF FanTakeFlush, BarrierInv
  <2>1. PathInv' BY DEF PathInv, BarrierStates
  <2>2. AckInv' BY DEF AckInv, PathInv, Holding
  <2>3. RouteInv' /\ SettledInv' BY DEF RouteInv, SettledInv, Past
  <2> QED BY <2>1, <2>2, <2>3
<1>5. CASE FanDrainOne
  <2> USE <1>0, <1>5, <1>a DEF FanDrainOne, BarrierInv
  <2>1. PathInv' BY DEF PathInv
  <2>2. AckInv' BY DEF AckInv
  <2>3. RouteInv' /\ SettledInv' BY DEF RouteInv, SettledInv, Past, PathInv
  <2> QED BY <2>1, <2>2, <2>3
<1>6. CASE FanDrainDone
  <2> USE <1>0, <1>6 DEF FanDrainDone, BarrierInv
  <2>1. PathInv' BY DEF PathInv, BarrierStates
  <2>2. AckInv' BY DEF AckInv
  <2>3. RouteInv' /\ SettledInv' BY DEF RouteInv, SettledInv, Past
  <2> QED BY <2>1, <2>2, <2>3
<1>7. CASE FanExit
  <2> USE <1>0, <1>7 DEF FanExit, BarrierInv
  <2>1. PathInv' BY DEF PathInv
  <2>2. AckInv' BY DEF AckInv
  <2>3. RouteInv' /\ SettledInv' BY DEF RouteInv, SettledInv, Past
  <2> QED BY <2>1, <2>2, <2>3
<1> QED BY <1>1, <1>2, <1>3, <1>4, <1>5, <1>6, <1>7, <1>8, <1>9 DEF FanStep

\* The router's two steps: only the call on the wire raises notices, and no
\* run is past or at an acked barrier while another call is on the wire.
LEMMA BarrierRouter ==
    ASSUME IInv, NEW c \in Calls, RaiseNotice(c) \/ SendNotice(c)
    PROVE  BarrierInv'
<1> USE BarrierFacts
<1>1. CASE RaiseNotice(c)
  <2>1. /\ UNCHANGED <<pc, noticeCh, fan, hand, target, barrier, noticeClosed>>
        /\ sending' \subseteq sending \cup {c} /\ pc[c] \in {"wire", "open"}
    BY <1>1 DEF RaiseNotice, RouteLookup, queueVars
  <2>2. emitted'[c] > 0 /\ \A d \in Calls \ {c} : emitted'[d] = emitted[d] BY <1>1 DEF RaiseNotice, RouteLookup
  <2>3. PathInv' BY <2>1, <2>2 DEF BarrierInv, PathInv
  <2>4. AckInv' /\ RouteInv' /\ SettledInv' BY <2>1 DEF BarrierInv, AckInv, RouteInv, SettledInv, Past
  <2> QED BY <2>3, <2>4 DEF BarrierInv
<1>2. CASE SendNotice(c)
  <2>1. /\ UNCHANGED <<pc, emitted, fan, hand, target, barrier, noticeClosed>>
        /\ sending' = sending \ {c} /\ c \in sending
        /\ noticeCh' \in {noticeCh, Append(noticeCh, CurrentNotice(c))}
    BY <1>2 DEF SendNotice, RouteSend, queueVars
  <2>2. pc[c] \in {"wire", "open"} /\ c \notin noticeClosed BY <2>1 DEF BarrierInv, PathInv
  <2>3. PathInv' BY <2>1 DEF BarrierInv, PathInv
  <2>4. AckInv' BY <2>1, <2>2 DEF BarrierInv, AckInv, Holding
  <2>5. RouteInv' BY <2>1 DEF BarrierInv, RouteInv, Past
  <2>6. \A i \in 1..Len(noticeCh') :
          (i \in 1..Len(noticeCh) /\ noticeCh'[i] = noticeCh[i])
            \/ noticeCh'[i] = CurrentNotice(c)
    <3>1. CASE noticeCh' = noticeCh BY <3>1
    <3>2. CASE noticeCh' = Append(noticeCh, CurrentNotice(c)) BY <3>2
    <3> QED BY <2>1, <3>1, <3>2
  <2>7. SettledInv'
    <3>1. CurrentNotice(c).of = c BY DEF CurrentNotice
    <3>2. \A d \in Calls : (Past(d)' <=> Past(d)) /\ (Past(d) => d # c) BY <2>1, <2>2 DEF Past
    <3> QED BY <2>1, <2>6, <3>1, <3>2 DEF BarrierInv, SettledInv
  <2> QED BY <2>3, <2>4, <2>5, <2>7 DEF BarrierInv
<1> QED BY <1>1, <1>2

\* Every step keeps the barrier invariant: no notice of a run is on its way once
\* the run's barrier was acknowledged.
LEMMA BarrierStep == IInv /\ [Next]_vars => BarrierInv'
<1> SUFFICES ASSUME IInv, [Next]_vars PROVE BarrierInv' OBVIOUS
<1> USE BarrierFacts
<1>1. ASSUME UNCHANGED <<pc, noticeCh, sending, emitted, fan, hand, target,
                         barrier, noticeClosed>>
      PROVE  BarrierInv'
  BY <1>1 DEF BarrierInv, PathInv, AckInv, RouteInv, SettledInv, Past
<1>2. ASSUME NEW c \in Calls, CallStep(c) PROVE BarrierInv'
  <2>0. /\ c \in sending => pc[c] \in {"wire", "open"}
        /\ c \in noticeClosed => pc[c] \in {"finished", "done"}
    BY DEF BarrierInv, PathInv
  <2>1. CASE Reject(c) \/ Admit(c) \/ Lock(c) BY <2>0, <2>1, BarrierMove DEF Reject, Admit, Lock, Move
  <2>2. CASE EnterDriver(c) BY <2>0, <2>2, BarrierMove DEF EnterDriver, Move
  <2>3. CASE RaiseNotice(c) \/ SendNotice(c) BY <2>3, BarrierRouter
  <2>4. ASSUME NEW o, SyncReturn(c, o) \/ StreamOpen(c) \/ Register(c) \/ StreamError(c, o)
        PROVE  BarrierInv'
    BY <2>0, <2>4, BarrierMove DEF SyncReturn, StreamOpen, Register, StreamError, Move, Drained
  <2>5. CASE StreamErrorUnlock(c) \/ StreamErrorTail(c)
    BY <2>0, <2>5, BarrierMove DEF StreamErrorUnlock, StreamErrorTail, Move
  <2>6. ASSUME NEW o, Terminate(c, o) PROVE BarrierInv'
    <3> USE <2>0, <2>6 DEF Terminate, Move, Drained, BarrierInv
    <3>1. PathInv' BY DEF PathInv
    <3>2. AckInv' BY DEF AckInv
    <3>3. RouteInv' /\ SettledInv' BY DEF RouteInv, SettledInv, Past
    <3> QED BY <3>1, <3>2, <3>3
  <2>7. CASE FinishRun(c)
    <3> USE <2>0, <2>7 DEF FinishRun, Move, noticeVars, BarrierInv
    <3>1. fan = "exited" \/ (fan = "select" /\ noticeCh = <<>> /\ hand = None) BY DEF Flushed, AckInv, PathInv
    <3>2. PathInv' BY <3>1 DEF Flushed, PathInv
    <3>3. AckInv' BY DEF AckInv
    <3>4. RouteInv' /\ SettledInv' BY <3>1 DEF RouteInv, SettledInv, Past
    <3> QED BY <3>2, <3>3, <3>4
  <2>8. CASE FinishUnregister(c) \/ FinishRecord(c) \/ FinishUnlock(c) \/ CloseRows(c)
    BY <2>0, <2>8, BarrierMove DEF FinishUnregister, FinishRecord, FinishUnlock, CloseRows, Move
  <2>9. CASE FinishClose(c)
    <3> USE <2>0, <2>9 DEF FinishClose, Move, BarrierInv
    <3>1. PathInv' BY DEF PathInv
    <3>2. AckInv' BY DEF AckInv
    <3>3. RouteInv' /\ SettledInv' BY DEF RouteInv, SettledInv, Past
    <3> QED BY <3>1, <3>2, <3>3
  <2> QED
    BY <1>2, <2>1, <2>2, <2>3, <2>4, <2>5, <2>6, <2>7, <2>8, <2>9
    DEF CallStep, Finish
<1>3. ASSUME NEW c \in Calls, ReadNotice(c), UNCHANGED queueVars PROVE BarrierInv'
  BY <1>1, <1>3 DEF ReadNotice, queueVars
<1>4. CASE FanOut BY <1>4, BarrierFan DEF FanOut
<1>5. CASE PreemptExpire \/ MarkPreemptPending BY <1>1, <1>5 DEF PreemptExpire, MarkPreemptPending, noticeVars
<1>6. CASE Closing
  BY <1>1, <1>6 DEF Closing, CloseBegin, CloseWaited, CloseInner, CloseChannel,
                    CloseJoin, noticeVars
<1>7. CASE UNCHANGED vars BY <1>1, <1>7 DEF vars, queueVars, noticeVars
<1> QED BY <1>2, <1>3, <1>4, <1>5, <1>6, <1>7 DEF Next

-----------------------------------------
(* The theorems. *)

\* IInv is an inductive invariant of the session.
THEOREM InductiveInvariant == Spec => []IInv
<1>1. Init => IInv
  <2> SUFFICES ASSUME Init PROVE IInv OBVIOUS
  <2> USE NoticeAssumption DEF Init, NoticeInit
  <2>a. 0 \in 0..MaxNotices /\ <<>> \in Seq(Notice) OBVIOUS
  <2>b. NoticeTypeOK BY <2>a DEF NoticeTypeOK, FanStates, BarrierStates
  <2>c. QueueTypeOK BY DEF QueueTypeOK, PCs, Outcomes, CloserStates
  <2>1. TypeOK BY <2>b, <2>c DEF TypeOK, QueueTypeOK
  <2>2. QueueInv BY DEF QueueInv, Published, Holding, Settling
  <2>3. BarrierInv BY DEF BarrierInv, PathInv, AckInv, RouteInv, SettledInv, Past
  <2> QED BY <2>1, <2>2, <2>3 DEF IInv
<1>2. IInv /\ [Next]_vars => IInv' BY TypeStep, QueueStep, BarrierStep DEF IInv
<1> QED BY <1>1, <1>2, PTL DEF Spec

\* Every variable of the session keeps its type.
THEOREM TypeCorrect == Spec => []TypeOK
<1>1. IInv => TypeOK BY DEF IInv
<1> QED BY <1>1, InductiveInvariant, PTL

\* streamMu serializes: at most one call is between its Lock and its Unlock.
THEOREM QueueIsSerial == Spec => []OneInFlight
<1>1. IInv => OneInFlight BY DEF IInv, QueueInv, OneInFlight
<1> QED BY <1>1, InductiveInvariant, PTL

\* The driver's inFlight guard follows the queue, but for an undecodable row.
THEOREM GuardFollowsQueue == Spec => []GuardUnderQueue
<1>1. IInv => GuardUnderQueue BY DEF IInv, TypeOK, QueueInv, GuardUnderQueue, Holding
<1> QED BY <1>1, InductiveInvariant, PTL

\* The cancel registry names a run that holds the queue, or nothing.
THEOREM RegistryIsCurrent == Spec => []RegistryNamesActiveRun
<1>1. IInv => RegistryNamesActiveRun
  BY DEF IInv, TypeOK, NoticeTypeOK, QueueInv, RegistryNamesActiveRun, Holding, Published
<1> QED BY <1>1, InductiveInvariant, PTL

\* One history record for every Execute and Stream that settled and is not
\* silent, none else.
THEOREM HistoryIsExact == Spec => []HistoryOnce
<1>1. IInv => HistoryOnce BY DEF IInv, QueueInv, HistoryOnce, Settling
<1> QED BY <1>1, InductiveInvariant, PTL

\* The flush barrier: a closed notice channel leaves none of its run's notices
\* on the way.
THEOREM BarrierSettles == Spec => []NoticesSettledAtClose
<1>1. IInv => NoticesSettledAtClose
  <2> SUFFICES ASSUME IInv, NEW c \in noticeClosed, fan # "exited"
               PROVE  NoticesOf(noticeCh, c) = {} /\ (hand = None \/ hand.of # c)
    BY DEF NoticesSettledAtClose
  <2>1. /\ c \in Calls /\ DOMAIN noticeCh = 1..Len(noticeCh)
        /\ \A i \in 1..Len(noticeCh) : noticeCh[i].of # c
        /\ hand # None => hand.of # c
    BY BarrierFacts DEF BarrierInv, SettledInv, Past
  <2> QED BY <2>1 DEF NoticesOf
<1> QED BY <1>1, InductiveInvariant, PTL

\* The fan-out never routes into a closed notice channel.
THEOREM RoutesStayOpen == Spec => []RoutesOnlyToOpenRuns
<1>1. IInv => RoutesOnlyToOpenRuns
  BY DEF IInv, TypeOK, NoticeTypeOK, BarrierInv, PathInv, RouteInv, Past,
         RoutesOnlyToOpenRuns
<1> QED BY <1>1, InductiveInvariant, PTL

\* One call at a time is inside the driver, and the driver's guard is with it.
THEOREM QueueGuardsHold == Spec => []QueueGuards
<1>1. QED BY QueueIsSerial, GuardFollowsQueue, PTL DEF QueueGuards

\* Cancel registry and history follow the run that holds the queue, through all
\* the ways in which Execute, Explain and Stream end.
THEOREM RunRecordsHold == Spec => []RunRecords
<1>1. QED BY RegistryIsCurrent, HistoryIsExact, PTL DEF RunRecords

\* flushNotices leaves nothing of a closed run on its way, so that
\* fanOutNotices never sends into a channel RunHandle.finish has closed.
THEOREM NoticesSettledHold == Spec => []NoticesSettled
<1>1. QED BY BarrierSettles, RoutesStayOpen, PTL DEF NoticesSettled

-----------------------------------------
(* The session implements QueryService. *)

PhaseBar == [c \in Calls |-> PhaseOf(c)]
RecordedBar == {c \in Calls : history[c] > 0}

\* The caller's view of a program counter.
ViewOf(p) ==
    CASE p = "idle" -> "idle"
      [] p = "rejected" -> "refused"
      [] p = "lock" -> "queued"
      [] p \in {"entering", "wire", "wired", "open", "flush", "unregister", "record", "release",
               "erring"} -> "running"
      [] p = "panicked" -> "crashed"
      [] OTHER -> "settled"

\* PhaseOf reads nothing but the call's own program counter.
LEMMA PhaseIsView == \A c \in Calls : PhaseOf(c) = ViewOf(pc[c])
BY DEF PhaseOf, ViewOf, Holding

\* A call that moves changes its own phase and no other's.
LEMMA PhaseMove ==
    ASSUME pc \in [Calls -> PCs], NEW c \in Calls, NEW from, NEW to, Move(c, from, to)
    PROVE  /\ PhaseBar[c] = ViewOf(from)
           /\ PhaseBar' = [PhaseBar EXCEPT ![c] = ViewOf(to)]
<1>1. pc[c] = from /\ pc' = [pc EXCEPT ![c] = to] BY DEF Move
<1>2. \A d \in Calls : PhaseOf(d)' = ViewOf(pc'[d]) BY DEF PhaseOf, ViewOf, Holding
<1>3. PhaseBar = [d \in Calls |-> ViewOf(pc[d])] BY PhaseIsView DEF PhaseBar
<1>4. PhaseBar' = [d \in Calls |-> ViewOf(pc'[d])] BY <1>2 DEF PhaseBar
<1>5. \A d \in Calls : pc'[d] = IF d = c THEN to ELSE pc[d] BY <1>1
<1> QED BY <1>1, <1>3, <1>4, <1>5

\* A record of call c adds c to the calls the history holds, unless c is silent.
LEMMA RecordedGrows ==
    ASSUME history \in [Calls -> Nat], NEW c \in Calls, RecordHistory(c)
    PROVE  RecordedBar' = IF Logged(c) THEN RecordedBar \cup {c} ELSE RecordedBar
BY DEF RecordedBar, RecordHistory

\* The service that SQLSession's variables present.
ServiceVars == <<PhaseBar, RecordedBar>>

\* Every step of the session is a step of the service or invisible to it.
LEMMA ServiceStep == IInv /\ [Next]_vars => [Service!ServiceNext]_ServiceVars
<1> SUFFICES ASSUME IInv, [Next]_vars
             PROVE  Service!ServiceNext \/ UNCHANGED ServiceVars
  BY DEF ServiceVars
<1>0. /\ pc \in [Calls -> PCs] /\ history \in [Calls -> Nat]
      /\ None \notin Calls
      /\ QueueInv
  BY NoticeAssumption DEF IInv, TypeOK
<1>a. ASSUME UNCHANGED <<pc, history>> PROVE UNCHANGED ServiceVars
  BY <1>a DEF ServiceVars, PhaseBar, RecordedBar, PhaseOf, Holding
<1>b. ASSUME UNCHANGED history PROVE RecordedBar' = RecordedBar BY <1>b DEF RecordedBar
<1>c. \A c \in Calls : c \in RecordedBar <=> Settling(c) /\ Logged(c) BY <1>0 DEF RecordedBar, QueueInv
<1>2. ASSUME NEW c \in Calls, CallStep(c)
      PROVE  Service!ServiceNext \/ UNCHANGED ServiceVars
  <2>0. ASSUME NEW from, NEW to, Move(c, from, to)
        PROVE  /\ PhaseBar[c] = ViewOf(from)
               /\ PhaseBar' = [PhaseBar EXCEPT ![c] = ViewOf(to)]
    BY <2>0, <1>0, PhaseMove
  <2>s. ASSUME Service!Submit(c) \/ Service!Start(c) \/ Service!Record(c)
               \/ Service!Settle(c) \/ Service!Crash(c)
        PROVE  Service!ServiceNext
    BY <2>s DEF Service!ServiceNext
  <2>q. ASSUME NEW from, NEW to, Move(c, from, to), ViewOf(from) = ViewOf(to),
               UNCHANGED history
        PROVE  UNCHANGED ServiceVars
    <3>1. PhaseBar' = [PhaseBar EXCEPT ![c] = PhaseBar[c]] BY <2>0, <2>q
    <3>2. PhaseBar' = PhaseBar BY <3>1 DEF PhaseBar
    <3> QED BY <3>2, <2>q, <1>b DEF ServiceVars
  <2>1. CASE Reject(c)
    <3>1. Move(c, "idle", "rejected") /\ UNCHANGED history BY <2>1 DEF Reject
    <3>2. PhaseBar[c] = "idle" /\ PhaseBar' = [PhaseBar EXCEPT ![c] = "refused"] BY <3>1, <2>0 DEF ViewOf
    <3>3. Service!Submit(c) BY <3>1, <3>2, <1>b DEF Service!Submit, Service!Become, PhaseBar, RecordedBar
    <3> QED BY <3>3, <2>s
  <2>2. CASE Admit(c)
    <3>1. Move(c, "idle", "lock") /\ UNCHANGED history BY <2>2 DEF Admit
    <3>2. PhaseBar[c] = "idle" /\ PhaseBar' = [PhaseBar EXCEPT ![c] = "queued"] BY <3>1, <2>0 DEF ViewOf
    <3>3. Service!Submit(c) BY <3>1, <3>2, <1>b DEF Service!Submit, Service!Become, PhaseBar, RecordedBar
    <3> QED BY <3>3, <2>s
  <2>3. CASE Lock(c)
    <3>1. Move(c, "lock", "entering") /\ streamMu = None /\ UNCHANGED history BY <2>3 DEF Lock
    <3>2. PhaseBar[c] = "queued" /\ PhaseBar' = [PhaseBar EXCEPT ![c] = "running"] BY <3>1, <2>0 DEF ViewOf
    <3>3. ASSUME NEW d \in Calls PROVE PhaseBar[d] # "running"
      <4>1. ~Holding(d) BY <3>1, <1>0 DEF QueueInv
      <4> QED BY <4>1 DEF PhaseBar, PhaseOf
    <3>4. Service!Start(c) BY <3>1, <3>2, <3>3, <1>b DEF Service!Start, Service!Become, PhaseBar, RecordedBar
    <3> QED BY <3>4, <2>s
  <2>4. CASE EnterDriver(c)
    <3>1. UNCHANGED history BY <2>4 DEF EnterDriver
    <3>2. CASE Move(c, "entering", "wire") BY <3>1, <3>2, <2>q DEF ViewOf
    <3>3. CASE Move(c, "entering", "panicked")
      <4>1. PhaseBar[c] = "running" /\ PhaseBar' = [PhaseBar EXCEPT ![c] = "crashed"] BY <3>3, <2>0 DEF ViewOf
      <4>2. Service!Crash(c) BY <3>1, <4>1, <1>b DEF Service!Crash, Service!Become, PhaseBar, RecordedBar
      <4> QED BY <4>2, <2>s
    <3> QED BY <2>4, <3>2, <3>3 DEF EnterDriver
  <2>5. CASE RaiseNotice(c) \/ SendNotice(c) BY <2>5, <1>a DEF RaiseNotice, SendNotice, queueVars
  <2>6. ASSUME NEW o \in SyncOutcomes, SyncReturn(c, o) PROVE Service!ServiceNext
    <3>1. Move(c, "wire", "done") BY <2>6 DEF SyncReturn
    <3>2. PhaseBar[c] = "running" /\ PhaseBar' = [PhaseBar EXCEPT ![c] = "settled"] BY <3>1, <2>0 DEF ViewOf
    <3>3. c \notin RecordedBar BY <3>1, <1>c DEF Move, Settling
    <3>4. RecordedBar' = RecordedBar \/ RecordedBar' = RecordedBar \cup {c} BY <2>6, <1>0, RecordedGrows DEF SyncReturn
    <3>5. Service!Settle(c) BY <3>2, <3>3, <3>4 DEF Service!Settle, Service!Become, PhaseBar, RecordedBar
    <3> QED BY <3>5, <2>s
  <2>7. CASE StreamOpen(c) \/ Register(c) BY <2>7, <2>q DEF StreamOpen, Register, ViewOf
  <2>8. ASSUME NEW o \in {"error", "dead"}, StreamError(c, o)
        PROVE  UNCHANGED ServiceVars
    BY <2>8, <2>q DEF StreamError, ViewOf
  <2>9. CASE StreamErrorUnlock(c)
    <3>1. Move(c, "erring", "errtail") /\ UNCHANGED history BY <2>9 DEF StreamErrorUnlock
    <3>2. PhaseBar[c] = "running" /\ PhaseBar' = [PhaseBar EXCEPT ![c] = "settled"] BY <3>1, <2>0 DEF ViewOf
    <3>3. Service!Settle(c) BY <3>1, <3>2, <1>b DEF Service!Settle, Service!Become, PhaseBar, RecordedBar
    <3> QED BY <3>3, <2>s
  <2>10. CASE StreamErrorTail(c)
    <3>1. Move(c, "errtail", "done") /\ RecordHistory(c) BY <2>10 DEF StreamErrorTail
    <3>2. PhaseBar[c] = "settled" /\ PhaseBar' = [PhaseBar EXCEPT ![c] = "settled"] BY <3>1, <2>0 DEF ViewOf
    <3>3. PhaseBar' = PhaseBar BY <3>2 DEF PhaseBar
    <3>4. c \notin RecordedBar /\ RecordedBar' = IF Logged(c) THEN RecordedBar \cup {c} ELSE RecordedBar
      BY <3>1, <1>0, <1>c, RecordedGrows DEF Move, Settling
    <3>5. CASE Logged(c)
      <4>1. Service!Record(c) BY <3>2, <3>3, <3>4, <3>5 DEF Service!Record, PhaseBar, RecordedBar
      <4> QED BY <4>1, <2>s
    <3> QED BY <3>3, <3>4, <3>5 DEF ServiceVars
  <2>11. ASSUME NEW o \in Outcomes \ {"none"}, Terminate(c, o)
         PROVE  UNCHANGED ServiceVars
    BY <2>11, <2>q DEF Terminate, ViewOf
  <2>16. CASE FinishRun(c) \/ FinishUnregister(c) BY <2>16, <2>q DEF FinishRun, FinishUnregister, ViewOf
  <2>12. CASE FinishRecord(c)
    <3>1. Move(c, "record", "release") /\ RecordHistory(c) BY <2>12 DEF FinishRecord
    <3>2. PhaseBar[c] = "running" /\ PhaseBar' = [PhaseBar EXCEPT ![c] = "running"] BY <3>1, <2>0 DEF ViewOf
    <3>3. PhaseBar' = PhaseBar BY <3>2 DEF PhaseBar
    <3>4. c \notin RecordedBar /\ RecordedBar' = IF Logged(c) THEN RecordedBar \cup {c} ELSE RecordedBar
      BY <3>1, <1>0, <1>c, RecordedGrows DEF Move, Settling
    <3>5. CASE Logged(c)
      <4>1. Service!Record(c) BY <3>2, <3>3, <3>4, <3>5 DEF Service!Record, PhaseBar, RecordedBar
      <4> QED BY <4>1, <2>s
    <3> QED BY <3>3, <3>4, <3>5 DEF ServiceVars
  <2>13. CASE FinishUnlock(c)
    <3>1. Move(c, "release", "closing") /\ UNCHANGED history BY <2>13 DEF FinishUnlock
    <3>2. PhaseBar[c] = "running" /\ PhaseBar' = [PhaseBar EXCEPT ![c] = "settled"] BY <3>1, <2>0 DEF ViewOf
    <3>3. Service!Settle(c) BY <3>1, <3>2, <1>b DEF Service!Settle, Service!Become, PhaseBar, RecordedBar
    <3> QED BY <3>3, <2>s
  <2>14. CASE FinishClose(c) BY <2>14, <2>q DEF FinishClose, ViewOf
  <2>15. CASE CloseRows(c) BY <2>15, <2>q DEF CloseRows, ViewOf
  <2> QED BY <1>2, <2>1, <2>2, <2>3, <2>4, <2>5, <2>6, <2>7, <2>8, <2>9, <2>10, <2>11,
       <2>12, <2>13, <2>14, <2>15, <2>16 DEF CallStep, Finish
<1>3. ASSUME UNCHANGED <<pc, history>> \/ UNCHANGED queueVars
      PROVE  UNCHANGED ServiceVars
  BY <1>3, <1>a DEF queueVars
<1>4. CASE PreemptExpire \/ MarkPreemptPending \/ Closing
  BY <1>3, <1>4 DEF PreemptExpire, MarkPreemptPending, Closing, CloseBegin,
                    CloseWaited, CloseInner, CloseChannel, CloseJoin
<1>5. CASE FanOut \/ UNCHANGED vars BY <1>3, <1>5 DEF FanOut, vars
<1> QED BY <1>2, <1>3, <1>4, <1>5 DEF Next

\* The session implements the one-call-at-a-time query service: with QueueInv,
\* each step of a call, a finish or a failed Stream is one step of the service
\* or none.
THEOREM SessionImplementsService == Spec => ImplementsService
<1>1. Init => Service!ServiceInit BY DEF Init, Service!ServiceInit, PhaseOf, Holding
<1>2. IInv /\ [Next]_vars => [Service!ServiceNext]_ServiceVars BY ServiceStep
<1> QED
  BY <1>1, <1>2, InductiveInvariant, PTL
  DEF Spec, ImplementsService, Service!ServiceSpec, ServiceVars, PhaseBar, RecordedBar

-----------------------------------------
(* The order of a run's own notices, along the whole path. *)

\* The notices of call c in s come in the order they were raised.
Sorted(s, c) ==
    \A i, j \in 1..Len(s) :
        (i < j /\ s[i].of = c /\ s[j].of = c) => s[i].seq < s[j].seq

\* The notices of c in s were raised before those of c in t.
Before(s, t, c) ==
    \A i \in 1..Len(s), j \in 1..Len(t) :
        (s[i].of = c /\ t[j].of = c) => s[i].seq < t[j].seq

Below(s, c, m) == \A i \in 1..Len(s) : s[i].of = c => s[i].seq < m
Above(s, c, m) == \A i \in 1..Len(s) : s[i].of = c => m < s[i].seq

\* The position of the first notice of c that has not entered the path: the one
\* the read loop is about to send, or the next one the server raises.
Fresh(c) == IF c \in sending THEN emitted[c] ELSE emitted[c] + 1

\* The stations of a notice in order: read, buffered in the run, in the fan-out's
\* hand, on noticeCh, not yet sent. Each holds older notices than the next.
OrderOK(c) ==
    /\ Sorted(drained[c], c) /\ Sorted(notices[c], c) /\ Sorted(noticeCh, c)
    /\ Before(drained[c], notices[c], c)
    /\ Before(drained[c], noticeCh, c)
    /\ Before(notices[c], noticeCh, c)
    /\ Below(drained[c], c, Fresh(c)) /\ Below(notices[c], c, Fresh(c))
    /\ Below(noticeCh, c, Fresh(c))
    /\ (hand # None /\ hand.of = c) =>
          /\ Below(drained[c], c, hand.seq) /\ Below(notices[c], c, hand.seq)
          /\ Above(noticeCh, c, hand.seq)
          /\ hand.seq < Fresh(c)

OrderInv == \A c \in Calls : OrderOK(c)

\* Appending keeps the order when the new notice is younger than what is there.
LEMMA SortedAppend ==
    ASSUME NEW s \in Seq(Notice), NEW n \in Notice, NEW c \in Calls, Sorted(s, c),
           n.of = c => Below(s, c, n.seq)
    PROVE  Sorted(Append(s, n), c)
<1>1. /\ Append(s, n) \in Seq(Notice) /\ Len(Append(s, n)) = Len(s) + 1 /\ Len(s) \in Nat
      /\ Append(s, n)[Len(s) + 1] = n
      /\ \A i \in 1..Len(s) : Append(s, n)[i] = s[i]
      /\ \A i \in 1..(Len(s) + 1) : i \in 1..Len(s) \/ i = Len(s) + 1
  OBVIOUS
<1> SUFFICES ASSUME NEW i \in 1..(Len(s) + 1), NEW j \in 1..(Len(s) + 1), i < j,
                    Append(s, n)[i].of = c, Append(s, n)[j].of = c
             PROVE  Append(s, n)[i].seq < Append(s, n)[j].seq
  BY <1>1 DEF Sorted
<1>2. i \in 1..Len(s) BY <1>1
<1>3. CASE j \in 1..Len(s) BY <1>1, <1>2, <1>3 DEF Sorted
<1>4. CASE j = Len(s) + 1 BY <1>1, <1>2, <1>4 DEF Below
<1> QED BY <1>1, <1>3, <1>4

\* What bounds the parts of an appended sequence bounds the whole.
LEMMA BoundsAppend ==
    ASSUME NEW s \in Seq(Notice), NEW n \in Notice, NEW c \in Calls, NEW m \in Int
    PROVE  /\ Below(s, c, m) /\ (n.of = c => n.seq < m) => Below(Append(s, n), c, m)
           /\ Above(s, c, m) /\ (n.of = c => m < n.seq) => Above(Append(s, n), c, m)
BY DEF Below, Above, Notice

\* Appending to either side of Before.
LEMMA BeforeAppend ==
    ASSUME NEW s \in Seq(Notice), NEW t \in Seq(Notice), NEW n \in Notice,
           NEW c \in Calls, Before(s, t, c)
    PROVE  /\ (n.of = c => Above(t, c, n.seq)) => Before(Append(s, n), t, c)
           /\ (n.of = c => Below(s, c, n.seq)) => Before(s, Append(t, n), c)
<1>1. /\ Append(s, n) \in Seq(Notice) /\ Len(Append(s, n)) = Len(s) + 1 /\ Len(s) \in Nat
      /\ Append(s, n)[Len(s) + 1] = n
      /\ \A i \in 1..Len(s) : Append(s, n)[i] = s[i]
      /\ \A i \in 1..(Len(s) + 1) : i \in 1..Len(s) \/ i = Len(s) + 1
  OBVIOUS
<1>2. /\ Append(t, n) \in Seq(Notice) /\ Len(Append(t, n)) = Len(t) + 1 /\ Len(t) \in Nat
      /\ Append(t, n)[Len(t) + 1] = n
      /\ \A i \in 1..Len(t) : Append(t, n)[i] = t[i]
      /\ \A i \in 1..(Len(t) + 1) : i \in 1..Len(t) \/ i = Len(t) + 1
  OBVIOUS
<1> QED BY <1>1, <1>2 DEF Before, Below, Above

\* A bound may be raised.
LEMMA BelowMonotone ==
    ASSUME NEW s \in Seq(Notice), NEW c \in Calls, NEW m \in Int, NEW k \in Int,
           m <= k, Below(s, c, m)
    PROVE  Below(s, c, k)
<1>1. ASSUME NEW i \in 1..Len(s) PROVE s[i].seq \in Int
  <2>1. s[i] \in Notice OBVIOUS
  <2> QED BY <2>1 DEF Notice
<1> QED BY <1>1 DEF Below

\* Two sequences in order, the first older than the second, are in order.
LEMMA SortedConcat ==
    ASSUME NEW s \in Seq(Notice), NEW t \in Seq(Notice), NEW c \in Calls,
           Sorted(s, c), Sorted(t, c), Before(s, t, c)
    PROVE  Sorted(s \o t, c) /\ DOMAIN (s \o t) = 1..Len(s \o t)
<1>1. /\ Len(s) \in Nat /\ Len(t) \in Nat /\ Len(s \o t) = Len(s) + Len(t)
      /\ DOMAIN (s \o t) = 1..Len(s \o t)
      /\ \A k \in 1..Len(s) : (s \o t)[k] = s[k]
      /\ \A k \in 1..Len(s \o t) : k > Len(s) =>
            k - Len(s) \in 1..Len(t) /\ (s \o t)[k] = t[k - Len(s)]
  OBVIOUS
<1> SUFFICES ASSUME NEW i \in 1..Len(s \o t), NEW j \in 1..Len(s \o t), i < j,
                    (s \o t)[i].of = c, (s \o t)[j].of = c
             PROVE  (s \o t)[i].seq < (s \o t)[j].seq
  BY <1>1 DEF Sorted
<1>2. CASE j <= Len(s)
  <2>1. i \in 1..Len(s) /\ j \in 1..Len(s) BY <1>1, <1>2
  <2> QED BY <1>1, <2>1 DEF Sorted
<1>3. CASE i > Len(s)
  <2>1. j > Len(s) /\ i - Len(s) < j - Len(s) BY <1>1, <1>3
  <2> QED BY <1>1, <1>3, <2>1 DEF Sorted
<1>4. CASE i <= Len(s) /\ j > Len(s)
  <2>1. i \in 1..Len(s) BY <1>1, <1>4
  <2> QED BY <1>1, <1>4, <2>1 DEF Before
<1> QED BY <1>1, <1>2, <1>3, <1>4

\* Taking the head off keeps every order and every bound.
LEMMA OrderTail ==
    ASSUME NEW s \in Seq(Notice), s # <<>>, NEW t \in Seq(Notice), NEW c \in Calls,
           NEW m \in Int
    PROVE  /\ Tail(s) \in Seq(Notice) /\ Head(s) \in Notice
           /\ Sorted(s, c) => Sorted(Tail(s), c)
           /\ Before(s, t, c) => Before(Tail(s), t, c)
           /\ Before(t, s, c) => Before(t, Tail(s), c)
           /\ Below(s, c, m) => Below(Tail(s), c, m)
           /\ Above(s, c, m) => Above(Tail(s), c, m)
<1>1. /\ Tail(s) \in Seq(Notice) /\ Head(s) \in Notice
      /\ Len(Tail(s)) = Len(s) - 1 /\ Len(s) \in Nat
      /\ \A i \in 1..Len(Tail(s)) : i + 1 \in 1..Len(s) /\ Tail(s)[i] = s[i + 1]
  OBVIOUS
<1> QED BY <1>1 DEF Sorted, Before, Below, Above

\* The head of a sequence in order is older than the rest, and inherits what is
\* known of all its members.
LEMMA OrderHead ==
    ASSUME NEW s \in Seq(Notice), s # <<>>, NEW t \in Seq(Notice), NEW c \in Calls,
           NEW m \in Int, Head(s).of = c
    PROVE  /\ Sorted(s, c) => Above(Tail(s), c, Head(s).seq)
           /\ Before(s, t, c) => Above(t, c, Head(s).seq)
           /\ Before(t, s, c) => Below(t, c, Head(s).seq)
           /\ Below(s, c, m) => Head(s).seq < m
<1>1. /\ Len(Tail(s)) = Len(s) - 1 /\ Len(s) \in Nat /\ 1 \in 1..Len(s)
      /\ Head(s) = s[1]
      /\ \A i \in 1..Len(Tail(s)) : i + 1 \in 1..Len(s) /\ 1 < i + 1 /\ Tail(s)[i] = s[i + 1]
  OBVIOUS
<1> QED BY <1>1 DEF Sorted, Before, Below, Above

\* The types the order of the path is stated over.
LEMMA OrderFacts ==
    ASSUME IInv
    PROVE  /\ noticeCh \in Seq(Notice) /\ hand \in Notice \cup {None}
           /\ notices \in [Calls -> Seq(Notice)] /\ drained \in [Calls -> Seq(Notice)]
           /\ emitted \in [Calls -> 0..MaxNotices] /\ sending \subseteq Calls
           /\ \A c \in Calls : Fresh(c) \in Int /\ emitted[c] \in Int
           /\ None \notin Notice
           /\ (fan \in {"received", "routing", "evicting", "resending"} <=> hand # None)
           /\ fan \in {"routing", "draining", "evicting", "resending"} => target \in Calls
           /\ \A c \in sending : emitted[c] > 0
<1>1. emitted \in [Calls -> 0..MaxNotices] /\ sending \subseteq Calls BY DEF IInv, TypeOK, NoticeTypeOK
<1>2. \A c \in Calls : Fresh(c) \in Int /\ emitted[c] \in Int BY <1>1, NoticeAssumption DEF Fresh
<1> QED BY <1>1, <1>2, NoticeAssumption DEF IInv, TypeOK, NoticeTypeOK, BarrierInv, PathInv

\* routeNotice appends a notice to a run's buffer or refuses it; only the
\* target's own notices matter to the target.
LEMMA OrderRoute ==
    ASSUME IInv, OrderInv, NEW r \in Calls, NEW n \in Notice,
           notices' \in {notices, [notices EXCEPT ![r] = Append(@, n)]},
           UNCHANGED <<drained, sending, emitted>>, NEW ch \in Seq(Notice),
           \A c \in Calls : /\ Sorted(ch, c) /\ Before(drained[c], ch, c)
                            /\ Before(notices[c], ch, c) /\ Below(ch, c, Fresh(c)),
           noticeCh' = ch, hand' = None,
           n.of = r => /\ Below(drained[r], r, n.seq) /\ Below(notices[r], r, n.seq)
                       /\ Above(ch, r, n.seq) /\ n.seq < Fresh(r)
    PROVE  OrderInv'
<1> SUFFICES ASSUME NEW c \in Calls PROVE OrderOK(c)' BY DEF OrderInv
<1>0. OrderOK(c) /\ Fresh(c)' = Fresh(c) /\ n.seq \in Int BY DEF OrderInv, Fresh, Notice
<1>1. CASE notices'[c] = notices[c] BY <1>0, <1>1 DEF OrderOK
<1>2. CASE c = r /\ notices'[c] = Append(notices[c], n)
  <2>1. Sorted(Append(notices[c], n), c) BY <1>0, <1>2, OrderFacts, SortedAppend DEF OrderOK
  <2>2. Before(drained[c], Append(notices[c], n), c) /\ Before(Append(notices[c], n), ch, c)
    BY <1>0, <1>2, OrderFacts, BeforeAppend DEF OrderOK
  <2>3. Below(Append(notices[c], n), c, Fresh(c)) BY <1>0, <1>2, OrderFacts, BoundsAppend DEF OrderOK
  <2> QED BY <1>0, <1>2, <2>1, <2>2, <2>3 DEF OrderOK
<1> QED BY <1>1, <1>2, OrderFacts

\* The fan-out goroutine moves notices along the path without overtaking.
LEMMA OrderFan ==
    ASSUME IInv, OrderInv, FanStep
    PROVE  OrderInv'
<1>0. UNCHANGED <<sending, emitted, drained>> /\ \A c \in Calls : Fresh(c)' = Fresh(c) BY FanKeepsRunActive DEF Fresh
<1>1. CASE FanReceive
  <2> SUFFICES ASSUME NEW c \in Calls PROVE OrderOK(c)' BY DEF OrderInv
  <2>1. OrderOK(c) /\ notices[c] \in Seq(Notice) /\ drained[c] \in Seq(Notice) BY OrderFacts DEF OrderInv
  <2>2. /\ noticeCh # <<>> /\ noticeCh' = Tail(noticeCh) /\ hand' = Head(noticeCh)
        /\ UNCHANGED notices
    BY <1>1 DEF FanReceive
  <2>3. /\ Sorted(Tail(noticeCh), c) /\ Before(drained[c], Tail(noticeCh), c)
        /\ Before(notices[c], Tail(noticeCh), c) /\ Below(Tail(noticeCh), c, Fresh(c))
    BY <2>1, <2>2, OrderFacts, OrderTail DEF OrderOK
  <2>4. Head(noticeCh).of = c =>
          /\ Below(drained[c], c, Head(noticeCh).seq)
          /\ Below(notices[c], c, Head(noticeCh).seq)
          /\ Above(Tail(noticeCh), c, Head(noticeCh).seq)
          /\ Head(noticeCh).seq < Fresh(c)
    BY <2>1, <2>2, OrderFacts, OrderHead DEF OrderOK
  <2> QED BY <1>0, <2>1, <2>2, <2>3, <2>4 DEF OrderOK
<1>2. CASE FanLoad BY <1>0, <1>2 DEF FanLoad, OrderInv, OrderOK
<1>a. \A c \in Calls : OrderOK(c) BY DEF OrderInv
<1>3. CASE FanRoute
  <2>1. /\ target \in Calls /\ hand \in Notice /\ TryNotice(target, hand)
        /\ noticeCh' = noticeCh /\ hand # None
    BY <1>3, OrderFacts DEF FanRoute
  <2>2. CASE MustEvict(target)
    <3>1. UNCHANGED <<hand, notices>> BY <1>3, <2>1, <2>2 DEF FanRoute, TryNotice, MustEvict, Fits
    <3> QED BY <1>0, <2>1, <3>1 DEF OrderInv, OrderOK
  <2>3. CASE ~MustEvict(target)
    <3>1. hand' = None /\ notices' \in {notices, [notices EXCEPT ![target] = Append(@, hand)]}
      BY <1>3, <2>1, <2>3 DEF FanRoute, TryNotice
    <3> QED BY <1>0, <1>a, <2>1, <3>1, OrderFacts, OrderRoute DEF OrderOK
  <2> QED BY <2>2, <2>3
<1>7. CASE FanEvict
  <2>1. target \in Calls /\ UNCHANGED <<noticeCh, hand>> BY <1>7, OrderFacts DEF FanEvict
  <2> SUFFICES ASSUME NEW c \in Calls PROVE OrderOK(c)' BY DEF OrderInv
  <2>2. CASE notices'[c] = notices[c] BY <1>0, <1>a, <2>1, <2>2 DEF OrderOK
  <2>3. CASE notices[c] # <<>> /\ notices'[c] = Tail(notices[c])
    <3>1. notices[c] \in Seq(Notice) /\ drained[c] \in Seq(Notice) BY OrderFacts
    <3>3. hand # None => hand.seq \in Int BY OrderFacts DEF Notice
    <3>2. /\ Sorted(Tail(notices[c]), c) /\ Before(Tail(notices[c]), noticeCh, c)
          /\ Before(drained[c], Tail(notices[c]), c) /\ Below(Tail(notices[c]), c, Fresh(c))
          /\ hand # None /\ hand.of = c => Below(Tail(notices[c]), c, hand.seq)
      BY <1>a, <2>3, <3>1, <3>3, OrderFacts, OrderTail DEF OrderOK
    <3> QED BY <1>0, <1>a, <2>1, <2>3, <3>2 DEF OrderOK
  <2> QED BY <1>7, <2>1, <2>2, <2>3, OrderFacts DEF FanEvict
<1>8. CASE FanResend
  <2>1. /\ target \in Calls /\ hand \in Notice /\ hand # None /\ noticeCh' = noticeCh /\ hand' = None
        /\ notices' \in {notices, [notices EXCEPT ![target] = Append(@, hand)]}
    BY <1>8, OrderFacts DEF FanResend
  <2> QED BY <1>0, <1>a, <2>1, OrderFacts, OrderRoute DEF OrderOK
<1>4. ASSUME NEW c \in Calls, FanTakeFlush(c) PROVE OrderInv' BY <1>0, <1>4 DEF FanTakeFlush, OrderInv, OrderOK
<1>5. CASE FanDrainOne
  <2>1. /\ target \in Calls /\ noticeCh # <<>> /\ TryNotice(target, Head(noticeCh))
        /\ noticeCh' = Tail(noticeCh) /\ hand = None
    BY <1>5, OrderFacts DEF FanDrainOne
  <2>3. Head(noticeCh) \in Notice /\ Tail(noticeCh) \in Seq(Notice) BY <2>1, OrderFacts
  <2>4. ASSUME NEW c \in Calls
        PROVE  /\ Sorted(Tail(noticeCh), c) /\ Before(drained[c], Tail(noticeCh), c)
               /\ Before(notices[c], Tail(noticeCh), c)
               /\ Below(Tail(noticeCh), c, Fresh(c))
    BY <1>a, <2>1, OrderFacts, OrderTail DEF OrderOK
  <2>5. ASSUME NEW c \in Calls, Head(noticeCh).of = c
        PROVE  /\ Below(drained[c], c, Head(noticeCh).seq)
               /\ Below(notices[c], c, Head(noticeCh).seq)
               /\ Above(Tail(noticeCh), c, Head(noticeCh).seq)
               /\ Head(noticeCh).seq < Fresh(c)
    BY <1>a, <2>1, <2>5, OrderFacts, OrderHead DEF OrderOK
  <2>6. CASE MustEvict(target)
    <3>1. UNCHANGED notices /\ hand' = Head(noticeCh) BY <1>5, <2>1, <2>6 DEF FanDrainOne, TryNotice, MustEvict, Fits
    <3> SUFFICES ASSUME NEW c \in Calls PROVE OrderOK(c)' BY DEF OrderInv
    <3> QED BY <1>0, <1>a, <2>1, <2>4, <2>5, <3>1 DEF OrderOK
  <2>7. CASE ~MustEvict(target)
    <3>1. hand' = None /\ notices' \in {notices, [notices EXCEPT ![target] = Append(@, Head(noticeCh))]}
      BY <1>5, <2>1, <2>7 DEF FanDrainOne, TryNotice
    <3> QED BY <1>0, <2>1, <2>3, <2>4, <2>5, <3>1, OrderRoute
  <2> QED BY <2>6, <2>7
<1>6. CASE FanDrainDone \/ FanExit BY <1>0, <1>6 DEF FanDrainDone, FanExit, OrderInv, OrderOK
<1> QED BY <1>1, <1>2, <1>3, <1>4, <1>5, <1>6, <1>7, <1>8 DEF FanStep

\* The read loop raises and sends, the reader of Notices() receives.
LEMMA OrderEnds ==
    ASSUME IInv, OrderInv, NEW c \in Calls,
           RouteLookup(c) \/ RouteSend(c) \/ ReadNotice(c)
    PROVE  OrderInv'
<1> SUFFICES ASSUME NEW d \in Calls PROVE OrderOK(d)' BY DEF OrderInv
<1>0. OrderOK(d) /\ notices[d] \in Seq(Notice) /\ drained[d] \in Seq(Notice) BY OrderFacts DEF OrderInv
<1>f. Fresh(d) \in Int BY OrderFacts
<1>1. CASE RouteLookup(c)
  <2>1. UNCHANGED <<noticeCh, hand, notices, drained>> BY <1>1 DEF RouteLookup
  <2>2. Fresh(d)' \in Int /\ Fresh(d) <= Fresh(d)' BY <1>1, OrderFacts DEF RouteLookup, Fresh
  <2>3. ASSUME NEW s \in Seq(Notice), Below(s, d, Fresh(d)) PROVE Below(s, d, Fresh(d)')
    BY <1>f, <2>2, <2>3, BelowMonotone
  <2>4. hand # None => hand.seq \in Int BY OrderFacts DEF Notice
  <2>5. /\ Below(drained[d], d, Fresh(d)') /\ Below(notices[d], d, Fresh(d)')
        /\ Below(noticeCh, d, Fresh(d)')
    BY <1>0, <2>3, OrderFacts DEF OrderOK
  <2>6. hand # None /\ hand.of = d => hand.seq < Fresh(d)' BY <1>0, <1>f, <2>2, <2>4 DEF OrderOK
  <2> QED BY <1>0, <2>1, <2>5, <2>6 DEF OrderOK
<1>2. CASE RouteSend(c)
  <2>1. UNCHANGED <<hand, notices, drained, emitted>> BY <1>2 DEF RouteSend
  <2>2. c \in sending /\ CurrentNotice(c) \in Notice /\ Fresh(c) = emitted[c]
    BY <1>2, OrderFacts DEF RouteSend, CurrentNotice, Notice, Fresh
  <2>3. Fresh(d)' \in Int /\ Fresh(d) <= Fresh(d)' /\ (d = c => emitted[c] < Fresh(d)')
    BY <1>2, <2>2, OrderFacts DEF RouteSend, Fresh
  <2>4. ASSUME NEW s \in Seq(Notice), Below(s, d, Fresh(d)) PROVE Below(s, d, Fresh(d)')
    BY <1>f, <2>3, <2>4, BelowMonotone
  <2>5. /\ Below(drained[d], d, Fresh(d)') /\ Below(notices[d], d, Fresh(d)')
        /\ Below(noticeCh, d, Fresh(d)')
    BY <1>0, <2>4, OrderFacts DEF OrderOK
  <2>6. hand # None /\ hand.of = d => hand.seq < Fresh(d)'
    <3>1. hand # None => hand.seq \in Int BY OrderFacts DEF Notice
    <3> QED BY <1>0, <1>f, <2>3, <3>1 DEF OrderOK
  <2>7. CASE UNCHANGED noticeCh BY <1>0, <2>1, <2>5, <2>6, <2>7 DEF OrderOK
  <2>8. CASE noticeCh' = Append(noticeCh, CurrentNotice(c))
    <3> DEFINE n == CurrentNotice(c)
    <3>1. n \in Notice /\ n.of = c /\ n.seq = emitted[c] /\ (d = c => n.seq = Fresh(d)) BY <2>2 DEF CurrentNotice
    <3> HIDE DEF n
    <3>2. n.of = d => /\ Below(noticeCh, d, n.seq) /\ Below(drained[d], d, n.seq)
                      /\ Below(notices[d], d, n.seq)
      BY <1>0, <3>1 DEF OrderOK
    <3>3. Sorted(Append(noticeCh, n), d) BY <1>0, <3>1, <3>2, OrderFacts, SortedAppend DEF OrderOK
    <3>4. /\ Before(drained[d], Append(noticeCh, n), d)
          /\ Before(notices[d], Append(noticeCh, n), d)
      BY <1>0, <3>1, <3>2, OrderFacts, BeforeAppend DEF OrderOK
    <3>5. Below(Append(noticeCh, n), d, Fresh(d)') BY <2>3, <2>5, <3>1, OrderFacts, BoundsAppend
    <3>6. hand # None /\ hand.of = d => Above(Append(noticeCh, n), d, hand.seq)
      <4>1. hand # None => hand.seq \in Int BY OrderFacts DEF Notice
      <4> QED BY <1>0, <3>1, <4>1, OrderFacts, BoundsAppend DEF OrderOK
    <3>7. noticeCh' = Append(noticeCh, n) BY <2>8 DEF n
    <3> QED BY <1>0, <2>1, <2>5, <2>6, <3>3, <3>4, <3>5, <3>6, <3>7 DEF OrderOK
  <2> QED BY <1>2, <2>7, <2>8 DEF RouteSend
<1>3. CASE ReadNotice(c)
  <2>1. UNCHANGED <<noticeCh, hand, emitted, sending>> /\ Fresh(d)' = Fresh(d) BY <1>3 DEF ReadNotice, Fresh
  <2>2. CASE d # c
    <3>1. notices'[d] = notices[d] /\ drained'[d] = drained[d] BY <1>3, <2>2, OrderFacts DEF ReadNotice
    <3> QED BY <1>0, <2>1, <3>1 DEF OrderOK
  <2>3. CASE d = c
    <3> DEFINE n == Head(notices[d])
    <3>1. /\ notices[d] # <<>> /\ notices'[d] = Tail(notices[d])
          /\ drained'[d] = Append(drained[d], n) /\ n \in Notice /\ n.seq \in Int
      <4>1. notices[d] # <<>> /\ notices'[d] = Tail(notices[d]) /\ drained'[d] = Append(drained[d], n)
        BY <1>3, <2>3, OrderFacts DEF ReadNotice
      <4>2. n \in Notice BY <1>0, <4>1
      <4> QED BY <4>1, <4>2 DEF Notice
    <3>2. /\ Sorted(Tail(notices[d]), d) /\ Before(Tail(notices[d]), noticeCh, d)
          /\ Before(drained[d], Tail(notices[d]), d) /\ Below(Tail(notices[d]), d, Fresh(d))
          /\ Tail(notices[d]) \in Seq(Notice)
      BY <1>0, <3>1, OrderFacts, OrderTail DEF OrderOK
    <3>3. n.of = d => /\ Above(Tail(notices[d]), d, n.seq) /\ Above(noticeCh, d, n.seq)
                      /\ Below(drained[d], d, n.seq) /\ n.seq < Fresh(d)
      BY <1>0, <3>1, OrderFacts, OrderHead DEF OrderOK
    <3>4. hand # None /\ hand.of = d =>
            /\ Below(Tail(notices[d]), d, hand.seq) /\ (n.of = d => n.seq < hand.seq)
            /\ hand.seq \in Int
      <4>1. ASSUME hand # None, hand.of = d PROVE hand.seq \in Int BY <4>1, OrderFacts DEF Notice
      <4> QED BY <1>0, <3>1, <4>1, OrderFacts, OrderTail, OrderHead DEF OrderOK
    <3> HIDE DEF n
    <3>5. Sorted(Append(drained[d], n), d) BY <1>0, <3>1, <3>3, SortedAppend DEF OrderOK
    <3>6. /\ Before(Append(drained[d], n), Tail(notices[d]), d)
          /\ Before(Append(drained[d], n), noticeCh, d)
      BY <1>0, <3>1, <3>2, <3>3, OrderFacts, BeforeAppend DEF OrderOK
    <3>7. Below(Append(drained[d], n), d, Fresh(d)) BY <1>0, <3>1, <3>3, OrderFacts, BoundsAppend DEF OrderOK
    <3>8. hand # None /\ hand.of = d => Below(Append(drained[d], n), d, hand.seq)
      BY <1>0, <3>1, <3>4, BoundsAppend DEF OrderOK
    <3> QED BY <1>0, <2>1, <3>1, <3>2, <3>4, <3>5, <3>6, <3>7, <3>8 DEF OrderOK
  <2> QED BY <2>2, <2>3
<1> QED BY <1>1, <1>2, <1>3

\* Every step of the session keeps the path in order.
LEMMA OrderStep == IInv /\ OrderInv /\ [Next]_vars => OrderInv'
<1> SUFFICES ASSUME IInv, OrderInv, [Next]_vars PROVE OrderInv' OBVIOUS
<1>1. ASSUME UNCHANGED <<noticeCh, hand, notices, drained, sending, emitted>>
      PROVE  OrderInv'
  BY <1>1 DEF OrderInv, OrderOK, Fresh
<1>2. ASSUME NEW c \in Calls, CallStep(c) PROVE OrderInv'
  <2>1. CASE RaiseNotice(c) \/ SendNotice(c) BY <2>1, OrderEnds DEF RaiseNotice, SendNotice
  <2>2. CASE Reject(c) \/ Admit(c) \/ Lock(c) \/ EnterDriver(c)
    BY <1>1, <2>2 DEF Reject, Admit, Lock, EnterDriver, noticeVars
  <2>3. ASSUME NEW o, SyncReturn(c, o) \/ StreamOpen(c) \/ Register(c) \/ StreamError(c, o) \/ Terminate(c, o)
        PROVE  OrderInv'
    BY <1>1, <2>3 DEF SyncReturn, StreamOpen, Register, StreamError, Terminate, noticeVars
  <2>4. CASE StreamErrorUnlock(c) \/ StreamErrorTail(c) \/ Finish(c)
    BY <1>1, <2>4 DEF StreamErrorUnlock, StreamErrorTail, Finish, FinishRun,
                      FinishUnregister, FinishRecord, FinishUnlock, FinishClose, CloseRows, noticeVars
  <2> QED BY <1>2, <2>1, <2>2, <2>3, <2>4 DEF CallStep
<1>3. ASSUME NEW c \in Calls, ReadNotice(c) PROVE OrderInv' BY <1>3, OrderEnds
<1>4. CASE FanOut BY <1>4, OrderFan DEF FanOut
<1>5. CASE PreemptExpire \/ MarkPreemptPending \/ Closing
  BY <1>1, <1>5 DEF PreemptExpire, MarkPreemptPending, Closing, CloseBegin,
                    CloseWaited, CloseInner, CloseChannel, CloseJoin, noticeVars
<1>6. CASE UNCHANGED vars BY <1>1, <1>6 DEF vars, noticeVars
<1> QED BY <1>2, <1>3, <1>4, <1>5, <1>6 DEF Next

\* A run's reader receives the run's own notices in the order the server raised
\* them, whatever read loop, fan-out, flush barrier and drop-oldest interleave.
THEOREM NoticesOrdered == Spec => []NoticesInOrder
<1>1. Init => OrderInv BY DEF Init, NoticeInit, OrderInv, OrderOK, Sorted, Before, Below, Above
<1>2. IInv /\ OrderInv => NoticesInOrder
  <2> SUFFICES ASSUME IInv, OrderInv, NEW c \in Calls
               PROVE  /\ Sorted(drained[c] \o notices[c], c)
                      /\ DOMAIN (drained[c] \o notices[c]) = 1..Len(drained[c] \o notices[c])
    BY DEF NoticesInOrder, Sorted
  <2>1. drained[c] \in Seq(Notice) /\ notices[c] \in Seq(Notice) BY OrderFacts
  <2> QED BY <2>1, SortedConcat DEF OrderInv, OrderOK
<1> QED BY <1>1, <1>2, OrderStep, InductiveInvariant, PTL DEF Spec

-----------------------------------------
\* EXPLAIN and EXPLAIN ANALYZE (ExplainRun).

ExplainParts == {"ro", "legacy", "alive", "lost", "announced", "st", "tx", "priv", "byte", "active", "dead", "users",
                 "last", "presses", "cmds", "pending", "op", "posted", "tabs", "executed", "outside"}
LaunchParts == {"id", "stmt", "analyze", "step", "wrap", "excused"}

\* The transactions: what the server has open is what the driver's handle is for, and it is the
\* user's or the one that wraps the launch under way.
TransactionFits(e) ==
    /\ e.st \in {"I", "T", "E"} /\ e.priv \in Int
    /\ e.tx \in Nat /\ e.active \in Nat /\ e.users \in Nat /\ e.last \in Nat /\ e.op.wrap \in Nat
    /\ e.tx <= e.last /\ e.active <= e.last /\ e.users <= e.last /\ e.op.wrap <= e.last
    /\ e.tx = 0 <=> e.st = "I"
    /\ e.tx # 0 => e.active = e.tx /\ ~e.dead
    /\ e.st # "E" => e.priv = 0
    /\ e.users # 0 => e.tx = e.users
    /\ e.tx # e.users => e.tx = e.op.wrap
    /\ e.op.wrap # 0 => e.users # e.op.wrap
    /\ ~e.alive => e.tx = 0

\* The launch under way and the one that waits.
GateFits(e, o) == o.analyze /\ mayWrite(o.stmt) => e.ro
LaunchFits(e) ==
    /\ DOMAIN e.op = LaunchParts /\ DOMAIN e.pending = LaunchParts
    /\ e.op.step \in {"none", "begin", "explain", "error", "dead", "basic", "full"}
    /\ e.op.step = "none" => e.op = NoOp
    /\ e.op.step = "begin" => e.op.wrap = 0
    /\ e.op.step \notin {"none", "begin", "explain"} => e.op.wrap # 0
    /\ e.pending # NoOp => e.pending.step = "none" /\ e.pending.wrap = 0
    /\ GateFits(e, e.op) /\ GateFits(e, e.pending)
    /\ e.op.step = "explain" /\ e.op.analyze /\ ~e.op.excused /\ e.alive => e.tx # 0
    /\ e.outside = {}

\* A press waits, runs, has its answer posted or has its tab, and is never in two of these.
PressesFit(e) ==
    /\ e.presses \in 0..ErPresses
    /\ DOMAIN e.executed = 1..ErPresses
    /\ \A p \in 1..ErPresses : e.executed[p] \in {0, 1} /\ (p > e.presses => e.executed[p] = 0)
    /\ e.pending # NoOp => e.pending.id \in 1..e.presses /\ e.executed[e.pending.id] = 0
    /\ e.op # NoOp => e.op.id \in 1..e.presses
    /\ \A m \in e.posted : m.id \in 1..e.presses
    /\ e.tabs \in Seq([id : 1..e.presses, kind : {"plan", "error"}])
PressesApart(e) ==
    /\ e.pending # NoOp /\ e.op # NoOp => e.pending.id # e.op.id
    /\ \A m \in e.posted : (e.pending # NoOp => e.pending.id # m.id) /\ (e.op # NoOp => e.op.id # m.id)
    /\ \A i \in DOMAIN e.tabs :
         /\ e.pending # NoOp => e.pending.id # e.tabs[i].id
         /\ e.op # NoOp => e.op.id # e.tabs[i].id
         /\ \A m \in e.posted : m.id # e.tabs[i].id
    /\ \A m, n \in e.posted : m.id = n.id => m = n
    /\ \A i, j \in DOMAIN e.tabs : i # j => e.tabs[i].id # e.tabs[j].id

ExplainCore(e) ==
    DOMAIN e = ExplainParts /\ TransactionFits(e) /\ LaunchFits(e) /\ PressesFit(e) /\ PressesApart(e)
\* What is still to be explained has not been executed.
Unexecuted(e) == e.op.step \in {"begin", "explain"} => e.executed[e.op.id] = 0
ExplainOK(e) == ExplainCore(e) /\ Unexecuted(e)

\* r differs from e at most in the fields F.
ExplainMoves(e, r, F) == DOMAIN r = ExplainParts /\ \A f \in ExplainParts \ F : r[f] = e[f]
ServerFields == {"alive", "st", "tx", "priv", "byte", "active", "dead", "users", "last", "lost", "announced", "cmds"}
PressFields == {"pending", "op", "posted", "tabs", "executed", "outside", "presses", "ro"}

\* The server's side does not touch the presses.
LEMMA LaunchKept ==
    ASSUME NEW e, NEW r, ExplainCore(e), ExplainMoves(e, r, ServerFields), TransactionFits(r),
           e.op.step = "explain" /\ e.op.analyze /\ ~e.op.excused /\ r.alive => r.tx # 0
    PROVE  ExplainCore(r) /\ r.op = e.op /\ (Unexecuted(e) => Unexecuted(r))
<1>1. /\ r.pending = e.pending /\ r.op = e.op /\ r.posted = e.posted /\ r.tabs = e.tabs /\ r.executed = e.executed
      /\ r.outside = e.outside /\ r.presses = e.presses /\ r.ro = e.ro /\ DOMAIN r = ExplainParts
  BY DEF ExplainMoves, ExplainParts, ServerFields
<1>2. LaunchFits(r) BY <1>1 DEF ExplainCore, LaunchFits, GateFits
<1>3. PressesFit(r) BY <1>1 DEF ExplainCore, PressesFit
<1>4. PressesApart(r) BY <1>1 DEF ExplainCore, PressesApart
<1> QED BY <1>1, <1>2, <1>3, <1>4 DEF ExplainCore, Unexecuted

\* The transactions do not see the presses.
LEMMA TransactionKept ==
    ASSUME NEW e, NEW r, TransactionFits(e), ExplainMoves(e, r, PressFields \cup {"byte", "lost", "announced", "cmds"}), r.op.wrap = e.op.wrap
    PROVE  TransactionFits(r)
<1>1. /\ r.st = e.st /\ r.priv = e.priv /\ r.tx = e.tx /\ r.active = e.active /\ r.users = e.users /\ r.last = e.last
      /\ r.dead = e.dead /\ r.alive = e.alive
  BY DEF ExplainMoves, ExplainParts, PressFields
<1> QED BY <1>1 DEF TransactionFits

LEMMA ExplainInit == ASSUME ErInit PROVE ExplainOK(er)
<1>1. PICK ro \in BOOLEAN, legacy \in BOOLEAN :
        er = [ro |-> ro, legacy |-> legacy, alive |-> TRUE, lost |-> FALSE, announced |-> FALSE,
              st |-> "I", tx |-> 0, priv |-> 0, byte |-> "I", active |-> 0, dead |-> FALSE,
              users |-> 0, last |-> 0, presses |-> 0, cmds |-> 0,
              pending |-> NoOp, op |-> NoOp, posted |-> {}, tabs |-> <<>>,
              executed |-> [p \in 1..ErPresses |-> 0], outside |-> {}]
  BY DEF ErInit
<1>2. /\ DOMAIN er = ExplainParts /\ er.alive = TRUE /\ er.st = "I" /\ er.tx = 0 /\ er.priv = 0 /\ er.active = 0
      /\ er.users = 0 /\ er.last = 0 /\ er.presses = 0 /\ er.pending = NoOp /\ er.op = NoOp /\ er.posted = {}
      /\ er.tabs = <<>> /\ er.executed = [p \in 1..ErPresses |-> 0] /\ er.outside = {}
  BY <1>1 DEF ExplainParts
<1>3. /\ DOMAIN NoOp = LaunchParts /\ NoOp.step = "none" /\ NoOp.wrap = 0 /\ NoOp.analyze = FALSE
  BY DEF NoOp, LaunchParts
<1>4. TransactionFits(er) BY <1>2, <1>3 DEF TransactionFits
<1>5. LaunchFits(er) BY <1>2, <1>3 DEF LaunchFits, GateFits
<1>6. PressesFit(er) /\ PressesApart(er) BY <1>2, <1>3, ExplainAssumption DEF PressesFit, PressesApart
<1> QED BY <1>2, <1>3, <1>4, <1>5, <1>6 DEF ExplainOK, ExplainCore, Unexecuted

LEMMA ExplainTrue == ASSUME ExplainOK(er) PROVE ExplainTruth
<1>1. ExecutedOnce BY DEF ExplainOK, ExplainCore, PressesFit, ExecutedOnce
<1>2. GateHolds /\ InsideTransaction BY DEF ExplainOK, ExplainCore, LaunchFits, GateFits, GateHolds, InsideTransaction
<1>3. UserTransactionKept /\ SavepointReleased
  <2>1. er.op = NoOp => er.op.wrap = 0 BY DEF NoOp
  <2> QED BY <2>1 DEF ExplainOK, ExplainCore, TransactionFits, UserTransactionKept, SavepointReleased
<1>4. OneTab BY DEF ExplainOK, ExplainCore, PressesApart, OneTab
<1> QED BY <1>1, <1>2, <1>3, <1>4 DEF ExplainTruth

LEMMA NoLaunch ==
    /\ DOMAIN NoOp = LaunchParts /\ NoOp.step = "none" /\ NoOp.wrap = 0 /\ NoOp.analyze = FALSE /\ NoOp.excused = FALSE
    /\ NoOp.id = 0
  BY DEF NoOp, LaunchParts

\* Without a transaction of its own a launch leaves the user's the only one.
LEMMA UsersOwn ==
    ASSUME NEW e, TransactionFits(e), e.op.wrap = 0 \/ e.tx = 0
    PROVE  e.tx = e.users
  BY DEF TransactionFits

\* The connection is lost.
LEMMA DiesKeeps ==
    ASSUME NEW e, ExplainCore(e)
    PROVE  LET r == died(e) IN
           /\ ExplainCore(r) /\ ExplainMoves(e, r, ServerFields) /\ r.op = e.op /\ r.tx = 0 /\ (Unexecuted(e) => Unexecuted(r))
<1> DEFINE r == died(e)
<1>1. /\ ExplainMoves(e, r, {"st", "tx", "priv", "alive", "users"})
      /\ r.st = "I" /\ r.tx = 0 /\ r.priv = 0 /\ r.alive = FALSE /\ r.users = 0
  BY DEF ExplainCore, ExplainMoves, died, ended, ExplainParts
<1> HIDE DEF r
<1>2. ExplainMoves(e, r, ServerFields) BY <1>1 DEF ExplainMoves, ServerFields
<1>3. r.active = e.active /\ r.last = e.last /\ r.op = e.op BY <1>1 DEF ExplainMoves, ExplainParts
<1>4. TransactionFits(r) BY <1>1, <1>3 DEF ExplainCore, TransactionFits
<1>5. ExplainCore(r) /\ (Unexecuted(e) => Unexecuted(r)) BY <1>1, <1>2, <1>4, LaunchKept
<1> QED BY <1>1, <1>2, <1>3, <1>5 DEF r

\* The sampled status, the mark of a lost session and the number of commands.
LEMMA SampledKeeps ==
    ASSUME NEW e, NEW r, ExplainCore(e), ExplainMoves(e, r, {"byte", "lost", "announced", "cmds"})
    PROVE  ExplainCore(r) /\ r.op = e.op /\ r.tx = e.tx /\ r.users = e.users /\ (Unexecuted(e) => Unexecuted(r))
<1>1. ExplainMoves(e, r, ServerFields) /\ ExplainMoves(e, r, PressFields \cup {"byte", "lost", "announced", "cmds"})
  BY DEF ExplainMoves, ServerFields
<1>2. r.op = e.op /\ r.tx = e.tx /\ r.users = e.users /\ r.alive = e.alive BY DEF ExplainMoves, ExplainParts
<1>3. TransactionFits(r) BY <1>1, <1>2, TransactionKept DEF ExplainCore
<1>4. e.op.step = "explain" /\ e.op.analyze /\ ~e.op.excused /\ r.alive => r.tx # 0 BY <1>2 DEF ExplainCore, LaunchFits
<1> QED BY <1>1, <1>2, <1>3, <1>4, LaunchKept

\* The answer of a launch is posted.
LEMMA LaunchAnswered ==
    ASSUME NEW e, ExplainCore(e), e.op # NoOp, e.tx = e.users, NEW result
    PROVE  ExplainOK(answer(e, result))
<1> DEFINE m == [id |-> e.op.id, result |-> result]
           r == answer(e, result)
<1>1. ExplainMoves(e, r, {"op", "posted"}) /\ r.op = NoOp /\ r.posted = e.posted \cup {m}
  BY DEF ExplainCore, ExplainMoves, answer, ExplainParts
<1>2. m.id = e.op.id OBVIOUS
<1> HIDE DEF r, m
<1>3. /\ DOMAIN r = ExplainParts /\ r.pending = e.pending /\ r.tabs = e.tabs /\ r.executed = e.executed
      /\ r.outside = e.outside /\ r.presses = e.presses /\ r.ro = e.ro /\ r.alive = e.alive
      /\ r.st = e.st /\ r.priv = e.priv /\ r.tx = e.tx /\ r.active = e.active /\ r.users = e.users /\ r.last = e.last
      /\ r.dead = e.dead
  BY <1>1 DEF ExplainMoves, ExplainParts
<1>4. TransactionFits(r) BY <1>1, <1>3, NoLaunch DEF ExplainCore, TransactionFits
<1>5. LaunchFits(r) BY <1>1, <1>3, NoLaunch DEF ExplainCore, LaunchFits, GateFits
<1>6. PressesFit(r) BY <1>1, <1>2, <1>3 DEF ExplainCore, PressesFit
<1>7. PressesApart(r) BY <1>1, <1>2, <1>3 DEF ExplainCore, PressesApart
<1> QED
  <2>1. ExplainOK(r) BY <1>1, <1>3, <1>4, <1>5, <1>6, <1>7, NoLaunch DEF ExplainOK, ExplainCore, Unexecuted
  <2> QED BY <2>1 DEF r

SameLaunch(o, q) == DOMAIN q = LaunchParts /\ \A f \in LaunchParts \ {"step", "wrap"} : q[f] = o[f]

\* The step of a launch: its place and its transaction, nothing else of it.
LEMMA StepTaken ==
    ASSUME NEW e, ExplainCore(e), e.op # NoOp, NEW r, ExplainMoves(e, r, {"op"}), SameLaunch(e.op, r.op),
           r.op.step \in {"explain", "error", "dead", "basic", "full"},
           r.op.step # "explain" => r.op.wrap # 0,
           r.op.step = "explain" => e.op.step = "begin" /\ e.tx # 0,
           TransactionFits(r)
    PROVE  ExplainCore(r) /\ (Unexecuted(e) => Unexecuted(r))
<1> DEFINE o == e.op
           q == r.op
<1>3. /\ DOMAIN q = LaunchParts /\ q.id = o.id /\ q.analyze = o.analyze /\ q.stmt = o.stmt /\ q.excused = o.excused
  BY DEF SameLaunch, LaunchParts
<1>4. q # NoOp BY <1>3, NoLaunch
<1>5. /\ DOMAIN r = ExplainParts /\ r.pending = e.pending /\ r.posted = e.posted /\ r.tabs = e.tabs
      /\ r.executed = e.executed /\ r.outside = e.outside /\ r.presses = e.presses /\ r.ro = e.ro /\ r.alive = e.alive /\ r.tx = e.tx
  BY DEF ExplainMoves, ExplainParts
<1>6. LaunchFits(r) BY <1>3, <1>5 DEF ExplainCore, LaunchFits, GateFits
<1>7. PressesFit(r) BY <1>3, <1>4, <1>5 DEF ExplainCore, PressesFit
<1>8. PressesApart(r) BY <1>3, <1>4, <1>5 DEF ExplainCore, PressesApart
<1>9. Unexecuted(e) => Unexecuted(r) BY <1>3, <1>5 DEF Unexecuted
<1> QED BY <1>5, <1>6, <1>7, <1>8, <1>9 DEF ExplainCore

\* The call of the driver is over: the answer is posted, or a transaction is to be rolled back.
LEMMA NextKeeps ==
    ASSUME NEW e, ExplainCore(e), e.op.step = "explain", NEW result \in {"error", "dead", "basic", "full"}
    PROVE  ExplainOK(next(e, result))
<1>1. e.op # NoOp BY NoLaunch
<1>2. CASE e.op.wrap = 0
  <2>1. e.tx = e.users BY <1>2, UsersOwn DEF ExplainCore
  <2> QED BY <1>1, <1>2, <2>1, LaunchAnswered DEF next
<1>3. CASE e.op.wrap # 0
  <2> DEFINE r == [e EXCEPT !.op.step = result]
             o == e.op
             q == [o EXCEPT !.step = result]
  <2>1. next(e, result) = r BY <1>3 DEF next
  <2>2. ExplainMoves(e, r, {"op"}) /\ r.op = q BY DEF ExplainCore, ExplainMoves, ExplainParts
  <2>3. DOMAIN o = LaunchParts BY DEF ExplainCore, LaunchFits
  <2>4. SameLaunch(o, q) /\ q.step = result /\ q.wrap = o.wrap BY <2>3 DEF SameLaunch, LaunchParts
  <2> HIDE DEF r, q
  <2>5. ExplainMoves(e, r, PressFields \cup {"byte", "lost", "announced", "cmds"}) BY <2>2 DEF ExplainMoves, PressFields
  <2>6. TransactionFits(r) BY <2>2, <2>4, <2>5, TransactionKept DEF ExplainCore
  <2>7. ExplainCore(r) BY <1>1, <1>3, <2>2, <2>4, <2>6, StepTaken
  <2>8. Unexecuted(r) BY <2>2, <2>4 DEF Unexecuted
  <2> QED BY <2>1, <2>7, <2>8 DEF ExplainOK
<1> QED BY <1>2, <1>3

\* The statement runs once, and outside a transaction only if the user ended it.
LEMMA ExecuteKeeps ==
    ASSUME NEW e, ExplainOK(e), e.op.step = "explain", e.alive
    PROVE  LET r == execute(e) IN ExplainCore(r) /\ r.op = e.op /\ ExplainMoves(e, r, {"executed", "outside"})
<1> DEFINE i == e.op.id
           x == e.executed
           v == x[i] + (IF e.op.analyze THEN 1 ELSE 0)
           y == [x EXCEPT ![i] = v]
           out == IF e.op.analyze /\ e.tx = 0 /\ ~e.op.excused THEN {e.op.id} ELSE {}
           r == execute(e)
<1>1. ExplainMoves(e, r, {"executed", "outside"}) /\ r.executed = y /\ r.outside = e.outside \cup out
  BY DEF ExplainOK, ExplainCore, ExplainMoves, execute, ExplainParts
<1>2. e.outside = {} /\ out = {} BY DEF ExplainOK, ExplainCore, LaunchFits
<1>3. e.op # NoOp BY NoLaunch
<1>4. i \in 1..e.presses /\ e.presses \in 0..ErPresses /\ ErPresses \in Nat
  BY <1>3, ExplainAssumption DEF ExplainOK, ExplainCore, PressesFit
<1>5. DOMAIN x = 1..ErPresses /\ i \in 1..ErPresses /\ x[i] = 0
  BY <1>4 DEF ExplainOK, ExplainCore, PressesFit, Unexecuted
<1>6. v \in {0, 1} BY <1>5
<1> HIDE DEF r, v, out
<1>7. DOMAIN y = 1..ErPresses /\ y[i] = v /\ \A p \in 1..ErPresses : p # i => y[p] = x[p] BY <1>5
<1> HIDE DEF y, x, i
<1>8. /\ DOMAIN r = ExplainParts /\ r.pending = e.pending /\ r.op = e.op /\ r.posted = e.posted /\ r.tabs = e.tabs
      /\ r.presses = e.presses /\ r.ro = e.ro /\ r.alive = e.alive /\ r.tx = e.tx
  BY <1>1 DEF ExplainMoves, ExplainParts
<1>9. TransactionFits(r)
  <2>1. ExplainMoves(e, r, PressFields \cup {"byte", "lost", "announced", "cmds"}) BY <1>1 DEF ExplainMoves, PressFields
  <2> QED BY <1>8, <2>1, TransactionKept DEF ExplainOK, ExplainCore
<1>10. LaunchFits(r) BY <1>1, <1>2, <1>8 DEF ExplainOK, ExplainCore, LaunchFits, GateFits
<1>11. PressesApart(r) BY <1>8 DEF ExplainOK, ExplainCore, PressesApart
<1>12. PressesFit(r)
  <2>1. e.pending # NoOp => e.pending.id # i /\ e.pending.id \in 1..ErPresses
    BY <1>3, <1>4 DEF ExplainOK, ExplainCore, PressesApart, PressesFit, i
  <2>2. \A p \in 1..ErPresses : p > e.presses => p # i BY <1>4
  <2>3. \A p \in 1..ErPresses : y[p] \in {0, 1} /\ (p > e.presses => y[p] = 0)
    BY <1>6, <1>7, <2>2 DEF ExplainOK, ExplainCore, PressesFit, x
  <2>4. e.pending # NoOp => y[e.pending.id] = 0 BY <1>7, <2>1 DEF ExplainOK, ExplainCore, PressesFit, x
  <2> QED BY <1>1, <1>7, <1>8, <2>3, <2>4 DEF ExplainOK, ExplainCore, PressesFit
<1> QED BY <1>1, <1>8, <1>9, <1>10, <1>11, <1>12 DEF ExplainCore, r

\* The driver's savepoint and what an error leaves: the transaction stays open.
LEMMA SavepointMoves ==
    ASSUME NEW e, ExplainCore(e), NEW r, ExplainMoves(e, r, {"st", "priv"}), r.priv \in Int,
           r.st \in {"I", "T", "E"}, r.st = "I" <=> e.st = "I", r.st # "E" => r.priv = 0
    PROVE  ExplainCore(r) /\ r.op = e.op
<1>1. ExplainMoves(e, r, ServerFields) BY DEF ExplainMoves, ServerFields
<1>2. /\ r.op = e.op /\ r.alive = e.alive /\ r.tx = e.tx /\ r.active = e.active /\ r.users = e.users /\ r.last = e.last
      /\ r.dead = e.dead
  BY DEF ExplainMoves, ExplainParts
<1>3. TransactionFits(r) BY <1>2 DEF ExplainCore, TransactionFits
<1>4. e.op.step = "explain" /\ e.op.analyze /\ ~e.op.excused /\ r.alive => r.tx # 0 BY <1>2 DEF ExplainCore, LaunchFits
<1> QED BY <1>1, <1>2, <1>3, <1>4, LaunchKept

\* Whatever the server answers, the state after the driver's call is a sound one.
LEMMA ExplainedKeeps ==
    ASSUME NEW e, ExplainOK(e), e.op.step = "explain", e.alive, NEW fault
    PROVE  LET x == Explained(e, fault) IN
           ExplainCore(x.state) /\ x.state.op = e.op /\ x.result \in {"error", "dead", "basic", "full"}
<1> DEFINE guarded  == e.st = "T"
           saved    == IF guarded THEN [e EXCEPT !.priv = @ + 1] ELSE e
           retried  == IF e.legacy THEN [saved EXCEPT !.st = IF guarded THEN "T" ELSE @] ELSE saved
           ran      == execute(retried)
           released == IF guarded THEN [ran EXCEPT !.priv = @ - 1] ELSE ran
           done     == execute(e)
           p        == e.priv + IF guarded THEN 1 ELSE 0
           verdict  == IF e.st = "E" THEN "rejected" ELSE IF fault = "text" /\ e.op.analyze THEN "none" ELSE fault
           x        == Explained(e, fault)
<1>1. e.priv \in Int /\ e.st \in {"I", "T", "E"} /\ (e.st # "E" => e.priv = 0)
  BY DEF ExplainOK, ExplainCore, TransactionFits
<1>2. p \in Int /\ (e.st = "I" => p = 0) /\ (guarded => p = 1) BY <1>1
<1>3. ExplainMoves(e, saved, {"priv"}) /\ saved.priv = p BY <1>1 DEF ExplainOK, ExplainCore, ExplainMoves, ExplainParts
<1>4. ExplainMoves(e, retried, {"priv"}) /\ retried.priv = p
  <2> HIDE DEF saved, p
  <2>1. saved.st = e.st BY <1>3 DEF ExplainMoves, ExplainParts
  <2> QED BY <1>3, <2>1 DEF ExplainMoves, ExplainParts
<1>5. ExplainCore(done) /\ done.op = e.op /\ ExplainMoves(e, done, {"executed", "outside"}) /\ done.st = e.st
  <2>1. ExplainCore(done) /\ done.op = e.op /\ ExplainMoves(e, done, {"executed", "outside"}) BY ExecuteKeeps
  <2> HIDE DEF done
  <2> QED BY <2>1 DEF ExplainMoves, ExplainParts
<1>6. ExplainMoves(done, ran, {"priv"}) /\ ran.priv = p
  <2> DEFINE z == retried
  <2>1. /\ DOMAIN z = ExplainParts /\ z.op = e.op /\ z.tx = e.tx /\ z.executed = e.executed /\ z.outside = e.outside /\ z.priv = p
        /\ \A f \in ExplainParts \ {"priv"} : z[f] = e[f]
    BY <1>4 DEF ExplainMoves, ExplainParts
  <2>2. DOMAIN e = ExplainParts BY DEF ExplainOK, ExplainCore
  <2> HIDE DEF z, p
  <2>3. /\ DOMAIN execute(z) = ExplainParts /\ execute(z).executed = execute(e).executed
        /\ execute(z).outside = execute(e).outside /\ execute(z).priv = p
    BY <2>1, <2>2 DEF execute, ExplainParts
  <2>4. \A f \in ExplainParts \ {"priv", "executed", "outside"} : execute(z)[f] = execute(e)[f]
    BY <2>1, <2>2 DEF execute, ExplainParts
  <2>5. ExplainMoves(done, execute(z), {"priv"}) BY <2>3, <2>4 DEF ExplainMoves, ExplainParts
  <2> QED BY <2>3, <2>5 DEF z
<1> HIDE DEF saved, retried, ran, done, p
<1>7. /\ ExplainMoves(done, released, {"priv"}) /\ released.priv = e.priv
  BY <1>1, <1>2, <1>6 DEF ExplainMoves, ExplainParts, p
<1> HIDE DEF released
<1>8. ASSUME NEW b, NEW z, ExplainCore(b), b.op = e.op, b.st = e.st, ExplainMoves(b, z, {"priv"}), z.priv \in Int,
             e.st = "I" => z.priv = 0
      PROVE  ExplainCore(aborted(z)) /\ aborted(z).op = e.op
  <2> DEFINE a == aborted(z)
  <2>1. z.st = b.st /\ DOMAIN z = ExplainParts BY <1>8 DEF ExplainMoves, ExplainParts
  <2>2. ExplainMoves(b, a, {"st", "priv"}) /\ a.priv = z.priv /\ a.st = IF z.st = "I" THEN "I" ELSE "E"
    BY <1>8, <2>1 DEF aborted, ExplainMoves, ExplainParts
  <2> HIDE DEF a
  <2>3. a.priv \in Int /\ a.st \in {"I", "T", "E"} /\ (a.st = "I" <=> b.st = "I") /\ (a.st # "E" => a.priv = 0)
    BY <1>8, <2>1, <2>2
  <2>4. ExplainCore(a) /\ a.op = b.op BY <1>8, <2>2, <2>3, SavepointMoves
  <2> QED BY <1>8, <2>4 DEF a
<1>9. ExplainCore(aborted(saved)) /\ aborted(saved).op = e.op BY <1>2, <1>3, <1>8 DEF ExplainOK
<1>10. ExplainCore(aborted(ran)) /\ aborted(ran).op = e.op BY <1>2, <1>5, <1>6, <1>8
<1>11. ExplainCore(aborted(released)) /\ aborted(released).op = e.op BY <1>1, <1>5, <1>7, <1>8
<1>12. e.st # "E" => ExplainCore(released) /\ released.op = e.op
  <2>1. ExplainMoves(done, released, {"st", "priv"}) /\ released.st = done.st BY <1>7 DEF ExplainMoves, ExplainParts
  <2> QED BY <1>1, <1>5, <1>7, <2>1, SavepointMoves
<1>13. x = CASE verdict = "rejected" -> [state |-> aborted(saved), result |-> "error"]
             [] verdict = "execution" -> [state |-> aborted(ran), result |-> "error"]
             [] verdict = "parse" -> [state |-> released, result |-> "error"]
             [] verdict = "text" -> [state |-> aborted(released), result |-> "error"]
             [] OTHER -> [state |-> released, result |-> IF e.legacy THEN "basic" ELSE "full"]
  BY DEF Explained, saved, retried, ran, released
<1>14. e.st = "E" => verdict = "rejected" OBVIOUS
<1> HIDE DEF verdict
<1> HIDE DEF x
<1>15. /\ x.state = aborted(saved) \/ x.state = aborted(ran) \/ x.state = aborted(released) \/ (e.st # "E" /\ x.state = released)
       /\ x.result \in {"error", "dead", "basic", "full"}
  <2>1. CASE verdict = "rejected" BY <1>13, <2>1
  <2>2. CASE verdict = "execution" BY <1>13, <2>2
  <2>3. CASE verdict = "parse" BY <1>13, <1>14, <2>3
  <2>4. CASE verdict = "text" BY <1>13, <2>4
  <2>5. CASE verdict \notin {"rejected", "execution", "parse", "text"} BY <1>13, <1>14, <2>5
  <2> QED BY <2>1, <2>2, <2>3, <2>4, <2>5
<1> QED BY <1>9, <1>10, <1>11, <1>12, <1>15 DEF x

LEMMA RunExplainKeeps == ASSUME ExplainOK(er), runExplain PROVE ExplainOK(er')
<1>1. er.op.step = "explain" /\ ExplainCore(er) BY DEF runExplain, Running, ExplainOK
<1>2. CASE er' = next(er, "error") BY <1>1, <1>2, NextKeeps
<1>3. ASSUME NEW before \in BOOLEAN,
             er' = next([died(IF before \/ ~er.alive THEN er ELSE execute(er)) EXCEPT !.lost = TRUE], "dead")
      PROVE  ExplainOK(er')
  <2> DEFINE b == IF before \/ ~er.alive THEN er ELSE execute(er)
             d == died(b)
             e == [d EXCEPT !.lost = TRUE]
  <2>1. ExplainCore(b) /\ b.op = er.op BY <1>1, ExecuteKeeps
  <2> HIDE DEF b
  <2>2. ExplainCore(d) /\ d.op = b.op BY <2>1, DiesKeeps
  <2> HIDE DEF d
  <2>3. ExplainMoves(d, e, {"byte", "lost", "announced", "cmds"}) BY <2>2 DEF ExplainCore, ExplainMoves, ExplainParts
  <2> HIDE DEF e
  <2>4. ExplainCore(e) /\ e.op = d.op BY <2>2, <2>3, SampledKeeps
  <2>5. ExplainOK(next(e, "dead")) BY <1>1, <2>1, <2>2, <2>4, NextKeeps
  <2> QED BY <1>3, <2>5 DEF e, d, b
<1>4. ASSUME er.alive, NEW fault,
             er' = next([Explained(er, fault).state EXCEPT !.byte = Explained(er, fault).state.st], Explained(er, fault).result)
      PROVE  ExplainOK(er')
  <2> DEFINE x == Explained(er, fault)
             c == x.state
             e == [c EXCEPT !.byte = c.st]
  <2>1. ExplainCore(c) /\ c.op = er.op /\ x.result \in {"error", "dead", "basic", "full"} BY <1>1, <1>4, ExplainedKeeps
  <2>2. er' = next(e, x.result) BY <1>4
  <2> HIDE DEF x, c
  <2>3. ExplainMoves(c, e, {"byte", "lost", "announced", "cmds"}) BY <2>1 DEF ExplainCore, ExplainMoves, ExplainParts
  <2> HIDE DEF e
  <2>4. ExplainCore(e) /\ e.op = c.op BY <2>1, <2>3, SampledKeeps
  <2> QED BY <1>1, <2>1, <2>2, <2>4, NextKeeps
<1> QED BY <1>2, <1>3, <1>4 DEF runExplain

LEMMA BeginKeeps == ASSUME ExplainOK(er), beginWrap PROVE ExplainOK(er')
<1>1. er.op.step = "begin" /\ ExplainCore(er) /\ er.op # NoOp /\ er.op.wrap = 0 /\ er.tx = er.users
  <2>1. er.op.step = "begin" /\ er.op.wrap = 0 BY DEF beginWrap, Running, ExplainOK, ExplainCore, LaunchFits
  <2> QED BY <2>1, NoLaunch, UsersOwn DEF ExplainOK, ExplainCore
<1>2. CASE er' = answer(er, "error") BY <1>1, <1>2, LaunchAnswered
<1>3. CASE er' = answer(died(er), "dead")
  <2> DEFINE d == died(er)
  <2>1. ExplainCore(d) /\ d.op = er.op /\ d.tx = 0 BY <1>1, DiesKeeps
  <2> HIDE DEF d
  <2>2. d.tx = d.users BY <2>1, UsersOwn DEF ExplainCore
  <2> QED BY <1>1, <1>3, <2>1, <2>2, LaunchAnswered DEF d
<1>4. CASE er' = answer([er EXCEPT !.byte = er.st], "error")
  <2> DEFINE e == [er EXCEPT !.byte = er.st]
  <2>1. ExplainMoves(er, e, {"byte", "lost", "announced", "cmds"}) BY <1>1 DEF ExplainCore, ExplainMoves, ExplainParts
  <2>2. er' = answer(e, "error") BY <1>4
  <2> HIDE DEF e
  <2>3. ExplainCore(e) /\ e.op = er.op /\ e.tx = er.tx /\ e.users = er.users BY <1>1, <2>1, SampledKeeps
  <2> QED BY <1>1, <2>2, <2>3, LaunchAnswered
<1>5. CASE er.alive /\ ~refused(er) /\ er' = [begun(er) EXCEPT !.op.step = "explain", !.op.wrap = er.last + 1]
  <2> DEFINE b == begun(er)
             o == er.op
             q == [o EXCEPT !.step = "explain", !.wrap = er.last + 1]
             r == [b EXCEPT !.op.step = "explain", !.op.wrap = er.last + 1]
  <2>1. ExplainMoves(er, b, {"st", "byte", "last", "tx", "active", "dead"}) /\ b.st = "T" /\ b.last = er.last + 1
        /\ b.tx = er.last + 1 /\ b.active = er.last + 1 /\ b.dead = FALSE /\ b.op = o
    BY <1>1 DEF ExplainCore, ExplainMoves, begun, ExplainParts
  <2> HIDE DEF b
  <2>2. ExplainMoves(b, r, {"op"}) /\ r.op = q BY <2>1 DEF ExplainMoves, ExplainParts
  <2>3. DOMAIN o = LaunchParts BY <1>1 DEF ExplainCore, LaunchFits
  <2>4. SameLaunch(o, q) /\ q.step = "explain" /\ q.wrap = er.last + 1 BY <2>3 DEF SameLaunch, LaunchParts
  <2> HIDE DEF r, q
  <2>5. /\ DOMAIN r = ExplainParts /\ r.op = q /\ r.alive = er.alive /\ r.users = er.users /\ r.priv = er.priv /\ r.st = "T"
        /\ r.last = er.last + 1 /\ r.tx = er.last + 1 /\ r.active = er.last + 1 /\ r.dead = FALSE
        /\ r.pending = er.pending /\ r.posted = er.posted /\ r.tabs = er.tabs
        /\ r.executed = er.executed /\ r.outside = er.outside /\ r.presses = er.presses /\ r.ro = er.ro
    BY <2>1, <2>2 DEF ExplainMoves, ExplainParts
  <2>6. q.id = o.id /\ q.analyze = o.analyze /\ q.stmt = o.stmt /\ q.excused = o.excused /\ q # NoOp
    BY <2>4, NoLaunch DEF SameLaunch, LaunchParts
  <2>7. er.st = "I" /\ er.users = 0 /\ er.last \in Nat BY <1>1, <1>5 DEF refused, ExplainCore, TransactionFits
  <2>8. TransactionFits(r) BY <1>1, <1>5, <2>4, <2>5, <2>7 DEF ExplainCore, TransactionFits
  <2>9. LaunchFits(r) BY <1>1, <2>4, <2>5, <2>6, <2>7 DEF ExplainCore, LaunchFits, GateFits, SameLaunch
  <2>10. PressesFit(r) BY <1>1, <2>5, <2>6 DEF ExplainCore, PressesFit
  <2>11. PressesApart(r) BY <1>1, <2>5, <2>6 DEF ExplainCore, PressesApart
  <2>12. Unexecuted(r) BY <1>1, <2>4, <2>5, <2>6 DEF ExplainOK, Unexecuted
  <2>13. ExplainOK(r) BY <2>5, <2>8, <2>9, <2>10, <2>11, <2>12 DEF ExplainOK, ExplainCore
  <2> QED BY <1>5, <2>13 DEF r, b
<1> QED BY <1>2, <1>3, <1>4, <1>5 DEF beginWrap

LEMMA PressKeeps == ASSUME ExplainOK(er), explain \/ handleCancel PROVE ExplainOK(er')
<1>1. ASSUME NEW q, NEW n \in Nat, ExplainMoves(er, er', {"pending", "presses"}), er'.pending = q, er'.presses = n,
             q = NoOp \/ /\ DOMAIN q = LaunchParts /\ q.step = "none" /\ q.wrap = 0 /\ GateFits(er, q)
                         /\ q.id = n /\ n = er.presses + 1,
             n \in er.presses .. (er.presses + 1), n \in 0..ErPresses
      PROVE  ExplainOK(er')
  <2>1. /\ DOMAIN er' = ExplainParts /\ er'.op = er.op /\ er'.posted = er.posted /\ er'.tabs = er.tabs
        /\ er'.executed = er.executed /\ er'.outside = er.outside /\ er'.ro = er.ro /\ er'.alive = er.alive /\ er'.tx = er.tx
    BY <1>1 DEF ExplainMoves, ExplainParts
  <2>2. TransactionFits(er')
    <3>1. ExplainMoves(er, er', PressFields \cup {"byte", "lost", "announced", "cmds"})
      BY <1>1 DEF ExplainMoves, PressFields
    <3> QED BY <2>1, <3>1, TransactionKept DEF ExplainOK, ExplainCore
  <2>3. LaunchFits(er') BY <1>1, <2>1, NoLaunch DEF ExplainOK, ExplainCore, LaunchFits, GateFits
  <2>4. er.presses \in Nat /\ 1..er.presses \subseteq 1..n BY <1>1 DEF ExplainOK, ExplainCore, PressesFit
  <2>5. er.tabs \in Seq([id : 1..n, kind : {"plan", "error"}]) /\ \A i \in DOMAIN er.tabs : er.tabs[i].id \in 1..er.presses
    <3> DEFINE A == [id : 1..er.presses, kind : {"plan", "error"}]
               B == [id : 1..n, kind : {"plan", "error"}]
    <3>1. A \subseteq B BY <2>4
    <3>2. er.tabs \in Seq(A) BY DEF ExplainOK, ExplainCore, PressesFit
    <3>3. \A a \in A : a.id \in 1..er.presses OBVIOUS
    <3> HIDE DEF A, B
    <3>4. er.tabs \in Seq(B) /\ \A i \in DOMAIN er.tabs : er.tabs[i] \in A BY <3>1, <3>2
    <3> QED BY <3>3, <3>4 DEF B
  <2>6. PressesFit(er')
    <3>1. q # NoOp => q.id \in 1..n /\ er.executed[q.id] = 0 BY <1>1, <2>4 DEF ExplainOK, ExplainCore, PressesFit
    <3> QED BY <1>1, <2>1, <2>4, <2>5, <3>1 DEF ExplainOK, ExplainCore, PressesFit
  <2>7. PressesApart(er')
    <3>1. q # NoOp => q.id \notin 1..er.presses BY <1>1, <2>4
    <3> QED BY <1>1, <2>1, <2>5, <3>1 DEF ExplainOK, ExplainCore, PressesFit, PressesApart
  <2>8. Unexecuted(er') BY <2>1 DEF ExplainOK, Unexecuted
  <2> QED BY <2>1, <2>2, <2>3, <2>6, <2>7, <2>8 DEF ExplainOK, ExplainCore
<1>2. er.presses \in 0..ErPresses /\ er.presses \in Nat /\ DOMAIN er = ExplainParts
  BY ExplainAssumption DEF ExplainOK, ExplainCore, PressesFit
<1>3. CASE explain
  <2>1. PICK stmt \in ErStatements, requested \in BOOLEAN :
          er' = [er EXCEPT !.presses = @ + 1,
                           !.pending = [NoOp EXCEPT !.id = er.presses + 1, !.stmt = stmt,
                                          !.analyze = EffectiveAnalyze(stmt, er.ro, requested)]]
    BY <1>3 DEF explain
  <2> DEFINE g == EffectiveAnalyze(stmt, er.ro, requested)
             q == [NoOp EXCEPT !.id = er.presses + 1, !.stmt = stmt, !.analyze = g]
  <2>2. g /\ mayWrite(stmt) => er.ro BY DEF EffectiveAnalyze
  <2>3. /\ DOMAIN q = LaunchParts /\ q.step = "none" /\ q.wrap = 0 /\ q.id = er.presses + 1 /\ q.stmt = stmt /\ q.analyze = g
    BY DEF NoOp, LaunchParts
  <2>4. er' = [er EXCEPT !.presses = @ + 1, !.pending = q] BY <2>1
  <2> HIDE DEF q, g
  <2>5. GateFits(er, q) BY <2>2, <2>3 DEF GateFits
  <2>6. ExplainMoves(er, er', {"pending", "presses"}) /\ er'.pending = q /\ er'.presses = er.presses + 1
    BY <1>2, <2>4 DEF ExplainMoves, ExplainParts
  <2>7. er.presses + 1 \in 0..ErPresses /\ er.presses + 1 \in er.presses .. (er.presses + 1)
    <3> DEFINE n == er.presses
    <3>1. n \in Nat /\ n < ErPresses /\ ErPresses \in Nat BY <1>2, <1>3, ExplainAssumption DEF explain
    <3> HIDE DEF n
    <3>2. n + 1 \in 0..ErPresses /\ n + 1 \in n .. (n + 1) BY <3>1
    <3> QED BY <3>2 DEF n
  <2> QED BY <1>1, <1>2, <2>3, <2>5, <2>6, <2>7
<1>4. CASE handleCancel
  <2>1. ExplainMoves(er, er', {"pending", "presses"}) /\ er'.pending = NoOp /\ er'.presses = er.presses
    BY <1>2, <1>4 DEF handleCancel, ExplainMoves, ExplainParts
  <2>2. er.presses \in er.presses .. (er.presses + 1) BY <1>2
  <2> QED BY <1>1, <1>2, <2>1, <2>2
<1> QED BY <1>3, <1>4

\* A launch begins: what waited is under way.
LEMMA LaunchBegins == ASSUME ExplainOK(er), launch PROVE ExplainOK(er')
<1> DEFINE inTx == ~er.lost /\ er.byte \in {"T", "E"}
           o == er.pending
           step == IF o.analyze /\ ~inTx THEN "begin" ELSE "explain"
           out == er.byte # er.st
           q == [o EXCEPT !.step = step, !.excused = out]
<1>1. /\ er.op.step = "none" /\ er.op = NoOp /\ o # NoOp
      /\ er' = [er EXCEPT !.pending = NoOp, !.op = q]
  BY DEF launch, Running, ExplainOK, ExplainCore, LaunchFits
<1>2. DOMAIN er = ExplainParts /\ DOMAIN o = LaunchParts /\ o.wrap = 0 /\ GateFits(er, o)
  BY <1>1 DEF ExplainOK, ExplainCore, LaunchFits
<1>3. /\ DOMAIN q = LaunchParts /\ q.id = o.id /\ q.analyze = o.analyze /\ q.stmt = o.stmt /\ q.wrap = 0
      /\ q.step = step /\ q.excused = out
  BY <1>2 DEF LaunchParts
<1>4. step \in {"begin", "explain"} /\ (step = "explain" /\ o.analyze /\ ~out => er.st \in {"T", "E"}) OBVIOUS
<1> HIDE DEF q, step, out, inTx
<1>5. /\ DOMAIN er' = ExplainParts /\ er'.op = q /\ er'.pending = NoOp /\ er'.posted = er.posted /\ er'.tabs = er.tabs
      /\ er'.executed = er.executed /\ er'.outside = er.outside /\ er'.presses = er.presses /\ er'.ro = er.ro
      /\ er'.st = er.st /\ er'.priv = er.priv /\ er'.tx = er.tx /\ er'.active = er.active /\ er'.users = er.users
      /\ er'.last = er.last /\ er'.dead = er.dead /\ er'.alive = er.alive
  BY <1>1, <1>2 DEF ExplainParts
<1>6. TransactionFits(er') BY <1>1, <1>3, <1>5, NoLaunch DEF ExplainOK, ExplainCore, TransactionFits
<1>7. er.st \in {"T", "E"} => er.tx # 0 BY DEF ExplainOK, ExplainCore, TransactionFits
<1>8. LaunchFits(er') BY <1>2, <1>3, <1>4, <1>5, <1>7, NoLaunch DEF ExplainOK, ExplainCore, LaunchFits, GateFits
<1>9. PressesFit(er') BY <1>1, <1>3, <1>5, NoLaunch DEF ExplainOK, ExplainCore, PressesFit
<1>10. PressesApart(er') BY <1>1, <1>3, <1>5, NoLaunch DEF ExplainOK, ExplainCore, PressesApart
<1>11. Unexecuted(er') BY <1>1, <1>3, <1>5 DEF ExplainOK, ExplainCore, PressesFit, Unexecuted
<1> QED BY <1>5, <1>6, <1>8, <1>9, <1>10, <1>11 DEF ExplainOK, ExplainCore

\* The launch's own transaction is rolled back, unless someone has ended it.
LEMMA RollbackExplainKeeps == ASSUME ExplainOK(er), rollbackExplain PROVE ExplainOK(er')
<1> DEFINE w == er.op.wrap
           e == rolledBack(er, w)
<1>1. /\ er.op.step \in {"error", "dead", "basic", "full"} /\ w # 0 /\ ExplainCore(er) /\ er.op # NoOp
      /\ er' = answer(e, er.op.step)
  BY NoLaunch DEF rollbackExplain, ExplainOK
<1>2. CASE er.alive /\ er.active = w /\ ~er.dead
  <2>1. ExplainMoves(er, e, {"st", "tx", "priv", "byte", "active", "dead"}) /\ e.st = "I" /\ e.tx = 0 /\ e.priv = 0
        /\ e.active = 0 /\ e.dead = FALSE
    BY <1>1, <1>2 DEF ExplainCore, ExplainMoves, rolledBack, settled, ended, ExplainParts
  <2> HIDE DEF e
  <2>2. e.op = er.op /\ e.users = er.users /\ e.last = er.last /\ e.alive = er.alive
    BY <2>1 DEF ExplainMoves, ExplainParts
  <2>3. er.users = 0 BY <1>1, <1>2 DEF ExplainCore, TransactionFits
  <2>4. TransactionFits(e) BY <1>1, <2>1, <2>2, <2>3 DEF ExplainCore, TransactionFits
  <2>5. ExplainMoves(er, e, ServerFields) BY <2>1 DEF ExplainMoves, ServerFields
  <2>6. ExplainCore(e) BY <1>1, <2>2, <2>4, <2>5, LaunchKept
  <2>7. e.tx = e.users BY <2>1, <2>2, <2>3
  <2> QED BY <1>1, <2>2, <2>6, <2>7, LaunchAnswered
<1>3. CASE ~(er.alive /\ er.active = w /\ ~er.dead)
  <2>1. e = er BY <1>3 DEF rolledBack
  <2>2. er.tx = er.users BY <1>1, <1>3 DEF ExplainCore, TransactionFits
  <2> QED BY <1>1, <2>1, <2>2, LaunchAnswered
<1> QED BY <1>2, <1>3

\* A posted answer becomes a tab.
LEMMA AnswerShown == ASSUME ExplainOK(er), settle PROVE ExplainOK(er')
<1>1. PICK m \in er.posted :
        er' = [er EXCEPT !.posted = @ \ {m},
                         !.lost = @ \/ (m.result = "dead" /\ ~er.lost), !.announced = @ \/ (m.result = "dead" /\ ~er.lost),
                         !.tabs = Append(@, [id |-> m.id,
                                             kind |-> IF m.result \in {"error", "dead"} THEN "error" ELSE "plan"])]
  BY DEF settle
<1> DEFINE t == [id |-> m.id, kind |-> IF m.result \in {"error", "dead"} THEN "error" ELSE "plan"]
           S == [id : 1..er.presses, kind : {"plan", "error"}]
           tabs == er.tabs
<1>2. DOMAIN er = ExplainParts /\ m.id \in 1..er.presses /\ tabs \in Seq(S) BY DEF ExplainOK, ExplainCore, PressesFit
<1>3. t \in S /\ t.id = m.id BY <1>2
<1>4. er' = [er EXCEPT !.posted = @ \ {m}, !.lost = @ \/ (m.result = "dead" /\ ~er.lost),
                       !.announced = @ \/ (m.result = "dead" /\ ~er.lost), !.tabs = Append(@, t)]
  BY <1>1
<1> HIDE DEF t
<1>5. /\ DOMAIN er' = ExplainParts /\ er'.tabs = Append(tabs, t) /\ er'.posted = er.posted \ {m}
      /\ er'.op = er.op /\ er'.pending = er.pending /\ er'.alive = er.alive
      /\ er'.executed = er.executed /\ er'.outside = er.outside /\ er'.presses = er.presses /\ er'.ro = er.ro
      /\ er'.st = er.st /\ er'.priv = er.priv /\ er'.tx = er.tx /\ er'.active = er.active /\ er'.users = er.users
      /\ er'.last = er.last /\ er'.dead = er.dead
  BY <1>2, <1>4 DEF ExplainParts
<1>6. /\ Append(tabs, t) \in Seq(S) /\ DOMAIN Append(tabs, t) = 1..(Len(tabs) + 1) /\ DOMAIN tabs = 1..Len(tabs) /\ Len(tabs) \in Nat
      /\ Append(tabs, t)[Len(tabs) + 1] = t /\ \A i \in DOMAIN tabs : Append(tabs, t)[i] = tabs[i]
  <2> HIDE DEF S, tabs
  <2> QED BY <1>2, <1>3
<1> DEFINE new == Append(tabs, t)
<1> HIDE DEF new
<1>7. \A i \in DOMAIN new : (i \in DOMAIN tabs /\ new[i] = tabs[i]) \/ (i = Len(tabs) + 1 /\ new[i] = t) BY <1>6 DEF new
<1>8. TransactionFits(er') BY <1>5 DEF ExplainOK, ExplainCore, TransactionFits
<1>9. LaunchFits(er') BY <1>5 DEF ExplainOK, ExplainCore, LaunchFits, GateFits
<1>10. PressesFit(er') BY <1>5, <1>6 DEF ExplainOK, ExplainCore, PressesFit
<1>11. PressesApart(er')
  <2>1. ASSUME NEW i \in DOMAIN new
        PROVE  /\ er.pending # NoOp => er.pending.id # new[i].id
               /\ er.op # NoOp => er.op.id # new[i].id
               /\ \A n \in er.posted \ {m} : n.id # new[i].id
    <3>1. CASE i \in DOMAIN tabs /\ new[i] = tabs[i] BY <3>1 DEF ExplainOK, ExplainCore, PressesApart
    <3>2. CASE new[i] = t BY <1>3, <3>2 DEF ExplainOK, ExplainCore, PressesApart
    <3> QED BY <1>7, <2>1, <3>1, <3>2
  <2>2. ASSUME NEW i \in DOMAIN new, NEW j \in DOMAIN new, i # j PROVE new[i].id # new[j].id
    <3>1. \A k \in DOMAIN tabs : tabs[k].id # m.id BY DEF ExplainOK, ExplainCore, PressesApart
    <3>2. \A k, l \in DOMAIN tabs : k # l => tabs[k].id # tabs[l].id BY DEF ExplainOK, ExplainCore, PressesApart
    <3>3. CASE i \in DOMAIN tabs /\ new[i] = tabs[i] /\ j \in DOMAIN tabs /\ new[j] = tabs[j] BY <2>2, <3>2, <3>3
    <3>4. CASE i \in DOMAIN tabs /\ new[i] = tabs[i] /\ new[j] = t BY <1>3, <3>1, <3>4
    <3>5. CASE new[i] = t /\ j \in DOMAIN tabs /\ new[j] = tabs[j] BY <1>3, <3>1, <3>5
    <3>6. ~(i = Len(tabs) + 1 /\ j = Len(tabs) + 1) BY <2>2
    <3> QED BY <1>7, <3>3, <3>4, <3>5, <3>6
  <2>3. er'.tabs = new /\ er'.posted = er.posted \ {m} BY <1>5 DEF new
  <2> QED BY <1>5, <2>1, <2>2, <2>3 DEF ExplainOK, ExplainCore, PressesApart
<1>12. Unexecuted(er') BY <1>5 DEF ExplainOK, Unexecuted
<1> QED BY <1>5, <1>8, <1>9, <1>10, <1>11, <1>12 DEF ExplainOK, ExplainCore

\* A command of the user's between two steps of the launch: an end of the transaction excuses it.
LEMMA CommandKeeps ==
    ASSUME ExplainOK(er), NEW e, ExplainMoves(er, e, ServerFields), TransactionFits(e), e.alive = er.alive, userCommand(e)
    PROVE  ExplainOK(er')
<1> DEFINE o == er.op
           x == o.excused \/ (er.op # NoOp /\ er.tx # 0 /\ e.tx = 0)
           q == [o EXCEPT !.excused = x]
<1>1. e.op = o /\ DOMAIN e = ExplainParts BY DEF ExplainMoves, ExplainParts, ServerFields
<1>2. DOMAIN o = LaunchParts /\ DOMAIN er = ExplainParts BY DEF ExplainOK, ExplainCore, LaunchFits
<1>3. er' = [e EXCEPT !.cmds = @ + 1, !.op = q] BY <1>1, <1>2 DEF userCommand
<1>4. /\ DOMAIN q = LaunchParts /\ q.id = o.id /\ q.stmt = o.stmt /\ q.analyze = o.analyze /\ q.step = o.step
      /\ q.wrap = o.wrap /\ q.excused = x
  BY <1>2 DEF LaunchParts
<1>5. o = NoOp => q = NoOp BY NoLaunch DEF NoOp
<1>6. o # NoOp => q # NoOp BY <1>4, NoLaunch DEF ExplainOK, ExplainCore, LaunchFits
<1> HIDE DEF q
<1>7. /\ DOMAIN er' = ExplainParts /\ er'.op = q /\ er'.alive = e.alive
      /\ er'.st = e.st /\ er'.priv = e.priv /\ er'.tx = e.tx /\ er'.active = e.active /\ er'.users = e.users
      /\ er'.last = e.last /\ er'.dead = e.dead
      /\ er'.pending = er.pending /\ er'.posted = er.posted /\ er'.tabs = er.tabs
      /\ er'.executed = er.executed /\ er'.outside = er.outside /\ er'.presses = er.presses /\ er'.ro = er.ro
  BY <1>1, <1>3 DEF ExplainMoves, ExplainParts, ServerFields
<1>8. TransactionFits(er') BY <1>1, <1>4, <1>7 DEF TransactionFits
<1>9. LaunchFits(er')
  <2>1. q.step = "explain" /\ q.analyze /\ ~q.excused /\ er'.alive => e.tx # 0
    <3>1. q.step = "explain" => o # NoOp BY <1>4, NoLaunch
    <3>2. o.step = "explain" /\ o.analyze /\ ~o.excused /\ er.alive => er.tx # 0
      BY DEF ExplainOK, ExplainCore, LaunchFits
    <3> QED BY <1>4, <1>7, <3>1, <3>2
  <2> QED BY <1>4, <1>5, <1>7, <2>1, NoLaunch DEF ExplainOK, ExplainCore, LaunchFits, GateFits
<1> HIDE DEF x
<1>10. PressesFit(er') BY <1>4, <1>5, <1>6, <1>7 DEF ExplainOK, ExplainCore, PressesFit
<1>11. PressesApart(er') BY <1>4, <1>5, <1>6, <1>7 DEF ExplainOK, ExplainCore, PressesApart
<1>12. Unexecuted(er') BY <1>4, <1>7 DEF ExplainOK, Unexecuted
<1> QED BY <1>7, <1>8, <1>9, <1>10, <1>11, <1>12 DEF ExplainOK, ExplainCore

LEMMA BeginCommandKeeps == ASSUME ExplainOK(er), handleBegin PROVE ExplainOK(er')
<1>1. DOMAIN er = ExplainParts /\ TransactionFits(er) BY DEF ExplainOK, ExplainCore
<1>2. CASE userCommand([er EXCEPT !.byte = er.st])
  <2> DEFINE e == [er EXCEPT !.byte = er.st]
  <2>1. ExplainMoves(er, e, {"byte"}) BY <1>1 DEF ExplainMoves, ExplainParts
  <2>2. userCommand(e) BY <1>2
  <2> HIDE DEF e
  <2>3. e.alive = er.alive /\ e.op = er.op BY <2>1 DEF ExplainMoves, ExplainParts
  <2>4. ExplainMoves(er, e, ServerFields) /\ ExplainMoves(er, e, PressFields \cup {"byte", "lost", "announced", "cmds"})
    BY <2>1 DEF ExplainMoves, ServerFields, PressFields
  <2>5. TransactionFits(e) BY <1>1, <2>3, <2>4, TransactionKept
  <2> QED BY <2>2, <2>3, <2>4, <2>5, CommandKeeps
<1>3. CASE ~refused(er) /\ er.alive /\ userCommand([begun(er) EXCEPT !.users = er.last + 1])
  <2> DEFINE e == [begun(er) EXCEPT !.users = er.last + 1]
  <2>1. ExplainMoves(er, e, {"st", "byte", "last", "tx", "active", "dead", "users"}) /\ e.st = "T" /\ e.last = er.last + 1
        /\ e.tx = er.last + 1 /\ e.active = er.last + 1 /\ e.dead = FALSE /\ e.users = er.last + 1
    BY <1>1 DEF ExplainMoves, begun, ExplainParts
  <2>2. userCommand(e) BY <1>3
  <2> HIDE DEF e
  <2>3. e.alive = er.alive /\ e.op = er.op /\ e.priv = er.priv BY <2>1 DEF ExplainMoves, ExplainParts
  <2>4. ExplainMoves(er, e, ServerFields) BY <2>1 DEF ExplainMoves, ServerFields
  <2>5. er.st = "I" BY <1>3 DEF refused
  <2>6. TransactionFits(e) BY <1>1, <1>3, <2>1, <2>3, <2>5 DEF TransactionFits
  <2> QED BY <2>2, <2>3, <2>4, <2>6, CommandKeeps
<1> QED BY <1>2, <1>3 DEF handleBegin

\* The user ends the transaction: it is the user's or the launch's, and none is left.
LEMMA EndCommandKeeps ==
    ASSUME ExplainOK(er), NEW e, ExplainMoves(er, e, {"st", "tx", "priv", "byte", "active", "dead", "users"}),
           userCommand(e), e.st = "I", e.tx = 0, e.priv = 0, e.active \in {0, er.active}, e.users = 0
    PROVE  ExplainOK(er')
<1>1. e.alive = er.alive /\ e.op = er.op /\ e.last = er.last BY DEF ExplainMoves, ExplainParts
<1>2. ExplainMoves(er, e, ServerFields) BY DEF ExplainMoves, ServerFields
<1>3. TransactionFits(e) BY <1>1 DEF ExplainOK, ExplainCore, TransactionFits
<1> QED BY <1>1, <1>2, <1>3, CommandKeeps

\* A command that changes nothing.
LEMMA IdleCommandKeeps == ASSUME ExplainOK(er), userCommand(er) PROVE ExplainOK(er')
<1>1. ExplainMoves(er, er, ServerFields) /\ TransactionFits(er) BY DEF ExplainMoves, ExplainOK, ExplainCore
<1> QED BY <1>1, CommandKeeps

LEMMA CommitCommandKeeps == ASSUME ExplainOK(er), handleCommit \/ handleRollback PROVE ExplainOK(er')
<1>1. DOMAIN er = ExplainParts /\ TransactionFits(er) BY DEF ExplainOK, ExplainCore
<1>2. CASE userCommand([settled(er) EXCEPT !.users = 0])
  <2> DEFINE e == [settled(er) EXCEPT !.users = 0]
  <2>1. /\ ExplainMoves(er, e, {"st", "tx", "priv", "byte", "active", "dead", "users"})
        /\ e.st = "I" /\ e.tx = 0 /\ e.priv = 0 /\ e.active = 0 /\ e.users = 0
    BY <1>1 DEF ExplainMoves, settled, ended, ExplainParts
  <2>2. userCommand(e) BY <1>2
  <2> HIDE DEF e
  <2> QED BY <2>1, <2>2, EndCommandKeeps
<1>3. CASE userCommand([ended(er) EXCEPT !.dead = TRUE, !.users = 0])
  <2> DEFINE e == [ended(er) EXCEPT !.dead = TRUE, !.users = 0]
  <2>1. /\ ExplainMoves(er, e, {"st", "tx", "priv", "byte", "active", "dead", "users"})
        /\ e.st = "I" /\ e.tx = 0 /\ e.priv = 0 /\ e.active = er.active /\ e.users = 0
    BY <1>1 DEF ExplainMoves, ended, ExplainParts
  <2>2. userCommand(e) BY <1>3
  <2> HIDE DEF e
  <2> QED BY <2>1, <2>2, EndCommandKeeps
<1>4. CASE handleRollback
  <2> DEFINE u == IF er.dead THEN er.users ELSE 0
             e == [rolledBack(er, er.active) EXCEPT !.users = u]
  <2>1. userCommand(e) /\ er.alive
    <3>1. userCommand([rolledBack(er, er.active) EXCEPT !.users = IF er.dead THEN @ ELSE 0]) /\ er.alive
      BY <1>4 DEF handleRollback
    <3>2. rolledBack(er, er.active).users = er.users /\ DOMAIN rolledBack(er, er.active) = ExplainParts
      BY <1>1 DEF rolledBack, settled, ended, ExplainParts
    <3> QED BY <3>1, <3>2
  <2>2. CASE er.dead
    <3>1. ExplainMoves(er, e, {}) /\ e.op = er.op /\ e.alive = er.alive
      BY <1>1, <2>2 DEF rolledBack, ExplainMoves, ExplainParts
    <3> HIDE DEF e
    <3>2. ExplainMoves(er, e, ServerFields) /\ ExplainMoves(er, e, PressFields \cup {"byte", "lost", "announced", "cmds"})
      BY <3>1 DEF ExplainMoves
    <3>3. TransactionFits(e) BY <1>1, <3>1, <3>2, TransactionKept
    <3> QED BY <2>1, <3>1, <3>2, <3>3, CommandKeeps
  <2>3. CASE ~er.dead
    <3>1. e = [settled(er) EXCEPT !.users = 0] BY <2>1, <2>3 DEF rolledBack
    <3> QED BY <1>2, <2>1, <3>1
  <2> QED BY <2>2, <2>3
<1> QED BY <1>2, <1>3, <1>4, IdleCommandKeeps DEF handleCommit

LEMMA FailureKeeps == ASSUME ExplainOK(er), statementFails PROVE ExplainOK(er')
<1> DEFINE e == [er EXCEPT !.st = "E", !.byte = "E"]
<1>1. userCommand(e) /\ er.st = "T" BY DEF statementFails
<1>2. DOMAIN er = ExplainParts /\ TransactionFits(er) BY DEF ExplainOK, ExplainCore
<1>3. ExplainMoves(er, e, {"st", "byte"}) /\ e.st = "E" BY <1>2 DEF ExplainMoves, ExplainParts
<1> HIDE DEF e
<1>4. /\ e.alive = er.alive /\ e.op = er.op /\ e.priv = er.priv /\ e.tx = er.tx /\ e.active = er.active
      /\ e.users = er.users /\ e.last = er.last /\ e.dead = er.dead
  BY <1>3 DEF ExplainMoves, ExplainParts
<1>5. TransactionFits(e) BY <1>1, <1>2, <1>3, <1>4 DEF TransactionFits
<1>6. ExplainMoves(er, e, ServerFields) BY <1>3 DEF ExplainMoves, ServerFields
<1> QED BY <1>1, <1>4, <1>5, <1>6, CommandKeeps

LEMMA ExplainStep == ASSUME ExplainOK(er), ErNext PROVE ExplainOK(er')
  BY PressKeeps, LaunchBegins, BeginKeeps, RunExplainKeeps, RollbackExplainKeeps, AnswerShown,
     BeginCommandKeeps, CommitCommandKeeps, FailureKeeps DEF ErNext

\* However the user's transaction commands, a lost connection and the server's refusals fall between the
\* steps of a launch, EXPLAIN keeps what it promises (ExplainAsync, query_runner.go, and Explain,
\* pkg/drivers/pg/session.go): a press executes its statement at most once and has at most one tab, a
\* writing statement is executed on a read-only profile only, no ANALYZE leaves its effects outside a
\* transaction, the user's transaction is ended by the user, and no savepoint of the driver's is left.
THEOREM ExplainTheorem == ErSpec => []ExplainTruth
<1>1. ErInit => ExplainOK(er) BY ExplainInit
<1>2. ExplainOK(er) /\ [ErNext]_er => ExplainOK(er)' BY ExplainStep
<1>3. ExplainOK(er) => ExplainTruth BY ExplainTrue
<1> QED BY <1>1, <1>2, <1>3, PTL DEF ErSpec
=============================================================================
