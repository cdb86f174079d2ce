---------------------------- MODULE NoticeFanout ----------------------------
(***************************************************************************)
(* The notice plumbing of one SQL session.                                  *)
(*                                                                          *)
(* A server NOTICE travels through three goroutines: the connection's read  *)
(* loop (NoticeRouter.route, pkg/drivers/pg/notice.go) puts it on the       *)
(* session-wide channel noticeCh; the fan-out goroutine                     *)
(* (SQLSession.fanOutNotices, pkg/session/sql_session.go) takes it off and  *)
(* hands it to whichever run is active at that moment                       *)
(* (RunHandle.routeNotice, pkg/session/run_handle.go); and a finishing run  *)
(* uses an unbuffered barrier (flushNotices) to make the fan-out drain the  *)
(* channel into it before its own notice channel closes.                    *)
(*                                                                          *)
(* The module holds the state and the steps of that plumbing; SQLSession    *)
(* composes them with the run that publishes, finishes and closes.          *)
(***************************************************************************)
EXTENDS Integers, Sequences, FiniteSets

CONSTANTS Calls,      \* identities of the calls made on one session
          None,       \* the nil pointer
          ChanCap,    \* sqlSessionNoticeBuffer: capacity of noticeCh
          NoticeCap,  \* runNoticeBuffer: capacity of a run's notice channel
          MaxNotices, \* bound: notices the server raises for one call
          MaxRaised   \* bound: notices the server raises in all

\* A notice is identified by the statement that raised it and its position.
Notice == [of : Calls, seq : 1..MaxNotices]

ASSUME NoticeAssumption ==
    /\ None \notin Calls \cup Notice
    /\ ChanCap \in Nat \ {0}
    /\ NoticeCap \in Nat \ {0}
    /\ MaxNotices \in Nat
    /\ MaxRaised \in Nat

VARIABLES
    runActive,     \* SQLSession.runActive: the published RunHandle or None
    noticeCh,      \* contents of SQLSession.noticeCh
    chClosed,      \* noticeCh has been closed by SQLSession.Close
    subscribed,    \* the router still maps this session to noticeCh
    sending,       \* calls whose read loop is between route's lookup and send
    sendPanic,     \* a send hit the closed noticeCh
    emitted,       \* per call: notices the server raised
    lost,          \* notices the router dropped: noticeCh full or unsubscribed
    fan,           \* where the fan-out goroutine stands
    hand,          \* the notice the fan-out goroutine holds, or None
    target,        \* the run it is routing to or draining into
    barrier,       \* per call: progress of its flush barrier
    notices,       \* per run: buffered contents of RunHandle.notices
    dropped,       \* per run: RunHandle.droppedNotices
    noticeClosed,  \* runs whose notice channel is closed
    drained        \* per run: what the reader of Notices() has received

noticeVars == <<noticeCh, chClosed, subscribed, sending, sendPanic, emitted,
                lost, fan, hand, target, barrier, notices, dropped,
                noticeClosed, drained>>

FanStates == {"select", "received", "routing", "draining", "evicting", "resending", "exited"}
BarrierStates == {"none", "requested", "taken", "acked"}

NoticeTypeOK ==
    /\ runActive \in Calls \cup {None}
    /\ noticeCh \in Seq(Notice)
    /\ chClosed \in BOOLEAN
    /\ subscribed \in BOOLEAN
    /\ sending \in SUBSET Calls
    /\ sendPanic \in BOOLEAN
    /\ emitted \in [Calls -> 0..MaxNotices]
    /\ lost \in SUBSET Notice
    /\ fan \in FanStates
    /\ hand \in Notice \cup {None}
    /\ target \in Calls \cup {None}
    /\ barrier \in [Calls -> BarrierStates]
    /\ notices \in [Calls -> Seq(Notice)]
    /\ dropped \in [Calls -> Nat]
    /\ noticeClosed \in SUBSET Calls
    /\ drained \in [Calls -> Seq(Notice)]

NoticeInit ==
    /\ runActive = None
    /\ noticeCh = <<>>
    /\ chClosed = FALSE
    /\ subscribed = TRUE
    /\ sending = {}
    /\ sendPanic = FALSE
    /\ emitted = [c \in Calls |-> 0]
    /\ lost = {}
    /\ fan = "select"
    /\ hand = None
    /\ target = None
    /\ barrier = [c \in Calls |-> "none"]
    /\ notices = [c \in Calls |-> <<>>]
    /\ dropped = [c \in Calls |-> 0]
    /\ noticeClosed = {}
    /\ drained = [c \in Calls |-> <<>>]

-----------------------------------------
(* The connection's read loop: NoticeRouter.route. *)

CurrentNotice(c) == [of |-> c, seq |-> emitted[c]]

Raised == {n \in Notice : n.seq <= emitted[n.of]}

\* The server raises a notice for call c; route looks the subscriber up under
\* the read lock. The send comes after the lock is dropped (RouteSend).
RouteLookup(c) ==
    /\ c \notin sending
    /\ ~sendPanic
    /\ emitted[c] < MaxNotices
    /\ Cardinality(Raised) < MaxRaised
    /\ emitted' = [emitted EXCEPT ![c] = @ + 1]
    /\ IF subscribed
         THEN sending' = sending \cup {c} /\ UNCHANGED lost
         ELSE lost' = lost \cup {CurrentNotice(c)'} /\ UNCHANGED sending
    /\ UNCHANGED <<runActive, noticeCh, chClosed, subscribed, sendPanic, fan,
                   hand, target, barrier, notices, dropped, noticeClosed, drained>>

\* Mutant: a delivered notice is sent again.
RouteSendRetry(c) ==
    /\ c \in sending
    /\ ~chClosed
    /\ Len(noticeCh) < ChanCap
    /\ noticeCh' = Append(noticeCh, CurrentNotice(c))
    /\ sending' \in {sending, sending \ {c}}
    /\ UNCHANGED <<runActive, chClosed, subscribed, sendPanic, emitted, lost,
                   fan, hand, target, barrier, notices, dropped, noticeClosed,
                   drained>>

\* The non-blocking send: a full channel drops the notice and counts it, a
\* closed channel panics.
RouteSend(c) ==
    /\ c \in sending
    /\ sending' = sending \ {c}
    /\ \/ /\ chClosed
          /\ sendPanic' = TRUE
          /\ UNCHANGED <<noticeCh, lost>>
       \/ /\ ~chClosed
          /\ Len(noticeCh) < ChanCap
          /\ noticeCh' = Append(noticeCh, CurrentNotice(c))
          /\ UNCHANGED <<sendPanic, lost>>
       \/ /\ ~chClosed
          /\ Len(noticeCh) >= ChanCap
          /\ lost' = lost \cup {CurrentNotice(c)}
          /\ UNCHANGED <<sendPanic, noticeCh>>
    /\ UNCHANGED <<runActive, chClosed, subscribed, emitted, fan, hand, target,
                   barrier, notices, dropped, noticeClosed, drained>>

-----------------------------------------
(* The fan-out goroutine. *)

\* RunHandle.routeNotice's first select, under noticeMu: a notice for a
\* terminated run is counted and dropped, a full buffer makes room first.
Fits(r) == r \notin noticeClosed /\ Len(notices[r]) < NoticeCap
MustEvict(r) == r \notin noticeClosed /\ ~Fits(r)

TryNotice(r, n) ==
    /\ notices' = IF Fits(r) THEN [notices EXCEPT ![r] = Append(@, n)] ELSE notices
    /\ dropped' = IF r \in noticeClosed THEN [dropped EXCEPT ![r] = @ + 1] ELSE dropped

\* routeNotice is between two of its selects and holds the run's noticeMu.
HoldsNoticeMu == fan \in {"evicting", "resending"}

\* The select takes a notice off noticeCh.
FanReceive ==
    /\ fan = "select"
    /\ noticeCh # <<>>
    /\ hand' = Head(noticeCh)
    /\ noticeCh' = Tail(noticeCh)
    /\ fan' = "received"
    /\ UNCHANGED <<runActive, chClosed, subscribed, sending, sendPanic,
                   emitted, lost, target, barrier, notices, dropped,
                   noticeClosed, drained>>

\* runActive is read after the receive: whichever run is active now gets the
\* notice, and between runs it is dropped on the floor.
FanLoad ==
    /\ fan = "received"
    /\ target' = runActive
    /\ IF runActive = None
         THEN fan' = "select" /\ hand' = None
         ELSE fan' = "routing" /\ UNCHANGED hand
    /\ UNCHANGED <<runActive, noticeCh, chClosed, subscribed, sending,
                   sendPanic, emitted, lost, barrier, notices, dropped,
                   noticeClosed, drained>>

FanRoute ==
    /\ fan = "routing"
    /\ TryNotice(target, hand)
    /\ IF MustEvict(target)
         THEN fan' = "evicting" /\ UNCHANGED <<hand, target>>
         ELSE fan' = "select" /\ hand' = None /\ target' = None
    /\ UNCHANGED <<runActive, noticeCh, chClosed, subscribed, sending,
                   sendPanic, emitted, lost, barrier, noticeClosed, drained>>

\* The second select takes the oldest notice out, unless the reader has just
\* emptied the buffer.
FanEvict ==
    /\ fan = "evicting"
    /\ notices' = IF notices[target] = <<>> THEN notices
                  ELSE [notices EXCEPT ![target] = Tail(@)]
    /\ fan' = "resending"
    /\ UNCHANGED <<runActive, noticeCh, chClosed, subscribed, sending, sendPanic,
                   emitted, lost, hand, target, barrier, dropped, noticeClosed,
                   drained>>

\* The third select sends into the room made. Then the goroutine goes on with
\* what it was doing: a drain, or its own select.
FanResend ==
    /\ fan = "resending"
    /\ notices' = IF Fits(target) THEN [notices EXCEPT ![target] = Append(@, hand)] ELSE notices
    /\ dropped' = [dropped EXCEPT ![target] = @ + 1]
    /\ hand' = None
    /\ IF barrier[target] = "taken"
         THEN fan' = "draining" /\ UNCHANGED target
         ELSE fan' = "select" /\ target' = None
    /\ UNCHANGED <<runActive, noticeCh, chClosed, subscribed, sending, sendPanic,
                   emitted, lost, barrier, noticeClosed, drained>>

\* The select takes a finishing run's flushReq.
FanTakeFlush(c) ==
    /\ fan = "select"
    /\ barrier[c] = "requested"
    /\ barrier' = [barrier EXCEPT ![c] = "taken"]
    /\ fan' = "draining"
    /\ target' = c
    /\ UNCHANGED <<runActive, noticeCh, chClosed, subscribed, sending,
                   sendPanic, emitted, lost, hand, notices, dropped,
                   noticeClosed, drained>>

\* drainNoticesInto: one buffered notice to the finishing run.
FanDrainOne ==
    /\ fan = "draining"
    /\ noticeCh # <<>>
    /\ TryNotice(target, Head(noticeCh))
    /\ noticeCh' = Tail(noticeCh)
    /\ IF MustEvict(target)
         THEN fan' = "evicting" /\ hand' = Head(noticeCh)
         ELSE UNCHANGED <<fan, hand>>
    /\ UNCHANGED <<runActive, chClosed, subscribed, sending, sendPanic,
                   emitted, lost, target, barrier, noticeClosed, drained>>

\* Mutant: the barrier is acked before the channel is drained.
FanDrainDoneEarly ==
    /\ fan = "draining"
    /\ barrier' = [barrier EXCEPT ![target] = "acked"]
    /\ fan' = "select"
    /\ target' = None
    /\ UNCHANGED <<runActive, noticeCh, chClosed, subscribed, sending,
                   sendPanic, emitted, lost, hand, notices, dropped,
                   noticeClosed, drained>>

\* The channel is empty: ack the barrier; a closed channel ends the goroutine.
FanDrainDone ==
    /\ fan = "draining"
    /\ noticeCh = <<>>
    /\ barrier' = [barrier EXCEPT ![target] = "acked"]
    /\ fan' = IF chClosed THEN "exited" ELSE "select"
    /\ target' = None
    /\ UNCHANGED <<runActive, noticeCh, chClosed, subscribed, sending,
                   sendPanic, emitted, lost, hand, notices, dropped,
                   noticeClosed, drained>>

\* Mutant: the receive's ok flag is ignored and the loop goes round.
FanExitNever ==
    /\ fan = "select" /\ chClosed /\ noticeCh = <<>>
    /\ UNCHANGED <<runActive, noticeVars>>

\* The select sees the closed, empty channel.
FanExit ==
    /\ fan = "select"
    /\ chClosed
    /\ noticeCh = <<>>
    /\ fan' = "exited"
    /\ UNCHANGED <<runActive, noticeCh, chClosed, subscribed, sending,
                   sendPanic, emitted, lost, hand, target, barrier, notices,
                   dropped, noticeClosed, drained>>

-----------------------------------------
(* The reader of RunHandle.Notices: the drain worker of NoticeHelper. *)

ReadNotice(c) ==
    /\ notices[c] # <<>>
    /\ drained' = [drained EXCEPT ![c] = Append(@, Head(notices[c]))]
    /\ notices' = [notices EXCEPT ![c] = Tail(@)]
    /\ UNCHANGED <<runActive, noticeCh, chClosed, subscribed, sending,
                   sendPanic, emitted, lost, fan, hand, target, barrier,
                   dropped, noticeClosed>>

FanStep ==
    \/ FanReceive
    \/ FanLoad
    \/ FanRoute \/ FanEvict \/ FanResend
    \/ \E c \in Calls : FanTakeFlush(c)
    \/ FanDrainOne
    \/ FanDrainDone
    \/ FanExit
=============================================================================
