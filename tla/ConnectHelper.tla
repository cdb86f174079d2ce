--------------------------- MODULE ConnectHelper ---------------------------
(***************************************************************************)
(* The metadata session of a connection: a worker that runs the loads of    *)
(* the schema rails one at a time off a bounded queue, callers that wait    *)
(* for their answer, bindings that pin a load to the session it was asked   *)
(* on, and Disconnect, which closes the queue under the senders             *)
(* (pkg/gui/controllers/helpers/data/connect_helper.go).                    *)
(*                                                                          *)
(* Connect and Disconnect run under the lifecycle's ioMu; they are the      *)
(* operators that ConnectionLifecycle performs as steps of its workers.     *)
(***************************************************************************)
EXTENDS Integers, Sequences, FiniteSets

CONSTANTS
    Conns,     \* the helper states that can be created, positive integers
    Loads,     \* the metadata loads that callers issue
    QueueCap   \* the capacity of a queue (8 in the code)

ASSUME HelperAssumption == Conns \subseteq Nat \ {0} /\ QueueCap \in Nat \ {0}

VARIABLES
    hstate,  \* ConnectHelper.state: the current helper state, or 0
    meta,    \* per helper state: its session, its queue and its worker
    load     \* per load: what its caller is doing

helperVars == <<hstate, meta, load>>

NoConn == 0
Unborn == [sess |-> "none", queue |-> <<>>, open |-> FALSE, worker |-> "none",
           item |-> 0, call |-> NoConn, cache |-> {}]
IdleLoad == [st |-> "idle", pinned |-> FALSE, warm |-> FALSE, on |-> NoConn,
             ctx |-> FALSE, answer |-> "none"]

HelperInit ==
    /\ hstate = NoConn
    /\ meta = [s \in Conns |-> Unborn]
    /\ load = [l \in Loads |-> IdleLoad]

-----------------------------------------
(* Connect and Disconnect. *)

\* Connect with state s: refused by the caller's guard when one is open.
Opened(s) == [meta EXCEPT ![s].sess = "open", ![s].open = TRUE, ![s].worker = "idle"]

\* Disconnect, first half: unpublish the state and close the queue.
Unpublished(s) == [meta EXCEPT ![s].open = FALSE]

\* Second half: the worker has signalled done; close session and connection.
WorkerGone(s) == meta[s].worker = "exited"
Disposed(s) == [meta EXCEPT ![s].sess = "closed"]

-----------------------------------------
(* Callers. *)

\* BindSessionContext, or the context WarmFunctionDetail makes: the load is
\* pinned to the state that is current now. Other loads are not pinned.
Issue(l) ==
    /\ load[l].st = "idle"
    /\ \E pinned \in BOOLEAN, warm \in BOOLEAN :
         /\ warm => pinned /\ hstate # NoConn
         /\ load' = [load EXCEPT ![l] = [IdleLoad EXCEPT !.st = "issued",
                       !.pinned = pinned, !.warm = warm, !.on = IF pinned THEN hstate ELSE NoConn]]
    /\ UNCHANGED <<hstate, meta>>

Answer(l, answer) == [load EXCEPT ![l].st = "answered", ![l].answer = answer]

\* submit: a cancelled context, a replaced session or no session at all is
\* refused; otherwise the state whose queue will be used is captured.
Submit(l) ==
    /\ load[l].st = "issued"
    /\ load' = IF load[l].ctx THEN Answer(l, "canceled")
               ELSE IF load[l].pinned /\ (load[l].on = NoConn \/ load[l].on # hstate)
                 THEN Answer(l, "replaced")
               ELSE IF hstate = NoConn THEN Answer(l, "notconnected")
               ELSE [load EXCEPT ![l].st = "sending", ![l].on = hstate]
    /\ UNCHANGED <<hstate, meta>>

\* safeSend: a place in the queue, or the panic of a closed one, recovered.
Send(l) ==
    /\ load[l].st = "sending"
    /\ LET s == load[l].on
       IN \/ /\ meta[s].open /\ Len(meta[s].queue) < QueueCap
             /\ meta' = [meta EXCEPT ![s].queue = Append(@, l)]
             /\ load' = [load EXCEPT ![l].st = "waiting"]
          \/ ~meta[s].open /\ load' = Answer(l, "replaced") /\ UNCHANGED meta
    /\ UNCHANGED hstate

\* The caller's context is cancelled; a blocked caller returns at once and its
\* item stays where it is.
Abandon(l) ==
    /\ load[l].st \in {"issued", "sending", "waiting"} /\ ~load[l].ctx
    /\ load' = [load EXCEPT ![l].ctx = TRUE,
                            ![l].st = IF @ = "issued" THEN @ ELSE "answered",
                            ![l].answer = IF load[l].st = "issued" THEN @ ELSE "canceled"]
    /\ UNCHANGED <<hstate, meta>>

-----------------------------------------
(* The worker. *)

\* requireState, inside the closure: the session the call is made on.
SessionFor(l) == IF load[l].pinned /\ hstate # load[l].on THEN NoConn ELSE hstate

\* Reply to item l, unless its caller has left.
Reply(l, answer) == IF load[l].st = "waiting" THEN Answer(l, answer) ELSE load

WorkerTake(s) ==
    /\ meta[s].worker = "idle" /\ meta[s].queue # <<>>
    /\ LET l == Head(meta[s].queue)
           x == SessionFor(l)
       IN IF load[l].ctx \/ x = NoConn
            THEN /\ meta' = [meta EXCEPT ![s].queue = Tail(@)]
                 /\ load' = Reply(l, IF load[l].ctx THEN "canceled" ELSE "replaced")
            ELSE /\ meta' = [meta EXCEPT ![s].queue = Tail(@), ![s].worker = "busy",
                                         ![s].item = l, ![s].call = x]
                 /\ UNCHANGED load
    /\ UNCHANGED hstate

\* The driver call returns.
WorkerReturn(s) ==
    /\ meta[s].worker = "busy"
    /\ \E answer \in {"ok", "failed"} : load' = Reply(meta[s].item, answer)
    /\ meta' = [meta EXCEPT ![s].worker = "idle", ![s].item = 0, ![s].call = NoConn]
    /\ UNCHANGED hstate

\* The range over the closed and drained queue ends.
WorkerExit(s) ==
    /\ meta[s].worker = "idle" /\ ~meta[s].open /\ meta[s].queue = <<>>
    /\ meta' = [meta EXCEPT ![s].worker = "exited"]
    /\ UNCHANGED <<hstate, load>>

\* storeFunctionDetail, on the caller's goroutine: a warmed detail is stored
\* only while the state it was fetched on is current.
StoreDetail(l) ==
    /\ load[l].warm /\ load[l].st = "answered" /\ load[l].answer = "ok"
    /\ LET current == load[l].on = hstate
       IN /\ meta' = IF current THEN [meta EXCEPT ![load[l].on].cache = @ \cup {l}] ELSE meta
          /\ load' = [load EXCEPT ![l].st = IF current THEN "ready" ELSE "dropped"]
    /\ UNCHANGED hstate

\* fireOnReady: the callback of a stored detail, on the UI loop.
Deliver(l) ==
    /\ load[l].st = "ready"
    /\ load' = [load EXCEPT ![l].st = IF load[l].on = hstate THEN "delivered" ELSE "dropped"]
    /\ UNCHANGED <<hstate, meta>>

HelperStep ==
    \/ \E l \in Loads : Issue(l) \/ Submit(l) \/ Send(l) \/ Abandon(l)
                        \/ StoreDetail(l) \/ Deliver(l)
    \/ \E s \in Conns : WorkerTake(s) \/ WorkerReturn(s) \/ WorkerExit(s)

-----------------------------------------
(* Properties. *)

\* A load is served by the session it was queued on, never by a closed one and
\* never by the next connection's, and no caller is left waiting for a worker
\* that is gone, however Disconnect cuts in between its state check, its send
\* and its answer (submit, safeSend, runWorker, Disconnect).
LoadsServed ==
    /\ \A s \in Conns : meta[s].worker = "busy" =>
         meta[s].call = s /\ meta[s].sess = "open"
    /\ \A l \in Loads : load[l].st = "waiting" => meta[load[l].on].worker # "exited"
    /\ \A s \in Conns : \A l \in meta[s].cache : load[l].on = s
=============================================================================
