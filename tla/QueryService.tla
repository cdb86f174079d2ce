---------------------------- MODULE QueryService ----------------------------
(***************************************************************************)
(* What pkg/session promises its callers: a query service that runs one     *)
(* call at a time and writes at most one history record for each.           *)
(*                                                                          *)
(* SQLSession implements it with a mutex, a driver-side guard and a run     *)
(* handle whose finish is spread over several steps of several goroutines.  *)
(***************************************************************************)
CONSTANT Calls

VARIABLES phase,     \* per call: where the caller sees it
          recorded   \* calls the history holds

Phases == {"idle", "refused", "queued", "running", "settled", "crashed"}

ServiceInit ==
    /\ phase = [c \in Calls |-> "idle"]
    /\ recorded = {}

Become(c, from, to) == phase[c] = from /\ phase' = [phase EXCEPT ![c] = to]

\* A dead or fenced session refuses the call, any other queues it.
Submit(c) ==
    /\ Become(c, "idle", "queued") \/ Become(c, "idle", "refused")
    /\ UNCHANGED recorded

\* The call gets the session to itself.
Start(c) ==
    /\ \A d \in Calls : phase[d] # "running"
    /\ Become(c, "queued", "running")
    /\ UNCHANGED recorded

\* A call that ran is written to the history once, before or after it settles.
Record(c) ==
    /\ phase[c] \in {"running", "settled"}
    /\ c \notin recorded
    /\ recorded' = recorded \cup {c}
    /\ UNCHANGED phase

\* The session is free for the next call; a synchronous call records in the
\* same step.
Settle(c) ==
    /\ Become(c, "running", "settled")
    /\ \/ UNCHANGED recorded
       \/ c \notin recorded /\ recorded' = recorded \cup {c}

\* The driver panicked on entry.
Crash(c) ==
    /\ Become(c, "running", "crashed")
    /\ UNCHANGED recorded

ServiceNext ==
    \E c \in Calls : Submit(c) \/ Start(c) \/ Record(c) \/ Settle(c) \/ Crash(c)

ServiceSpec == ServiceInit /\ [][ServiceNext]_<<phase, recorded>>
=============================================================================
