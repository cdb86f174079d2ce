---------------------------- MODULE MachineClient ----------------------------
(***************************************************************************)
(* The connection of one command-line call: dialling, through an SSH tunnel *)
(* when the profile has one and over several candidate endpoints, the       *)
(* read-only transaction of a query, a native script, a temporary script in *)
(* one atomic transaction, and what is reported when the connection is cut  *)
(* between any two messages (pkg/drivers/pg/machine.go, machine_query.go,   *)
(* machine_execute.go, machine_atomic.go).                                  *)
(*                                                                          *)
(* The caller's context may end at any time: its watcher aborts the         *)
(* transport, so a message that was sent may or may not have been processed *)
(* and its answer is lost. The server is external.                          *)
(***************************************************************************)
EXTENDS Integers, FiniteSets

CONSTANTS
    MxCands,   \* endpoints to try, 1..n
    MxTunnel,  \* the profile has an SSH tunnel
    MxOps      \* bound: operations of one client

ASSUME MachineAssumption == MxCands \subseteq Nat \ {0} /\ MxTunnel \in BOOLEAN /\ MxOps \in Nat

VARIABLES
    mxPc,       \* where the caller is
    mxCtx,      \* the caller's context has ended
    mxAborted,  \* c.aborted
    mxTun,      \* open SSH transports
    mxTunNow,   \* c.tunnel and c.restartTunnel
    mxSock,     \* per candidate: "none", "open", "closed"
    mxRaw,      \* c.raw: the candidate it belongs to, or 0
    mxSrv,      \* the server's session: "I", "T" or "E"
    mxCommitted, \* the server has committed the transaction of an atomic script
    mxOp,       \* the operation under way
    mxRep,      \* what it has to report: outcome, execution, and of its COMMIT
    mxDone      \* operations made

machineVars == <<mxPc, mxCtx, mxAborted, mxTun, mxTunNow, mxSock, mxRaw, mxSrv, mxCommitted,
                 mxOp, mxRep, mxDone>>

NoTun == [id |-> 0, restart |-> FALSE]
NoReport == [outcome |-> "none", exec |-> "not_started", attempted |-> FALSE, definitive |-> FALSE]

MachineInit ==
    /\ mxPc = "tunnel" /\ mxCtx = FALSE /\ mxAborted = FALSE
    /\ mxTun = {} /\ mxTunNow = NoTun
    /\ mxSock = [c \in MxCands |-> "none"] /\ mxRaw = 0
    /\ mxSrv = "I" /\ mxCommitted = FALSE
    /\ mxOp = "none" /\ mxRep = NoReport /\ mxDone = 0

mxIsClosed == mxRaw # 0 => mxSock[mxRaw] # "open"

-----------------------------------------
(* Abort. *)

\* What Abort leaves open: the tunnel and the socket it finds are closed.
mxTunAfterAbort == mxTun \ {mxTunNow.id}
mxSockAfterAbort == IF mxRaw = 0 THEN mxSock ELSE [mxSock EXCEPT ![mxRaw] = "closed"]

\* Abort, as part of the caller's own step.
mxAbort ==
    /\ mxAborted' = TRUE /\ mxTun' = mxTunAfterAbort /\ mxSock' = mxSockAfterAbort

\* The caller's context ends: interrupted, or out of time.
mxCancel ==
    /\ ~mxCtx /\ mxPc \notin {"closed", "failed"}
    /\ mxCtx' = TRUE
    /\ UNCHANGED <<mxPc, mxAborted, mxTun, mxTunNow, mxSock, mxRaw, mxSrv, mxCommitted, mxOp, mxRep,
                   mxDone>>

\* watchMachine: the watcher of the context aborts, until Close has joined it; while
\* the client connects, so does that of the connect timeout.
Connecting == {"tunnel", "dial", "restarting", "dialing", "startup", "init"}
mxWatch ==
    /\ ~mxAborted /\ mxPc \notin {"closed", "failed"}
    /\ mxCtx \/ mxPc \in Connecting
    /\ mxAbort
    /\ UNCHANGED <<mxPc, mxCtx, mxTunNow, mxRaw, mxSrv, mxCommitted, mxOp, mxRep, mxDone>>

\* The server notices that its client is gone.
mxServerDrops ==
    /\ mxIsClosed /\ mxSrv # "I"
    /\ mxSrv' = "I"
    /\ UNCHANGED <<mxPc, mxCtx, mxAborted, mxTun, mxTunNow, mxSock, mxRaw, mxCommitted, mxOp,
                   mxRep, mxDone>>

-----------------------------------------
(* connectMachine. *)

mxFreshTun == CHOOSE i \in 1..(Cardinality(MxCands) + 2) : i \notin mxTun /\ i # mxTunNow.id

\* openTunnel; an abort that came while it was opening closes it again.
mxOpenTunnel ==
    /\ mxPc = "tunnel"
    /\ IF ~MxTunnel THEN mxPc' = "dial" /\ UNCHANGED <<mxTun, mxTunNow>>
       ELSE \/ /\ mxTun' = IF mxAborted THEN mxTun ELSE mxTun \cup {mxFreshTun}
               /\ mxTunNow' = [id |-> mxFreshTun, restart |-> FALSE]
               /\ mxPc' = IF mxAborted THEN "giveup" ELSE "dial"
            \/ mxPc' = "giveup" /\ UNCHANGED <<mxTun, mxTunNow>>
    /\ UNCHANGED <<mxCtx, mxAborted, mxSock, mxRaw, mxSrv, mxCommitted, mxOp, mxRep, mxDone>>

mxUntried == {c \in MxCands : mxSock[c] = "none"}

\* DialFunc for the next candidate, unless the client was aborted: a tunnel that the
\* last attempt broke is closed, to be replaced first.
mxDialStart(c) ==
    /\ mxPc = "dial" /\ ~mxAborted /\ c \in mxUntried
    /\ mxRaw # 0 => mxSock[mxRaw] = "closed"
    /\ mxTun' = IF mxTunNow.restart THEN mxTun \ {mxTunNow.id} ELSE mxTun
    /\ mxSock' = [mxSock EXCEPT ![c] = "dialing"]
    /\ mxPc' = IF mxTunNow.restart THEN "restarting" ELSE "dialing"
    /\ UNCHANGED <<mxCtx, mxAborted, mxTunNow, mxRaw, mxSrv, mxCommitted, mxOp, mxRep, mxDone>>

\* The new tunnel is open: it becomes the client's, or is closed again when an abort
\* came meanwhile. Or it does not open.
mxRestarted(c) ==
    /\ mxPc = "restarting" /\ mxSock[c] = "dialing"
    /\ \/ /\ ~mxAborted
          /\ mxTun' = mxTun \cup {mxFreshTun}
          /\ mxTunNow' = [id |-> mxFreshTun, restart |-> FALSE]
          /\ mxPc' = "dialing" /\ UNCHANGED mxSock
       \/ /\ mxSock' = [mxSock EXCEPT ![c] = "closed"]
          /\ mxPc' = "dial" /\ UNCHANGED <<mxTun, mxTunNow>>
    /\ UNCHANGED <<mxCtx, mxAborted, mxRaw, mxSrv, mxCommitted, mxOp, mxRep, mxDone>>

\* The dial returns: a socket, closed at once if Abort came meanwhile, or an error.
\* One that ran out of its own time, which is at most the caller's, may have aborted
\* the tunnel, and asks for a new one.
mxDialed(c) ==
    /\ mxPc = "dialing" /\ mxSock[c] = "dialing"
    /\ \/ /\ mxSock' = [mxSock EXCEPT ![c] = IF mxAborted THEN "closed" ELSE "open"]
          /\ mxRaw' = IF mxAborted THEN mxRaw ELSE c
          /\ mxPc' = IF mxAborted THEN "dial" ELSE "startup"
          /\ UNCHANGED <<mxTun, mxTunNow>>
       \/ /\ mxSock' = [mxSock EXCEPT ![c] = "closed"]
          /\ mxPc' = "dial"
          /\ \E late \in BOOLEAN :
               /\ mxCtx => late
               /\ mxTun' \in {mxTun, IF late THEN mxTun \ {mxTunNow.id} ELSE mxTun}
               /\ mxTunNow' = [mxTunNow EXCEPT !.restart = @ \/ (late /\ MxTunnel)]
          /\ UNCHANGED mxRaw
    /\ UNCHANGED <<mxCtx, mxAborted, mxSrv, mxCommitted, mxOp, mxRep, mxDone>>

\* Start-up of this candidate succeeds, or fails: pgx closes its socket; when
\* the attempt timed out, abortAttempt breaks the tunnel with it.
mxStartup ==
    /\ mxPc = "startup"
    /\ \/ ~mxIsClosed /\ mxPc' = "init" /\ UNCHANGED <<mxSock, mxTun, mxTunNow>>
       \/ /\ mxPc' = "dial"
          /\ mxSock' = [mxSock EXCEPT ![mxRaw] = "closed"]
          /\ \E timeout \in BOOLEAN :
               /\ mxTun' = IF timeout THEN mxTun \ {mxTunNow.id} ELSE mxTun
               /\ mxTunNow' = [mxTunNow EXCEPT !.restart = @ \/ (timeout /\ MxTunnel)]
    /\ UNCHANGED <<mxCtx, mxAborted, mxRaw, mxSrv, mxCommitted, mxOp, mxRep, mxDone>>

\* No candidate is left, or none may be dialled any more.
mxExhausted ==
    /\ mxPc = "dial" /\ (mxUntried = {} \/ mxAborted)
    /\ mxPc' = "giveup"
    /\ UNCHANGED <<mxCtx, mxAborted, mxTun, mxTunNow, mxSock, mxRaw, mxSrv, mxCommitted, mxOp,
                   mxRep, mxDone>>

\* initialize: the session's SETs.
mxInitialize ==
    /\ mxPc = "init"
    /\ \/ ~mxIsClosed /\ mxPc' = "ready"
       \/ mxPc' = "giveup"
    /\ UNCHANGED <<mxCtx, mxAborted, mxTun, mxTunNow, mxSock, mxRaw, mxSrv, mxCommitted, mxOp,
                   mxRep, mxDone>>

\* The error path, and the deferred Abort.
mxGiveUp ==
    /\ mxPc = "giveup"
    /\ mxAbort
    /\ mxPc' = "failed"
    /\ UNCHANGED <<mxCtx, mxTunNow, mxRaw, mxSrv, mxCommitted, mxOp, mxRep, mxDone>>

-----------------------------------------
(* One exchange with the server. *)

\* Commands that fail with an error leave an open transaction aborted.
Failed(srv) == IF srv = "T" THEN "E" ELSE srv

\* The exchange takes the server to `next`; `good` is the caller's next position after
\* an answer, `bad` after an error, a lost answer, or a message that was not sent
\* because the context had ended.
Exchange(next, good, bad) ==
    /\ \/ ~mxIsClosed /\ mxSrv' = next /\ mxPc' = good /\ UNCHANGED mxSock
       \/ ~mxIsClosed /\ mxSrv' = Failed(mxSrv) /\ mxPc' = bad /\ UNCHANGED mxSock
       \/ ~mxIsClosed /\ mxSrv' \in {next, mxSrv} /\ mxPc' = bad /\ mxSock' = mxSockAfterAbort
       \/ (mxIsClosed \/ mxCtx) /\ mxPc' = bad /\ UNCHANGED <<mxSrv, mxSock>>
    /\ UNCHANGED <<mxAborted, mxTun>>

mxSame == UNCHANGED <<mxCtx, mxTunNow, mxRaw, mxDone>>

\* A read-only query or ping, a native script, or a temporary script.
mxBegin ==
    /\ mxPc = "ready" /\ mxDone < MxOps
    /\ mxDone' = mxDone + 1
    /\ mxCommitted' = FALSE
    /\ \E op \in {"query", "execute", "atomic"} :
         /\ mxOp' = op
         /\ mxRep' = [NoReport EXCEPT !.outcome = IF op = "atomic" THEN "not_started" ELSE "none"]
         /\ IF op = "atomic" /\ ~mxCtx /\ (mxIsClosed \/ mxSrv # "I")
              THEN mxAbort /\ mxPc' = "reported"
              ELSE /\ mxPc' = IF op = "atomic" /\ mxCtx THEN "reported" ELSE "setup"
                   /\ UNCHANGED <<mxAborted, mxTun, mxSock>>
    /\ UNCHANGED <<mxCtx, mxTunNow, mxRaw, mxSrv>>

\* The SETs before the transaction; a query has none. A native script is not sent
\* once the context has ended.
mxSetup ==
    /\ mxPc = "setup"
    /\ IF mxOp = "query" THEN mxPc' = "begin" /\ UNCHANGED <<mxSrv, mxAborted, mxTun, mxSock>>
       ELSE Exchange(mxSrv, IF mxOp = "atomic" THEN "begin" ELSE IF mxCtx THEN "reported" ELSE "script",
                       "reported")
    /\ UNCHANGED <<mxCommitted, mxOp, mxRep>> /\ mxSame

\* BEGIN. An atomic script that sent it must roll back whatever the answer.
mxBeginTx ==
    /\ mxPc = "begin"
    /\ Exchange("T", "local", IF mxOp = "atomic" THEN "cleanup" ELSE "reported")
    /\ mxRep' = IF mxOp = "atomic" THEN [mxRep EXCEPT !.outcome = "disposed"] ELSE mxRep
    /\ UNCHANGED <<mxCommitted, mxOp>> /\ mxSame

\* The SET LOCALs, if any; one that fails leaves nothing executed, and neither does a
\* context that has ended by then.
mxSetLocal ==
    /\ mxPc = "local"
    /\ LET next == IF mxOp = "atomic" /\ mxCtx THEN "cleanup" ELSE "script"
       IN \/ Exchange(mxSrv, next, "cleanup")
          \/ mxPc' = next /\ UNCHANGED <<mxSrv, mxAborted, mxTun, mxSock>>
    /\ UNCHANGED <<mxCommitted, mxOp, mxRep>> /\ mxSame

\* The script of an atomic call, or the query: it stays inside its transaction.
mxScript ==
    /\ mxPc = "script" /\ mxOp # "execute"
    /\ Exchange(mxSrv, IF mxOp = "atomic" THEN "precommit" ELSE "cleanup", "cleanup")
    /\ mxRep' = [mxRep EXCEPT !.exec = IF mxPc' = "precommit" THEN "completed" ELSE "failed"]
    /\ UNCHANGED <<mxCommitted, mxOp>> /\ mxSame

\* A native script: it may leave a transaction open, in which it failed or not. An
\* error of the server's says that it failed; any other, or a message that was not
\* sent because the context had ended, leaves that unknown.
mxExecute ==
    /\ mxPc = "script" /\ mxOp = "execute"
    /\ \/ /\ ~mxIsClosed /\ mxSrv' \in {"I", "T", "E"} /\ UNCHANGED mxSock
          /\ \E exec \in {"completed", "failed"} :
               /\ mxSrv' # "I" => exec = "failed"
               /\ mxRep' = [mxRep EXCEPT !.exec = exec]
       \/ /\ IF mxIsClosed THEN UNCHANGED mxSrv ELSE mxSrv' \in {"I", "T", "E"}
          /\ mxSock' = mxSockAfterAbort /\ mxRep' = [mxRep EXCEPT !.exec = "unknown"]
       \/ /\ mxCtx /\ UNCHANGED <<mxSrv, mxSock>>
          /\ mxRep' = [mxRep EXCEPT !.exec = "unknown"]
    /\ mxPc' = "executed"
    /\ UNCHANGED <<mxCommitted, mxOp, mxAborted, mxTun>> /\ mxSame

\* A transaction the script left open is rolled back, or the connection dropped.
mxExecuteCleanup ==
    /\ mxPc = "executed"
    /\ IF ~mxIsClosed /\ mxSrv # "I"
         THEN \/ mxSrv' = "I" /\ UNCHANGED <<mxAborted, mxTun, mxSock>>
              \/ mxAbort /\ UNCHANGED mxSrv
         ELSE UNCHANGED <<mxSrv, mxAborted, mxTun, mxSock>>
    /\ mxPc' = "reported"
    /\ UNCHANGED <<mxCommitted, mxOp, mxRep>> /\ mxSame

\* The result must be encodable and the caller still there before COMMIT goes out.
mxPrecommit ==
    /\ mxPc = "precommit"
    /\ \E ok \in BOOLEAN : mxPc' = IF ok /\ ~mxCtx THEN "commit" ELSE "cleanup"
    /\ UNCHANGED <<mxAborted, mxTun, mxSock, mxSrv, mxCommitted, mxOp, mxRep>> /\ mxSame

\* COMMIT is answered: it is done; or the server refused it, which ended the
\* transaction, or left it aborted.
CommitAnswered ==
    /\ ~mxIsClosed /\ UNCHANGED mxSock
    /\ \/ /\ mxSrv' = "I" /\ mxCommitted' = TRUE
          /\ mxRep' = [mxRep EXCEPT !.outcome = "committed", !.exec = "completed",
                                    !.attempted = TRUE, !.definitive = TRUE]
       \/ /\ mxSrv' \in {"I", "E"} /\ UNCHANGED mxCommitted
          /\ mxRep' = [mxRep EXCEPT !.outcome = IF mxSrv' = "I" THEN "rolled_back" ELSE "unknown",
                                    !.exec = "failed", !.attempted = TRUE, !.definitive = TRUE]

\* It is not: the connection broke before or after the server did it, or the context
\* had ended and it was not sent, on a connection that stays open.
CommitUnanswered ==
    \/ /\ \/ ~mxIsClosed /\ mxSrv' = "I" /\ mxCommitted' = TRUE
          \/ UNCHANGED <<mxSrv, mxCommitted>>
       /\ mxSock' = mxSockAfterAbort
    \/ ~mxIsClosed /\ mxCtx /\ UNCHANGED <<mxSrv, mxCommitted, mxSock>>

\* Mutant: the attempt is recorded when COMMIT is answered.
mxCommitLate ==
    /\ mxPc = "commit"
    /\ CommitAnswered \/ (CommitUnanswered /\ UNCHANGED mxRep)
    /\ mxPc' = "cleanup"
    /\ UNCHANGED <<mxOp, mxAborted, mxTun>> /\ mxSame

\* COMMIT: until it is answered the outcome is unknown.
mxCommit ==
    /\ mxPc = "commit"
    /\ \/ CommitAnswered
       \/ /\ CommitUnanswered
          /\ mxRep' = [mxRep EXCEPT !.outcome = "unknown", !.exec = "unknown", !.attempted = TRUE]
    /\ mxPc' = "cleanup"
    /\ UNCHANGED <<mxOp, mxAborted, mxTun>> /\ mxSame

\* The deferred ROLLBACK. It settles the outcome only when no COMMIT is
\* unanswered; a ROLLBACK that fails drops the connection. A read-only query
\* always rolls back.
mxCleanup ==
    /\ mxPc = "cleanup"
    /\ LET settled == mxOp = "atomic" /\ mxRep.outcome \in {"committed", "rolled_back"}
           uncertain == mxRep.attempted /\ ~mxRep.definitive
       IN IF settled THEN UNCHANGED <<mxSrv, mxAborted, mxTun, mxSock, mxRep>>
          ELSE \/ /\ ~mxIsClosed /\ mxSrv' = "I"
                  /\ IF uncertain THEN mxAbort /\ UNCHANGED mxRep
                     ELSE /\ UNCHANGED <<mxAborted, mxTun, mxSock>>
                          /\ mxRep' = IF mxOp = "atomic"
                                        THEN [mxRep EXCEPT !.outcome = "rolled_back"] ELSE mxRep
               \/ /\ mxAbort /\ UNCHANGED mxSrv
                  /\ mxRep' = IF mxOp = "atomic" /\ ~mxRep.attempted
                                THEN [mxRep EXCEPT !.outcome = "disposed"] ELSE mxRep
    /\ mxPc' = "reported"
    /\ UNCHANGED <<mxCommitted, mxOp>> /\ mxSame

\* The caller reads the report and goes on.
mxReturn ==
    /\ mxPc = "reported"
    /\ mxPc' = "ready"
    /\ mxOp' = "none" /\ mxRep' = NoReport /\ mxCommitted' = FALSE
    /\ UNCHANGED <<mxSrv, mxAborted, mxTun, mxSock>> /\ mxSame

\* Close: a polite close, Abort in any case, and the watchers joined.
mxClose ==
    /\ mxPc = "ready"
    /\ mxAbort
    /\ mxPc' = "closed"
    /\ UNCHANGED <<mxSrv, mxCommitted, mxOp, mxRep>> /\ mxSame

MachineNext ==
    \/ mxCancel \/ mxWatch \/ mxServerDrops
    \/ mxOpenTunnel \/ mxStartup \/ mxExhausted \/ mxInitialize \/ mxGiveUp
    \/ \E c \in MxCands : mxDialStart(c) \/ mxRestarted(c) \/ mxDialed(c)
    \/ mxBegin \/ mxSetup \/ mxBeginTx \/ mxSetLocal \/ mxScript \/ mxExecute \/ mxExecuteCleanup
    \/ mxPrecommit \/ mxCommit \/ mxCleanup \/ mxReturn \/ mxClose

MachineSpec == MachineInit /\ [][MachineNext]_machineVars

-----------------------------------------
(* Properties. *)

\* What a call reports about its transaction is true whatever was lost: committed
\* says that the server has committed it, any outcome but that and unknown says that
\* it has not and will not, unknown is said only of a COMMIT that was sent, a
\* completed native script left nothing open, and a connection that can still be
\* used is not inside a transaction (ExecuteTemporaryAtomic's deferred ROLLBACK,
\* Execute, withReadOnly).
MachineReportsTruth ==
    mxPc = "reported" =>
        /\ mxOp = "atomic" /\ mxRep.outcome \in {"not_started", "rolled_back", "disposed"}
             => ~mxCommitted /\ mxRep.exec # "unknown"
        /\ mxRep.outcome = "committed" => mxCommitted
        /\ mxRep.outcome = "unknown" => mxRep.attempted
        /\ mxOp = "execute" /\ mxRep.exec = "completed" => mxSrv = "I"
        /\ ~mxIsClosed => mxSrv = "I"

\* A client that failed to open, or was closed, leaves no socket and no tunnel
\* behind, however the abort of its context races with a dial, a replaced tunnel
\* or the next candidate (connectMachine, Abort, abortAttempt, Close).
MachineLeavesNothing ==
    mxPc \in {"failed", "closed"} =>
        mxTun = {} /\ \A c \in MxCands : mxSock[c] \notin {"open", "dialing"}

\* What the machine client reports and what it leaves behind are true together
\* (ExecuteTemporaryAtomic, Execute, OpenMachine, Abort, Close).
MachineTruth == MachineReportsTruth /\ MachineLeavesNothing
=============================================================================
