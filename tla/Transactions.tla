---------------------------- MODULE Transactions ----------------------------
(***************************************************************************)
(* Transactions of a query session: the handle that Begin returns, the      *)
(* savepoints it tracks, statements that begin, end and abort transactions  *)
(* behind the handle's back, the quit dialog and the session's Close        *)
(* (pkg/drivers/pg/transaction.go, session.go, pkg/session/sql_session.go,  *)
(* pkg/gui/controllers/tx_controller.go, quit_controller.go).               *)
(*                                                                          *)
(* Begin and statements hold the session's queue. Commit, Rollback and the  *)
(* savepoint calls go to the connection directly, so they interleave with   *)
(* them and with each other: the commands on the UI thread, the launcher,   *)
(* which wraps an EXPLAIN ANALYZE or opens a transaction for a run, and the *)
(* closer of the session each have a position. A step is what one of them   *)
(* does between two reads of state the others write. The server and pgx are *)
(* external: pgx marks a Tx closed by any Commit or Rollback it tried, even *)
(* one that failed, and closes the connection when that leaves it in doubt. *)
(* The sampled status, which Begin samples anew, is the server's.           *)
(***************************************************************************)
EXTENDS Integers, Sequences, FiniteSets

CONSTANTS
    TxHandles,  \* bound: calls of Begin that succeed, 1..n
    TxNames,    \* savepoint names
    TxMaxSp,    \* bound: savepoints on the server at one time
    TxSteps     \* bound: commands and statements

ASSUME TransactionAssumption == TxHandles \subseteq Nat \ {0} /\ TxMaxSp \in Nat

VARIABLES
    txSrv,     \* the server: "I", "T" or "E", and its savepoint stack; "X" once the
               \* connection is closed, "P" once it is back in the pool
    txOwner,   \* the handle whose Begin opened the server's transaction, or 0
    txActive,  \* s.activeTx, or 0
    txHandle,  \* per handle: status, tracked savepoints (a set), pgx's closed flag
    txCall,    \* per caller: the call it is in, its handle and how far it is
    txStmt,    \* the statement that holds the queue, and the handle its end loaded
    txChoice,  \* a savepoint choice on screen: the handle it captured, or 0
    txQuit,    \* "none", "asked", "committing", "rolling", "quit"
    txUsed     \* commands and statements made

txVars == <<txSrv, txOwner, txActive, txHandle, txCall, txStmt, txChoice, txQuit, txUsed>>

NoTx == 0
OffHandle == [status |-> "none", sps |-> {}, dead |-> FALSE]
IdleTx == [st |-> "I", sps |-> <<>>]
Gone == [st |-> "X", sps |-> <<>>]
Callers == {"ui", "launcher", "closer"}
NoCall == [op |-> "none", h |-> NoTx, pc |-> "idle"]
NoStmt == [pc |-> "idle", seen |-> NoTx]

TxInit ==
    /\ txSrv = IdleTx /\ txOwner = NoTx /\ txActive = NoTx
    /\ txHandle = [h \in TxHandles |-> OffHandle]
    /\ txCall = [p \in Callers |-> NoCall] /\ txStmt = NoStmt
    /\ txChoice = NoTx /\ txQuit = "none" /\ txUsed = 0

-----------------------------------------
(* The server and the connection, external. *)

Positions(n) == {i \in DOMAIN txSrv.sps : txSrv.sps[i] = n}
Latest(n) == CHOOSE i \in Positions(n) : \A j \in Positions(n) : j <= i

\* SAVEPOINT, RELEASE and ROLLBACK TO; the last two act on the latest savepoint
\* of the name and drop the later ones. An error aborts the transaction.
SrvSavepoint(n) ==
    IF txSrv.st = "T" THEN [txSrv EXCEPT !.sps = Append(@, n)] ELSE txSrv
SrvRelease(n) ==
    IF txSrv.st = "T" /\ Positions(n) # {}
      THEN [txSrv EXCEPT !.sps = SubSeq(@, 1, Latest(n) - 1)]
      ELSE [txSrv EXCEPT !.st = IF @ = "I" THEN "I" ELSE "E"]
SrvRollbackTo(n) ==
    IF txSrv.st # "I" /\ Positions(n) # {}
      THEN [st |-> "T", sps |-> SubSeq(txSrv.sps, 1, Latest(n))]
      ELSE [txSrv EXCEPT !.st = IF @ = "I" THEN "I" ELSE "E"]

Connected == txSrv.st \in {"I", "T", "E"}
Busy == txStmt.pc = "sent" \/ \E p \in Callers : txCall[p].pc = "sent"

-----------------------------------------
(* Calls. *)

TxStep == txQuit # "quit" /\ txUsed < TxSteps /\ txUsed' = txUsed + 1
At(p, pc) == txCall[p].pc = pc
TxGoto(p, pc) == txCall' = [txCall EXCEPT ![p].pc = pc]
TxCalls(p, op, h) == txCall' = [txCall EXCEPT ![p] = [op |-> op, h |-> h, pc |-> "called"]]

\* A call returns: a failed commit shows the quit dialog again, a failed rollback
\* quits all the same.
Returns(p, ok) ==
    /\ txCall' = [txCall EXCEPT ![p] = IF p = "closer" THEN [NoCall EXCEPT !.pc = "release"] ELSE NoCall]
    /\ txQuit' = IF p # "ui" THEN txQuit
                 ELSE CASE txQuit = "committing" -> (IF ok THEN "quit" ELSE "asked")
                        [] txQuit = "rolling" -> "quit"
                        [] OTHER -> txQuit

Unsettled(h) == txHandle[h].status \in {"active", "aborted"}
Retired == ~At("closer", "idle")

\* CurrentTransaction.
Current == IF txActive # NoTx /\ txHandle[txActive].status = "active" THEN txActive ELSE NoTx

\* The queue: a statement holds it to the end of its run, Begin for its own call.
QueueFree == txStmt.pc = "idle" /\ \A p \in Callers : txCall[p].op # "begin"

\* Who may start a call of its own: no popup is on screen.
Commanding == At("ui", "idle") /\ txChoice = NoTx /\ txQuit = "none" /\ ~Retired

\* Begin, by a command or by the launcher. A call on the wire has a handle that is
\* not settled.
BeginOn(p, h) ==
    /\ TxStep /\ ~Retired
    /\ IF p = "ui" THEN Commanding ELSE At(p, "idle")
    /\ QueueFree /\ ~Busy /\ txHandle[h].status = "none"
    /\ \A g \in TxHandles : g < h => txHandle[g].status # "none"
    /\ txSrv.st = "I"
    /\ txCall' = [txCall EXCEPT ![p] = [op |-> "begin", h |-> h, pc |-> "sent"]]
    /\ UNCHANGED <<txSrv, txOwner, txActive, txHandle, txStmt, txChoice, txQuit>>

\* Mutant: a handle that raw SQL left unsettled may be replaced.
BeginReplaces(p, h) == BeginOn(p, h)

\* Refused while a handle is unsettled or the server has a transaction.
Begin(p, h) == BeginOn(p, h) /\ (txActive # NoTx => ~Unsettled(txActive))

\* BEGIN is answered; pgx closes the connection when it failed.
BeginAnswer(p) ==
    /\ At(p, "sent") /\ txCall[p].op = "begin"
    /\ LET h == txCall[p].h IN
       \/ /\ Connected
          /\ txSrv' = [st |-> "T", sps |-> <<>>] /\ txOwner' = h
          /\ txHandle' = [txHandle EXCEPT ![h].status = "active"]
          /\ TxGoto(p, "publish") /\ UNCHANGED txQuit
       \/ txSrv' = Gone /\ txOwner' = NoTx /\ UNCHANGED txHandle /\ Returns(p, FALSE)
    /\ UNCHANGED <<txActive, txStmt, txChoice, txUsed>>

\* activeTx is set and the queue released; the launcher may have begun a wrap.
BeginPublish(p) ==
    /\ At(p, "publish")
    /\ txActive' = txCall[p].h
    /\ \/ Returns(p, TRUE)
       \/ /\ p = "launcher" /\ UNCHANGED txQuit
          /\ txCall' = [txCall EXCEPT ![p].op = "wrap", ![p].pc = "begun"]
    /\ UNCHANGED <<txSrv, txOwner, txHandle, txStmt, txChoice, txUsed>>

\* The wrap is marked, for the quit dialog to leave it alone.
markWrap ==
    /\ At("launcher", "begun") /\ TxGoto("launcher", "wrapped")
    /\ UNCHANGED <<txSrv, txOwner, txActive, txHandle, txStmt, txChoice, txQuit, txUsed>>
WrapTxOpen == At("launcher", "wrapped") \/ txCall["launcher"].op = "rollback"

\* The wrapped EXPLAIN is over: its handle is rolled back.
rollbackExplain ==
    /\ At("launcher", "wrapped") /\ txStmt.pc = "idle"
    /\ TxCalls("launcher", "rollback", txCall["launcher"].h)
    /\ UNCHANGED <<txSrv, txOwner, txActive, txHandle, txStmt, txChoice, txQuit, txUsed>>

Ends(p) == txCall[p].op \in {"commit", "rollback"}

\* The checks of a call, and its statement. A handle in another state refuses, and so
\* does pgx's closed Tx. On a busy connection Rollback fails and pgx closes the
\* connection, Commit too unless no transaction is open; the handle stays as it was.
txSend(p) ==
    /\ At(p, "called")
    /\ LET h == txCall[p].h
           op == txCall[p].op
           refuses == \/ op = "commit" /\ txHandle[h].status # "active"
                      \/ op = "rollback" /\ ~Unsettled(h)
                      \/ txHandle[h].dead
       IN \/ refuses /\ Returns(p, FALSE) /\ UNCHANGED <<txSrv, txOwner, txHandle>>
          \/ /\ ~refuses /\ (Busy \/ ~Connected)
             /\ txHandle' = IF Ends(p) THEN [txHandle EXCEPT ![h].dead = TRUE] ELSE txHandle
             /\ IF Connected /\ (op = "rollback" \/ (op = "commit" /\ txSrv.st # "I"))
                  THEN txSrv' = Gone /\ txOwner' = NoTx ELSE UNCHANGED <<txSrv, txOwner>>
             /\ Returns(p, FALSE)
          \/ /\ ~refuses /\ ~Busy /\ Connected
             /\ TxGoto(p, "sent") /\ UNCHANGED <<txSrv, txOwner, txHandle, txQuit>>
    /\ UNCHANGED <<txActive, txStmt, txChoice, txUsed>>

\* COMMIT or ROLLBACK is answered: done; the COMMIT failed, or was answered ROLLBACK
\* because the transaction was aborted; or five seconds are over. Any of them closes
\* the Tx, and only the first changes the handle.
EndAnswer(p) ==
    /\ At(p, "sent") /\ Ends(p)
    /\ txHandle' = [txHandle EXCEPT ![txCall[p].h].dead = TRUE]
    /\ txOwner' = NoTx
    /\ \/ /\ Connected /\ (txCall[p].op = "rollback" \/ txSrv.st # "E")
          /\ txSrv' = IdleTx /\ TxGoto(p, "status") /\ UNCHANGED txQuit
       \/ /\ Connected /\ txCall[p].op = "commit" /\ txSrv.st # "I"
          /\ txSrv' = IdleTx /\ Returns(p, FALSE)
       \/ txSrv' = Gone /\ Returns(p, FALSE)
    /\ UNCHANGED <<txActive, txStmt, txChoice, txUsed>>

\* The status is stored under its own lock, and onTerminate clears activeTx.
StoreStatus(p) ==
    /\ At(p, "status")
    /\ LET status == IF txCall[p].op = "commit" THEN "committed" ELSE "rolledback"
       IN txHandle' = [txHandle EXCEPT ![txCall[p].h].status = status]
    /\ TxGoto(p, "terminate")
    /\ UNCHANGED <<txSrv, txOwner, txActive, txStmt, txChoice, txQuit, txUsed>>

onTerminate(p) ==
    /\ At(p, "terminate")
    /\ txActive' = IF txActive = txCall[p].h THEN NoTx ELSE txActive
    /\ Returns(p, TRUE)
    /\ UNCHANGED <<txSrv, txOwner, txHandle, txStmt, txChoice, txUsed>>

\* A savepoint statement is answered, and the tracked list follows: RELEASE drops
\* the name, ROLLBACK TO nothing.
SavepointAnswer(p) ==
    /\ At(p, "sent") /\ txCall[p].op \in {"savepoint", "release", "rollbackto"}
    /\ LET h == txCall[p].h
           op == txCall[p].op
       IN \E n \in IF op = "savepoint" THEN TxNames ELSE txHandle[h].sps :
            /\ txSrv' = IF ~Connected THEN txSrv
                        ELSE CASE op = "savepoint" -> SrvSavepoint(n)
                               [] op = "release" -> SrvRelease(n)
                               [] OTHER -> SrvRollbackTo(n)
            /\ txHandle' = CASE op = "savepoint" /\ txSrv.st = "T" ->
                                  [txHandle EXCEPT ![h].sps = @ \cup {n}]
                             [] op = "release" /\ txSrv.st = "T" /\ Positions(n) # {} ->
                                  [txHandle EXCEPT ![h].sps = @ \ {n}]
                             [] OTHER -> txHandle
    /\ Returns(p, TRUE)
    /\ UNCHANGED <<txOwner, txActive, txStmt, txChoice, txUsed>>

-----------------------------------------
(* The commands. *)

handleCommit ==
    /\ TxStep /\ Commanding /\ Current # NoTx
    /\ TxCalls("ui", "commit", Current)
    /\ UNCHANGED <<txSrv, txOwner, txActive, txHandle, txStmt, txChoice, txQuit>>

handleRollback ==
    /\ TxStep /\ Commanding /\ Current # NoTx
    /\ TxCalls("ui", "rollback", Current)
    /\ UNCHANGED <<txSrv, txOwner, txActive, txHandle, txStmt, txChoice, txQuit>>

\* The prompt re-reads the current transaction.
handleSavepoint ==
    /\ TxStep /\ Commanding /\ Current # NoTx /\ Len(txSrv.sps) < TxMaxSp
    /\ TxCalls("ui", "savepoint", Current)
    /\ UNCHANGED <<txSrv, txOwner, txActive, txHandle, txStmt, txChoice, txQuit>>

\* The choice of a savepoint, for release or rollback, captures the handle and
\* its list.
txChoose ==
    /\ Commanding /\ Current # NoTx /\ txHandle[Current].sps # {}
    /\ txChoice' = Current
    /\ UNCHANGED <<txSrv, txOwner, txActive, txHandle, txCall, txStmt, txQuit, txUsed>>

\* The popup is cancelled.
txDismiss ==
    /\ txChoice # NoTx /\ txChoice' = NoTx
    /\ UNCHANGED <<txSrv, txOwner, txActive, txHandle, txCall, txStmt, txQuit, txUsed>>

handleReleaseSavepoint ==
    /\ TxStep /\ At("ui", "idle") /\ txChoice # NoTx
    /\ TxCalls("ui", "release", txChoice) /\ txChoice' = NoTx
    /\ UNCHANGED <<txSrv, txOwner, txActive, txHandle, txStmt, txQuit>>

handleRollbackToSavepoint ==
    /\ TxStep /\ At("ui", "idle") /\ txChoice # NoTx
    /\ TxCalls("ui", "rollbackto", txChoice) /\ txChoice' = NoTx
    /\ UNCHANGED <<txSrv, txOwner, txActive, txHandle, txStmt, txQuit>>

-----------------------------------------
(* Statements. *)

\* The launcher streams or executes a statement, its wrapped EXPLAIN among them.
Statement ==
    /\ TxStep /\ ~Retired /\ Connected /\ QueueFree /\ ~Busy
    /\ At("launcher", "idle") \/ At("launcher", "wrapped")
    /\ txStmt' = [NoStmt EXCEPT !.pc = "sent"]
    /\ UNCHANGED <<txSrv, txOwner, txActive, txHandle, txCall, txChoice, txQuit>>

\* Its answer: it did its work, began or ended a transaction, failed. One that was
\* refused because the transaction is aborted (25P02) ends its stream with that error.
RawSQL ==
    /\ txStmt.pc = "sent"
    /\ LET typed == At("launcher", "idle") IN
       \/ UNCHANGED <<txSrv, txOwner>> /\ txStmt' = NoStmt
       \/ /\ typed /\ txSrv.st = "I"
          /\ txSrv' = [st |-> "T", sps |-> <<>>] /\ txOwner' = NoTx /\ txStmt' = NoStmt
       \/ /\ typed /\ txSrv.st \in {"T", "E"}
          /\ txSrv' = IdleTx /\ txOwner' = NoTx /\ txStmt' = NoStmt
       \/ txSrv.st = "T" /\ txSrv' = [txSrv EXCEPT !.st = "E"] /\ UNCHANGED txOwner /\ txStmt' = NoStmt
       \/ txSrv.st = "E" /\ UNCHANGED <<txSrv, txOwner>> /\ txStmt' = [NoStmt EXCEPT !.pc = "refused"]
    /\ UNCHANGED <<txActive, txHandle, txCall, txChoice, txQuit, txUsed>>

\* onFinish loads the current transaction, and ObserveError then marks that handle,
\* whatever its status has become.
onFinish ==
    /\ txStmt.pc = "refused"
    /\ txStmt' = IF Current = NoTx THEN NoStmt ELSE [pc |-> "observe", seen |-> Current]
    /\ UNCHANGED <<txSrv, txOwner, txActive, txHandle, txCall, txChoice, txQuit, txUsed>>

ObserveError ==
    /\ txStmt.pc = "observe"
    /\ txHandle' = [txHandle EXCEPT ![txStmt.seen].status = "aborted"]
    /\ txStmt' = NoStmt
    /\ UNCHANGED <<txSrv, txOwner, txActive, txCall, txChoice, txQuit, txUsed>>

-----------------------------------------
(* Quit and Close. *)

\* Quit: with no transaction of the driver's the program ends.
Quit ==
    /\ At("ui", "idle") /\ txChoice = NoTx /\ txQuit = "none"
    /\ txQuit' = IF Current = NoTx \/ Retired THEN "quit" ELSE "asked"
    /\ UNCHANGED <<txSrv, txOwner, txActive, txHandle, txCall, txStmt, txChoice, txUsed>>

\* The run is cancelled and waited for, two seconds at most, and the transaction
\* looked up again; a wrap is not committed.
Ending(op, during, left) ==
    /\ At("ui", "idle") /\ txQuit = "asked"
    /\ IF left \/ Retired \/ Current = NoTx THEN txQuit' = "quit" /\ UNCHANGED txCall
       ELSE txQuit' = during /\ TxCalls("ui", op, Current)
    /\ UNCHANGED <<txSrv, txOwner, txActive, txHandle, txStmt, txChoice, txUsed>>

commitAndQuit == Ending("commit", "committing", WrapTxOpen)
rollbackAndQuit == Ending("rollback", "rolling", FALSE)

quitAborted ==
    /\ At("ui", "idle") /\ txQuit = "asked"
    /\ txQuit' = "none"
    /\ UNCHANGED <<txSrv, txOwner, txActive, txHandle, txCall, txStmt, txChoice, txUsed>>

\* The session is unbound and closed: the run is waited for, two seconds at most.
txClose ==
    /\ At("closer", "idle") /\ TxGoto("closer", "loading")
    /\ UNCHANGED <<txSrv, txOwner, txActive, txHandle, txStmt, txChoice, txQuit, txUsed>>

\* Close rolls the current transaction back.
CloseRollback ==
    /\ At("closer", "loading")
    /\ IF Current = NoTx THEN TxGoto("closer", "release") ELSE TxCalls("closer", "rollback", Current)
    /\ UNCHANGED <<txSrv, txOwner, txActive, txHandle, txStmt, txChoice, txQuit, txUsed>>

\* The driver's Close: the pool keeps an idle connection and destroys any other.
CloseInner ==
    /\ At("closer", "release")
    /\ txSrv' = IF txSrv.st = "I" /\ ~Busy THEN [st |-> "P", sps |-> <<>>] ELSE Gone
    /\ txOwner' = NoTx /\ TxGoto("closer", "closed")
    /\ UNCHANGED <<txActive, txHandle, txStmt, txChoice, txQuit, txUsed>>

TxNext ==
    \/ \E p \in Callers :
         \/ p # "closer" /\ (BeginAnswer(p) \/ BeginPublish(p) \/ \E h \in TxHandles : Begin(p, h))
         \/ txSend(p) \/ EndAnswer(p) \/ StoreStatus(p) \/ onTerminate(p) \/ SavepointAnswer(p)
    \/ markWrap \/ rollbackExplain
    \/ handleCommit \/ handleRollback \/ handleSavepoint \/ txChoose \/ txDismiss
    \/ handleReleaseSavepoint \/ handleRollbackToSavepoint
    \/ Statement \/ RawSQL \/ onFinish \/ ObserveError
    \/ Quit \/ commitAndQuit \/ rollbackAndQuit \/ quitAborted
    \/ txClose \/ CloseRollback \/ CloseInner

TxSpec == TxInit /\ [][TxNext]_txVars

-----------------------------------------
(* Properties. *)

\* A handle that can still send.
LiveTx(h) == Unsettled(h) /\ ~txHandle[h].dead

\* At any time at most one handle can send to the connection, and it is the one the
\* commands, the quit dialog and Close look up, or the one that Begin is about to
\* publish; a transaction that a handle began can be ended by no other; a call on the
\* wire never meets the transaction of another handle; and a connection goes back to
\* the pool with no handle that could still commit on it. This holds although typed
\* statements end transactions under their handle, a stream's end marks the handle
\* while it is being committed, and two threads may end one handle at once
\* (Session.Begin, pgTransaction.Commit, Rollback and ObserveError, SQLSession.Close).
OneHandleEnds ==
    /\ Cardinality({h \in TxHandles : LiveTx(h)}) <= 1
    /\ \A h \in TxHandles : LiveTx(h) =>
         txActive = h \/ \E p \in Callers : At(p, "publish") /\ txCall[p].h = h
    /\ txOwner # NoTx => LiveTx(txOwner)
    /\ \A p \in Callers : At(p, "sent") => txOwner \in {NoTx, txCall[p].h}
    /\ txSrv.st = "P" => \A h \in TxHandles : txHandle[h].status = "active" => txHandle[h].dead
=============================================================================
