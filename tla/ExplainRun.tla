----------------------------- MODULE ExplainRun -----------------------------
(***************************************************************************)
(* EXPLAIN and EXPLAIN ANALYZE of the statement under the cursor: the gate *)
(* that keeps ANALYZE from executing writes, the launch that wraps it in a *)
(* transaction of its own, the driver's savepoint and its retry on servers *)
(* that reject an option, and the user's transaction commands, which run   *)
(* between the steps of the launch (query_editor_controller.go,            *)
(* query_runner.go, pkg/query, pkg/drivers/pg/session.go,                  *)
(* tx_controller.go).                                                       *)
(*                                                                          *)
(* A call of the session holds its queue, so each one is a step.  The       *)
(* binding does not change here, and wrapTxOpen, which only the quit dialog *)
(* reads, is left out.                                                      *)
(***************************************************************************)
EXTENDS Integers, Sequences, FiniteSets, FiniteSetsExt

CONSTANTS
    ErStatements,  \* statements: [lead, dml, ddl], the leading keyword's kind and the tokens inside
    ErPresses,     \* bound: presses of an explain key
    ErCommands     \* bound: transaction commands

ASSUME ExplainAssumption == ErPresses \in Nat

VARIABLE er

-----------------------------------------
(* The gate. *)

\* Classify, and the scan that finds a write inside a WITH.
Classify(stmt) == stmt.lead
mayWrite(stmt) == Classify(stmt) # "other" \/ stmt.dml \/ stmt.ddl
EffectiveAnalyze(stmt, readOnly, requested) == requested /\ (readOnly \/ ~mayWrite(stmt))

-----------------------------------------
(* The session. *)

NoOp == [id |-> 0, stmt |-> [lead |-> "other", dml |-> FALSE, ddl |-> FALSE], analyze |-> FALSE,
         step |-> "none", wrap |-> 0, excused |-> FALSE]

\* ro: the profile; legacy: the server rejects the richer option set; st, tx, priv:
\* the server's status, its transaction and the driver's private savepoints; byte: the
\* sampled status; active, dead: the driver's handle, and whether pgx closed it.
ErInit ==
    \E ro, legacy \in BOOLEAN :
      er = [ro |-> ro, legacy |-> legacy, alive |-> TRUE, lost |-> FALSE, announced |-> FALSE,
            st |-> "I", tx |-> 0, priv |-> 0, byte |-> "I", active |-> 0, dead |-> FALSE,
            users |-> 0, last |-> 0, presses |-> 0, cmds |-> 0,
            pending |-> NoOp, op |-> NoOp, posted |-> {}, tabs |-> <<>>,
            executed |-> [p \in 1..ErPresses |-> 0], outside |-> {}]

\* Begin: refused while a handle is unsettled or the server has a transaction.
refused(e) == e.active # 0 \/ e.st # "I"
begun(e) ==
    [e EXCEPT !.st = "T", !.byte = "T", !.last = @ + 1, !.tx = e.last + 1,
              !.active = e.last + 1, !.dead = FALSE]
ended(e) == [e EXCEPT !.st = "I", !.tx = 0, !.priv = 0]
settled(e) == [ended(e) EXCEPT !.byte = "I", !.active = 0, !.dead = FALSE]
died(e) == [ended(e) EXCEPT !.alive = FALSE, !.users = 0]

\* Rollback of a handle: refused when it is settled or pgx closed it.
rolledBack(e, h) == IF e.alive /\ e.active = h /\ ~e.dead THEN settled(e) ELSE e

-----------------------------------------
(* The keys. *)

\* handleExplain, handleExplainAnalyze: the launch replaces one that still waits.
explain ==
    /\ er.presses < ErPresses
    /\ \E stmt \in ErStatements, requested \in BOOLEAN :
         er' = [er EXCEPT !.presses = @ + 1,
                          !.pending = [NoOp EXCEPT !.id = er.presses + 1, !.stmt = stmt,
                                         !.analyze = EffectiveAnalyze(stmt, er.ro, requested)]]

\* handleCancel: a launch that waits is dropped; one that runs is past its check, and
\* the server's answer to the cancel is one of the errors of the call.
handleCancel ==
    /\ er.pending # NoOp
    /\ er' = [er EXCEPT !.pending = NoOp]

-----------------------------------------
(* The launch (ExplainAsync). *)

Running(step) == er.op.step = step

\* Outside a transaction an ANALYZE gets one of its own; the status is the one sampled
\* after the last call, which a COMMIT that failed leaves behind.
launch ==
    /\ Running("none") /\ er.pending # NoOp
    /\ LET inTx == ~er.lost /\ er.byte \in {"T", "E"} IN
       er' = [er EXCEPT !.pending = NoOp,
                        !.op = [er.pending EXCEPT
                                  !.step = IF er.pending.analyze /\ ~inTx THEN "begin" ELSE "explain",
                                  !.excused = er.byte # er.st]]

answer(e, result) ==
    [e EXCEPT !.op = NoOp, !.posted = @ \cup {[id |-> e.op.id, result |-> result]}]

\* A Begin that finds the connection dead does not mark the session.
beginWrap ==
    /\ Running("begin")
    /\ \/ er.lost /\ er' = answer(er, "error")
       \/ ~er.lost /\ er' = answer(died(er), "dead")
       \/ ~er.lost /\ er.alive /\ refused(er) /\ er' = answer([er EXCEPT !.byte = er.st], "error")
       \/ /\ ~er.lost /\ er.alive /\ ~refused(er)
          /\ er' = [begun(er) EXCEPT !.op.step = "explain", !.op.wrap = er.last + 1]

\* The statement runs: outside a transaction its effects stay.
execute(e) ==
    [e EXCEPT !.executed[e.op.id] = @ + IF e.op.analyze THEN 1 ELSE 0,
              !.outside = @ \cup (IF e.op.analyze /\ e.tx = 0 /\ ~e.op.excused THEN {e.op.id} ELSE {})]
aborted(e) == [e EXCEPT !.st = IF @ = "I" THEN "I" ELSE "E"]

\* The driver's Explain, in a transaction behind a savepoint: an option the server
\* rejects is asked again without it, after going back to the savepoint, and nothing
\* else is; an estimate asks for the text too.
Explained(e, fault) ==
    LET guarded  == e.st = "T"
        saved    == IF guarded THEN [e EXCEPT !.priv = @ + 1] ELSE e
        \* the rejection aborts the transaction, ROLLBACK TO the savepoint revives it
        retried  == IF e.legacy THEN [saved EXCEPT !.st = IF guarded THEN "T" ELSE @] ELSE saved
        ran      == execute(retried)
        released == IF guarded THEN [ran EXCEPT !.priv = @ - 1] ELSE ran
        outcome  == IF e.st = "E" THEN "rejected" ELSE IF fault = "text" /\ e.op.analyze THEN "none" ELSE fault
    IN  CASE outcome = "rejected" -> [state |-> aborted(saved), result |-> "error"]
          [] outcome = "execution" -> [state |-> aborted(ran), result |-> "error"]
          [] outcome = "parse" -> [state |-> released, result |-> "error"]
          [] outcome = "text" -> [state |-> aborted(released), result |-> "error"]
          [] OTHER -> [state |-> released, result |-> IF e.legacy THEN "basic" ELSE "full"]

\* SQLSession.Explain marks the session when the connection is dead.  The status is
\* sampled when the call ends.  A wrap is still to be rolled back.
next(e, result) ==
    IF e.op.wrap = 0 THEN answer(e, result) ELSE [e EXCEPT !.op.step = result]
runExplain ==
    /\ Running("explain")
    /\ \/ er.lost /\ er' = next(er, "error")
       \/ ~er.lost /\ \E before \in BOOLEAN :
            LET e == [died(IF before \/ ~er.alive THEN er ELSE execute(er)) EXCEPT !.lost = TRUE]
            IN  er' = next(e, "dead")
       \/ /\ ~er.lost /\ er.alive
          /\ \E fault \in {"none", "rejected", "execution", "parse", "text"} :
               LET x == Explained(er, fault)
               IN  er' = next([x.state EXCEPT !.byte = x.state.st], x.result)

\* Mutant: the rollback ends whatever transaction the session has.
rollbackCurrent ==
    /\ er.op.wrap # 0 /\ er.op.step \in {"error", "dead", "basic", "full"}
    /\ er' = answer(rolledBack(er, er.active), er.op.step)

\* rollbackExplain, on the handle that Begin returned.
rollbackExplain ==
    /\ er.op.wrap # 0 /\ er.op.step \in {"error", "dead", "basic", "full"}
    /\ er' = answer(rolledBack(er, er.op.wrap), er.op.step)

\* The continuation, on the interface thread.  A dead connection is announced once, by
\* whoever marks the session first.
settle ==
    \E m \in er.posted :
      LET new == m.result = "dead" /\ ~er.lost IN
      er' = [er EXCEPT !.posted = @ \ {m},
                       !.lost = @ \/ new, !.announced = @ \/ new,
                       !.tabs = Append(@, [id |-> m.id,
                                           kind |-> IF m.result \in {"error", "dead"} THEN "error" ELSE "plan"])]

-----------------------------------------
(* The user's transaction. *)

userCommand(e) ==
    /\ er.cmds < ErCommands
    /\ er' = [e EXCEPT !.cmds = @ + 1,
                       !.op.excused = @ \/ (er.op # NoOp /\ er.tx # 0 /\ e.tx = 0)]

handleBegin ==
    /\ er.active = 0 /\ er.alive /\ ~er.lost
    /\ userCommand(IF refused(er) THEN [er EXCEPT !.byte = er.st]
               ELSE [begun(er) EXCEPT !.users = er.last + 1])

\* A COMMIT the server refuses ends the transaction and leaves the handle.
handleCommit ==
    /\ er.active # 0 /\ er.alive
    /\ \/ ~er.dead /\ er.st = "T" /\ userCommand([settled(er) EXCEPT !.users = 0])
       \/ ~er.dead /\ userCommand([ended(er) EXCEPT !.dead = TRUE, !.users = 0])
       \/ er.dead /\ userCommand(er)

handleRollback ==
    /\ er.active # 0 /\ er.alive
    /\ userCommand([rolledBack(er, er.active) EXCEPT !.users = IF er.dead THEN @ ELSE 0])

\* A statement of the user's that fails.
statementFails ==
    /\ er.st = "T"
    /\ userCommand([er EXCEPT !.st = "E", !.byte = "E"])

ErNext ==
    \/ explain \/ handleCancel \/ launch \/ beginWrap \/ runExplain \/ rollbackExplain \/ settle
    \/ handleBegin \/ handleCommit \/ handleRollback \/ statementFails

ErSpec == ErInit /\ [][ErNext]_er

-----------------------------------------
(* Properties. *)

\* One press executes the statement at most once, retries and the text request
\* included.
ExecutedOnce == \A p \in 1..ErPresses : er.executed[p] <= 1

\* A launch executes a writing statement only on a read-only connection.
GateHolds ==
    \A o \in {er.op, er.pending} : o.analyze /\ mayWrite(o.stmt) => er.ro

\* An ANALYZE runs inside a transaction, the user's or its own, unless the user ended
\* it while the launch was under way or the sampled status was stale.
InsideTransaction == er.outside = {}

\* The transaction the user began is ended by the user alone, and when no launch runs
\* no other transaction is open.
UserTransactionKept ==
    /\ er.users # 0 => er.tx = er.users
    /\ er.op = NoOp => er.tx = er.users

\* A transaction that is not aborted holds none of the driver's savepoints: going back
\* to the savepoint and releasing it leave the user's work as it was.
SavepointReleased == er.st = "T" => er.priv = 0

\* A press ends in one tab at most.
OneTab == \A i, j \in DOMAIN er.tabs : i # j => er.tabs[i].id # er.tabs[j].id

\* What explaining a statement promises, however the user's commands fall between the
\* steps of the launch.
ExplainTruth ==
    /\ ExecutedOnce /\ GateHolds /\ InsideTransaction /\ UserTransactionKept
    /\ SavepointReleased /\ OneTab
=============================================================================
