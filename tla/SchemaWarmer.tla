---------------------------- MODULE SchemaWarmer ----------------------------
(***************************************************************************)
(* The metadata that completion reads: names loaded eagerly per schema,     *)
(* columns and foreign keys warmed per table on a worker and published on   *)
(* the UI loop, the invalidations that follow a DDL statement or a manual   *)
(* refresh, and the resets of a change of connection                        *)
(* (pkg/gui/controllers/helpers/data/schema_warmer.go,                      *)
(* schema_metadata_store.go).                                               *)
(*                                                                          *)
(* What a load returns is abstracted to the connection it was made on and   *)
(* to the number of DDL statements committed before it.                     *)
(***************************************************************************)
EXTENDS Integers, FiniteSets

CONSTANTS
    WmTables,   \* the tables of the active schema
    WmWarms,    \* bound: warms that are claimed, 1..n
    WmEagers,   \* bound: calls of LoadEagerContext
    WmInvals,   \* bound: invalidations
    WmConns     \* bound: connections, 1..n

ASSUME WarmerAssumption ==
    WmWarms \subseteq Nat \ {0} /\ WmConns \subseteq Nat \ {0} /\ 1 \in WmConns

Unloaded == [conn |-> 0, shape |-> -1]
NoKey == [present |-> FALSE, born |-> 0, inflight |-> FALSE, cool |-> FALSE, gen |-> 0]
IdleWarm == [at |-> "idle", table |-> "", born |-> 0, gen |-> 0, cols |-> Unloaded]

VARIABLES
    wmShape,   \* DDL statements the server has committed
    wmConn,    \* the connection whose metadata session is current, or 0
    wmLast,    \* the latest connection
    wmCols,    \* the store: columns and foreign keys per table
    wmNames,   \* the store: table and function names
    wmState,   \* w.state: per table, the key's state
    wmEpoch,   \* w.epoch; also the identity of the state map
    wmWarm,    \* per warm: its position and what it captured
    wmEager,   \* per eager load: its position, epoch, session and result
    wmInval,   \* per invalidation: its position, tables, and the shape it announces
    wmChange   \* a change of connection under way: "none", "down", "deleted"

warmerVars == <<wmShape, wmConn, wmLast, wmCols, wmNames, wmState, wmEpoch, wmWarm, wmEager,
                wmInval, wmChange>>

WarmerInit ==
    /\ wmShape = 0 /\ wmConn = 1 /\ wmLast = 1
    /\ wmCols = [t \in WmTables |-> Unloaded]
    /\ wmNames = Unloaded
    /\ wmState = [t \in WmTables |-> NoKey] /\ wmEpoch = 0
    /\ wmWarm = [w \in WmWarms |-> IdleWarm]
    /\ wmEager = [e \in WmEagers |-> [at |-> "idle", epoch |-> 0, on |-> 0, got |-> Unloaded]]
    /\ wmInval = [i \in WmInvals |-> [at |-> "idle", tables |-> {}, shape |-> 0]]
    /\ wmChange = "none"

Now == [conn |-> wmConn, shape |-> wmShape]

-----------------------------------------
(* Warms. *)

IdleWarms == {w \in WmWarms : wmWarm[w].at = "idle"}
wmNextWarm == CHOOSE w \in IdleWarms : \A v \in IdleWarms : w <= v

\* WarmTable and claim: one warm at a time per table, none when it is loaded or
\* cooling down. The key's identity and generation are captured.
claim(t) ==
    /\ IdleWarms # {}
    /\ wmCols[t] = Unloaded /\ ~wmState[t].inflight /\ ~wmState[t].cool
    /\ LET st == IF wmState[t].present THEN wmState[t]
                 ELSE [NoKey EXCEPT !.present = TRUE, !.born = wmEpoch]
       IN /\ wmState' = [wmState EXCEPT ![t] = [st EXCEPT !.inflight = TRUE]]
          /\ wmWarm' = [wmWarm EXCEPT ![wmNextWarm] =
                          [IdleWarm EXCEPT !.at = "columns", !.table = t, !.born = wmEpoch,
                                           !.gen = st.gen]]
    /\ UNCHANGED <<wmShape, wmConn, wmLast, wmCols, wmNames, wmEpoch, wmEager, wmInval, wmChange>>

\* The warm's key is still the live one, and of its generation.
WarmLive(w) ==
    LET live == wmState[wmWarm[w].table]
    IN live.present /\ live.born = wmWarm[w].born /\ live.gen = wmWarm[w].gen

\* The key is the one the warm claimed, superseded or not.
SameKey(w) ==
    LET live == wmState[wmWarm[w].table] IN live.present /\ live.born = wmWarm[w].born

\* Mutant: a superseded warm returns without giving its claim back.
ClearKeepsClaim(w, failed) ==
    IF WarmLive(w)
      THEN [wmState EXCEPT ![wmWarm[w].table] =
              IF failed THEN [@ EXCEPT !.inflight = FALSE, !.cool = TRUE] ELSE NoKey]
    ELSE wmState

\* clearInflight: the state map after warm w has ended.
clearInflight(w, failed) ==
    IF WarmLive(w)
      THEN [wmState EXCEPT ![wmWarm[w].table] =
              IF failed THEN [@ EXCEPT !.inflight = FALSE, !.cool = TRUE] ELSE NoKey]
    ELSE IF SameKey(w) THEN [wmState EXCEPT ![wmWarm[w].table].inflight = FALSE]
    ELSE wmState

\* runWarm, columns and then foreign keys, unpinned: on whatever session is
\* current when the worker takes the load.
runWarm(w) ==
    /\ wmWarm[w].at \in {"columns", "fks"}
    /\ \/ /\ wmConn # 0
          /\ wmWarm' = [wmWarm EXCEPT
               ![w].at = IF @ = "columns" THEN "fks" ELSE "publish",
               ![w].cols = IF wmWarm[w].at = "columns" THEN Now ELSE @]
          /\ UNCHANGED wmState
       \/ /\ wmWarm' = [wmWarm EXCEPT ![w] = [IdleWarm EXCEPT !.at = "done"]]
          /\ wmState' = clearInflight(w, TRUE)
    /\ UNCHANGED <<wmShape, wmConn, wmLast, wmCols, wmNames, wmEpoch, wmEager, wmInval, wmChange>>

\* The closure on the UI loop: publish and release the key in one hold of mu.
wmPublish(w) ==
    /\ wmWarm[w].at = "publish"
    /\ wmCols' = IF WarmLive(w) THEN [wmCols EXCEPT ![wmWarm[w].table] = wmWarm[w].cols] ELSE wmCols
    /\ wmState' = clearInflight(w, FALSE)
    /\ wmWarm' = [wmWarm EXCEPT ![w] = [IdleWarm EXCEPT !.at = "done"]]
    /\ UNCHANGED <<wmShape, wmConn, wmLast, wmNames, wmEpoch, wmEager, wmInval, wmChange>>

\* The cooldown of a failed table elapses.
wmCooled(t) ==
    /\ wmState[t].cool
    /\ wmState' = [wmState EXCEPT ![t].cool = FALSE]
    /\ UNCHANGED <<wmShape, wmConn, wmLast, wmCols, wmNames, wmEpoch, wmWarm, wmEager, wmInval,
                   wmChange>>

-----------------------------------------
(* The eager tier. *)

\* LoadEagerContext on a bound context: the load is made on the session it was
\* bound to, or fails.
wmEagerStart(e) ==
    /\ wmEager[e].at = "idle"
    /\ wmEager' = [wmEager EXCEPT ![e] = [at |-> "load", epoch |-> wmEpoch, on |-> wmConn,
                                          got |-> Unloaded]]
    /\ UNCHANGED <<wmShape, wmConn, wmLast, wmCols, wmNames, wmState, wmEpoch, wmWarm, wmInval,
                   wmChange>>

wmEagerLoad(e) ==
    /\ wmEager[e].at = "load"
    /\ wmEager' = [wmEager EXCEPT ![e].at = IF wmConn # 0 /\ wmConn = wmEager[e].on
                                              THEN "set" ELSE "done",
                                  ![e].got = Now]
    /\ UNCHANGED <<wmShape, wmConn, wmLast, wmCols, wmNames, wmState, wmEpoch, wmWarm, wmInval,
                   wmChange>>

\* Under mu, unless a Reset came in between. The names of the tables and then
\* of the functions are two such rounds; they are one here.
wmEagerSet(e) ==
    /\ wmEager[e].at = "set"
    /\ wmNames' = IF wmEpoch = wmEager[e].epoch THEN wmEager[e].got ELSE wmNames
    /\ wmEager' = [wmEager EXCEPT ![e].at = "done"]
    /\ UNCHANGED <<wmShape, wmConn, wmLast, wmCols, wmState, wmEpoch, wmWarm, wmInval, wmChange>>

-----------------------------------------
(* Invalidations. *)

\* A DDL statement of the editor commits (scheduleDDLInvalidation waits for it
\* and then invalidates the active schema), or the user asks for a refresh of
\* one table.
wmInvalStart(i) ==
    /\ wmInval[i].at = "idle"
    /\ \E tables \in {WmTables} \cup {{t} : t \in WmTables} :
         /\ wmShape' = IF tables = WmTables THEN wmShape + 1 ELSE wmShape
         /\ wmInval' = [wmInval EXCEPT ![i] = [at |-> "clear", tables |-> tables, shape |-> wmShape']]
    /\ UNCHANGED <<wmConn, wmLast, wmCols, wmNames, wmState, wmEpoch, wmWarm, wmEager, wmChange>>

\* InvalidateSchema and InvalidateTable, first half: the store, under its lock.
wmInvalStore(i) ==
    /\ wmInval[i].at = "clear"
    /\ wmCols' = [t \in WmTables |-> IF t \in wmInval[i].tables THEN Unloaded ELSE wmCols[t]]
    /\ wmInval' = [wmInval EXCEPT ![i].at = "supersede"]
    /\ UNCHANGED <<wmShape, wmConn, wmLast, wmNames, wmState, wmEpoch, wmWarm, wmEager, wmChange>>

\* supersedeLocked: a key in flight is kept with a new generation.
superseded(st) ==
    IF st.inflight THEN [st EXCEPT !.gen = @ + 1, !.cool = FALSE] ELSE NoKey

\* Second half, under mu.
wmInvalKeys(i) ==
    /\ wmInval[i].at = "supersede"
    /\ wmState' = [t \in WmTables |-> IF t \in wmInval[i].tables THEN superseded(wmState[t])
                                      ELSE wmState[t]]
    /\ wmInval' = [wmInval EXCEPT ![i].at = "done"]
    /\ UNCHANGED <<wmShape, wmConn, wmLast, wmCols, wmNames, wmEpoch, wmWarm, wmEager, wmChange>>

-----------------------------------------
(* Changes of connection. *)

wmReset ==
    /\ wmCols' = [t \in WmTables |-> Unloaded] /\ wmNames' = Unloaded
    /\ wmState' = [t \in WmTables |-> NoKey]
    /\ wmEpoch' = wmEpoch + 1

\* teardownForSwitch and Reconnect: disconnect, and then reset.
wmTeardown ==
    /\ wmConn # 0 /\ wmChange = "none"
    /\ wmConn' = 0 /\ wmChange' = "down"
    /\ UNCHANGED <<wmShape, wmLast, wmCols, wmNames, wmState, wmEpoch, wmWarm, wmEager, wmInval>>

wmTeardownReset ==
    /\ wmChange = "down"
    /\ wmReset
    /\ wmChange' = "none"
    /\ UNCHANGED <<wmShape, wmConn, wmLast, wmWarm, wmEager, wmInval>>

wmConnect ==
    /\ wmConn = 0 /\ wmChange = "none" /\ wmLast + 1 \in WmConns
    /\ wmConn' = wmLast + 1 /\ wmLast' = wmLast + 1
    /\ UNCHANGED <<wmShape, wmCols, wmNames, wmState, wmEpoch, wmWarm, wmEager, wmInval, wmChange>>

\* deleteConnectionFromModal of the active profile: reset at once, and
\* disconnect later, on a worker. The next connect finds no owner to tear down
\* and resets nothing.
wmDelete ==
    /\ wmConn # 0 /\ wmChange = "none"
    /\ wmReset
    /\ wmChange' = "deleted"
    /\ UNCHANGED <<wmShape, wmConn, wmLast, wmWarm, wmEager, wmInval>>

wmDeleteDisconnect ==
    /\ wmChange = "deleted"
    /\ wmConn' = 0 /\ wmChange' = "none"
    /\ UNCHANGED <<wmShape, wmLast, wmCols, wmNames, wmState, wmEpoch, wmWarm, wmEager, wmInval>>

WarmerNext ==
    \/ \E t \in WmTables : claim(t) \/ wmCooled(t)
    \/ \E w \in WmWarms : runWarm(w) \/ wmPublish(w)
    \/ \E e \in WmEagers : wmEagerStart(e) \/ wmEagerLoad(e) \/ wmEagerSet(e)
    \/ \E i \in WmInvals : wmInvalStart(i) \/ wmInvalStore(i) \/ wmInvalKeys(i)
    \/ wmTeardown \/ wmTeardownReset \/ wmConnect \/ wmDelete \/ wmDeleteDisconnect

WarmerSpec == WarmerInit /\ [][WarmerNext]_warmerVars

-----------------------------------------
(* Properties. *)

\* A table is being warmed at most once at a time, and it is claimed only while
\* a warm that will give the claim back is under way, however invalidations and
\* resets cut in: a claim nobody returns would leave the table without
\* completions for good (claim, clearInflight, supersedeLocked, Reset).
ClaimedByItsWarm ==
    \A t \in WmTables : wmState[t].inflight =>
        Cardinality({w \in WmWarms : /\ wmWarm[w].at \in {"columns", "fks", "publish"}
                                     /\ wmWarm[w].table = t /\ SameKey(w)}) = 1
=============================================================================
