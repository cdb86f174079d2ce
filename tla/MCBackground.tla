--------------------------- MODULE MCBackground ---------------------------
(***************************************************************************)
(* The query runner and the components beside the query path, which share   *)
(* no state with each other: a behaviour picks one of them and leaves the   *)
(* others alone, so one run is the sum of their instances and not the       *)
(* product. The connection is looked at twice: its life over three jobs,    *)
(* and its metadata loads.                                                  *)
(***************************************************************************)
EXTENDS QueryRunner, ConnectionLifecycle, AppStateStore, QueryHistory, SchemaWarmer, MachineClient,
        Transactions

VARIABLE focus

backVars == <<runnerVars, connVars, storeVars, historyVars, warmerVars, machineVars, txVars, focus>>

BackInit ==
    /\ RunnerInit /\ ConnInit /\ StoreInit /\ HistoryInit /\ WarmerInit /\ MachineInit /\ TxInit
    /\ focus \in {"runner", "life", "loads", "store", "history", "warmer", "machine", "transaction"}
    /\ focus # "store" => stDisk = Corrupt
    /\ stDisk # Corrupt => stDisk.legacy

On(f) == focus \in f /\ UNCHANGED focus

\* Loads and closers are interchangeable: the first to start is number 1.
InTurn(S, started(_)) == \A i \in S : started(i) => \A j \in 1..i : started(j)
StoreInstance == LET Entered(c) == stCloser'[c] # "idle" IN InTurn(StClosers, Entered)
LoadsInTurn == LET Issued(l) == load'[l].st # "idle" IN InTurn(Loads, Issued)

\* Instance of the runner: a batch comes first, before a run on the same session.
RunnerInstance ==
    \A a \in Actions : act'[a].kind = "batch" =>
        a = 1 /\ act'[2].kind \in {"none", "run"} /\ binding' # 2

\* Instances of the connection: no loads, or a connect and a reconnect
\* without bounded requests.
LifeInstance == \A l \in Loads : load'[l] = IdleLoad
LoadsInstance == /\ LoadsInTurn
                 /\ \A j \in Jobs : /\ j = 2 => job'[j].kind \in {"none", "reconnect"}
                                    /\ j > 2 => job'[j].kind = "none"
                 /\ spent' = 0
                 /\ \A j \in Jobs : job'[j].profile \in {NoProfile, "A"}

BackNext ==
    \/ /\ On({"runner"}) /\ RunnerNext /\ RunnerInstance
       /\ UNCHANGED <<connVars, storeVars, historyVars, warmerVars, machineVars, txVars>>
    \/ /\ On({"life"}) /\ ConnNext /\ LifeInstance
       /\ UNCHANGED <<runnerVars, storeVars, historyVars, warmerVars, machineVars, txVars>>
    \/ /\ On({"loads"}) /\ ConnNext /\ LoadsInstance
       /\ UNCHANGED <<runnerVars, storeVars, historyVars, warmerVars, machineVars, txVars>>
    \/ /\ On({"store"}) /\ StoreNext /\ StoreInstance
       /\ UNCHANGED <<runnerVars, connVars, historyVars, warmerVars, machineVars, txVars>>
    \/ /\ On({"history"}) /\ HistoryNext
       /\ UNCHANGED <<runnerVars, connVars, storeVars, warmerVars, machineVars, txVars>>
    \/ /\ On({"warmer"}) /\ WarmerNext
       /\ UNCHANGED <<runnerVars, connVars, storeVars, historyVars, machineVars, txVars>>
    \/ /\ On({"machine"}) /\ MachineNext
       /\ UNCHANGED <<runnerVars, connVars, storeVars, historyVars, warmerVars, txVars>>
    \/ /\ On({"transaction"}) /\ TxNext
       /\ UNCHANGED <<runnerVars, connVars, storeVars, historyVars, warmerVars, machineVars>>

BackSpec == BackInit /\ [][BackNext]_backVars

\* What runs beside the user's work is accounted for: every history entry is in
\* one place, every claim of a table is held by the warm that runs for it
\* (QueryHistory, SchemaWarmer).
RecordsKept == HistoryAccounted /\ ClaimedByItsWarm
=============================================================================
