---------------------------- MODULE QueryHistory ----------------------------
(***************************************************************************)
(* The query history: a bounded queue that Record never waits for, the      *)
(* goroutine that writes it to SQLite in batches, Close, and the command    *)
(* line's direct append (pkg/query/history.go, history_append.go).          *)
(*                                                                          *)
(* An entry is named by the call that records it.                           *)
(***************************************************************************)
EXTENDS Integers, Sequences, FiniteSets

CONSTANTS
    HyEntries,   \* the calls of Record and RecordEntry
    HyAppends,   \* the calls of AppendHistory, from other processes
    HyCap,       \* historyChanCap
    HyBatch      \* historyBatchSize

\* A call is a Record or a direct append, not both.
ASSUME HistoryAssumption ==
    HyCap \in Nat \ {0} /\ HyBatch \in Nat \ {0} /\ HyEntries \cap HyAppends = {}

VARIABLES
    hyCall,     \* per entry: "idle", "full", "evicted", "returned"
    hyCh,       \* h.ch
    hyMu,       \* holders of h.mu
    hyBatch,    \* the writer's batch
    hyWriter,   \* "select", "drain", "done"
    hyStop,     \* h.stop is closed: the entries recorded before it was, or {}
    hyClose,    \* "idle", "waiting", "returned"
    hyDb,       \* the rows of the table
    hyLost,     \* entries evicted, refused, or in a batch that failed
    hyDropped   \* h.dropped

historyVars == <<hyCall, hyCh, hyMu, hyBatch, hyWriter, hyStop, hyClose, hyDb, hyLost, hyDropped>>

HyRange(s) == {s[i] : i \in DOMAIN s}

HistoryInit ==
    /\ hyCall = [e \in HyEntries |-> "idle"]
    /\ hyCh = <<>> /\ hyMu = {} /\ hyBatch = <<>>
    /\ hyWriter = "select" /\ hyStop = {} /\ hyClose = "idle"
    /\ hyDb = {} /\ hyLost = {} /\ hyDropped = 0

-----------------------------------------
(* Record. *)

\* enqueue: a place in the queue, or on to the slow path.
enqueue(e) ==
    /\ hyCall[e] = "idle"
    /\ IF Len(hyCh) < HyCap
         THEN hyCh' = Append(hyCh, e) /\ hyCall' = [hyCall EXCEPT ![e] = "returned"]
         ELSE hyCall' = [hyCall EXCEPT ![e] = "full"] /\ UNCHANGED hyCh
    /\ UNCHANGED <<hyMu, hyBatch, hyWriter, hyStop, hyClose, hyDb, hyLost, hyDropped>>

\* dropOldestAndEnqueue, first half: evict the head, if the writer left one.
dropOldest(e) ==
    /\ hyCall[e] = "full" /\ hyMu = {}
    /\ hyMu' = {e}
    /\ hyCall' = [hyCall EXCEPT ![e] = "evicted"]
    /\ hyLost' = IF hyCh = <<>> THEN hyLost ELSE hyLost \cup {Head(hyCh)}
    /\ hyCh' = IF hyCh = <<>> THEN hyCh ELSE Tail(hyCh)
    /\ UNCHANGED <<hyBatch, hyWriter, hyStop, hyClose, hyDb, hyDropped>>

\* Second half: enqueue does not take mu, so the freed place may be gone. One
\* drop is counted either way.
andEnqueue(e) ==
    /\ hyCall[e] = "evicted"
    /\ hyMu' = {}
    /\ hyCall' = [hyCall EXCEPT ![e] = "returned"]
    /\ IF Len(hyCh) < HyCap
         THEN hyCh' = Append(hyCh, e) /\ UNCHANGED hyLost
         ELSE hyLost' = hyLost \cup {e} /\ UNCHANGED hyCh
    /\ hyDropped' = hyDropped + 1
    /\ UNCHANGED <<hyBatch, hyWriter, hyStop, hyClose, hyDb>>

-----------------------------------------
(* The writer. *)

\* flush and flushBatch: one transaction; a failure drops the whole batch.
hyFlush(batch) ==
    /\ \E ok \in BOOLEAN :
         /\ hyDb' = IF ok THEN hyDb \cup HyRange(batch) ELSE hyDb
         /\ hyLost' = IF ok THEN hyLost ELSE hyLost \cup HyRange(batch)
    /\ hyBatch' = <<>>

hyTake ==
    /\ hyWriter \in {"select", "drain"} /\ hyCh # <<>>
    /\ hyCh' = Tail(hyCh)
    /\ LET batch == Append(hyBatch, Head(hyCh))
       IN IF Len(batch) >= HyBatch THEN hyFlush(batch)
          ELSE hyBatch' = batch /\ UNCHANGED <<hyDb, hyLost>>
    /\ UNCHANGED <<hyCall, hyMu, hyWriter, hyStop, hyClose, hyDropped>>

hyTick ==
    /\ hyWriter = "select" /\ hyBatch # <<>>
    /\ hyFlush(hyBatch)
    /\ UNCHANGED <<hyCall, hyCh, hyMu, hyWriter, hyStop, hyClose, hyDropped>>

hySeesStop ==
    /\ hyWriter = "select" /\ hyClose # "idle"
    /\ hyWriter' = "drain"
    /\ UNCHANGED <<hyCall, hyCh, hyMu, hyBatch, hyStop, hyClose, hyDb, hyLost, hyDropped>>

\* drainAndFlush finds the queue empty.
drainAndFlush ==
    /\ hyWriter = "drain" /\ hyCh = <<>>
    /\ hyWriter' = "done"
    /\ hyFlush(hyBatch)
    /\ UNCHANGED <<hyCall, hyCh, hyMu, hyStop, hyClose, hyDropped>>

-----------------------------------------
hyCloseCall ==
    /\ hyClose = "idle"
    /\ hyClose' = "waiting"
    /\ hyStop' = {e \in HyEntries : hyCall[e] = "returned"}
    /\ UNCHANGED <<hyCall, hyCh, hyMu, hyBatch, hyWriter, hyDb, hyLost, hyDropped>>

hyCloseReturn ==
    /\ hyClose = "waiting" /\ hyWriter = "done"
    /\ hyClose' = "returned"
    /\ UNCHANGED <<hyCall, hyCh, hyMu, hyBatch, hyWriter, hyStop, hyDb, hyLost, hyDropped>>

\* AppendHistory: its own connection, transaction and deadline.
AppendHistory(a) ==
    /\ a \notin hyDb \cup hyLost
    /\ \/ hyDb' = hyDb \cup {a} /\ UNCHANGED hyLost
       \/ hyLost' = hyLost \cup {a} /\ UNCHANGED hyDb
    /\ UNCHANGED <<hyCall, hyCh, hyMu, hyBatch, hyWriter, hyStop, hyClose, hyDropped>>

HistoryNext ==
    \/ \E e \in HyEntries : enqueue(e) \/ dropOldest(e) \/ andEnqueue(e)
    \/ \E a \in HyAppends : AppendHistory(a)
    \/ hyTake \/ hyTick \/ hySeesStop \/ drainAndFlush \/ hyCloseCall \/ hyCloseReturn

HistorySpec == HistoryInit /\ [][HistoryNext]_historyVars

-----------------------------------------
(* Properties. *)

Queued == HyRange(hyCh) \cup HyRange(hyBatch)

\* Every entry whose Record returned is in one place only: queued, written or
\* given up (evicted, refused, in a failed batch); and once Close has returned,
\* none that was recorded before it was called is still queued, whichever
\* Records race with the last drain (enqueue, dropOldestAndEnqueue, writer,
\* drainAndFlush, Close).
HistoryAccounted ==
    /\ Len(hyCh) + Len(hyBatch) = Cardinality(Queued)
    /\ Queued \cap (hyDb \cup hyLost) = {} /\ hyDb \cap hyLost = {}
    /\ \A e \in HyEntries : hyCall[e] = "returned" => e \in Queued \cup hyDb \cup hyLost
    /\ hyClose = "returned" => hyStop \cap Queued = {}
=============================================================================
