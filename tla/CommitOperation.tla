--------------------------- MODULE CommitOperation ---------------------------
(***************************************************************************)
(* Committing staged cell edits: the cell editor and the grid it samples    *)
(* (pkg/gui/grid/view.go, pkg/gui/orchestrator/cell_editor_adapters.go),    *)
(* the asynchronous commit operation and its owner                          *)
(* (pkg/gui/orchestrator/commit_operation_lifecycle.go), the transaction    *)
(* CellApplyHelper runs (pkg/gui/controllers/helpers/cell_apply_helper.go), *)
(* and a table on the server that other sessions write too.                 *)
(*                                                                          *)
(* The operation runs on its own goroutine: execute, settle the grid,      *)
(* settle the set, publish on the main loop. Everything else is an event of*)
(* the main loop. A value on the server is the intent (the stage) that wrote*)
(* it; a key is itself. An UPDATE locks its row until COMMIT and writes of *)
(* other sessions to other rows commute with it, so the transaction is one *)
(* step.                                                                   *)
(***************************************************************************)
EXTENDS PendingEdits, Sequences

CONSTANTS Rows,        \* physical rows of the table
          KeyCol,      \* the primary-key column
          FirstKeys,   \* the key each row starts with
          MaxForeign,  \* bound: writes of other sessions
          MaxLoads     \* bound: loads of the grid after the first

Ops == Snapshots
Intents == 1..MaxRevision
Nil == MaxRevision + MaxForeign + 1  \* no value: NULL, or a row that is gone
DataCols == Cols \ {KeyCol}

\* OldValue, and whether it was staged after the release of a commit that its
\* sample had not seen; NewValue with its intent.
Vals == 0..Nil \cup Keys
OldValues == [val : Vals, late : BOOLEAN]
NewValues == [intent : Intents, key : Keys]
\* A row of a result; a row that is not there is None.
Shown == [key : Keys, vals : [DataCols -> Vals]]

ASSUME CommitAssumption ==
    /\ KeyCol \in Cols
    /\ Keys \subseteq Nat \ {0}
    /\ None \notin Keys \cup Shown
    /\ FirstKeys \in [Rows -> Keys]
    /\ \A q, r \in Rows : FirstKeys[q] = FirstKeys[r] => q = r
    /\ MaxForeign \in Nat
    /\ Olds = OldValues
    /\ News = NewValues

VARIABLES
    keyOf,     \* server: the key of a row, None once another session deleted it
    value,     \* server: the values of a row's other columns
    applied,   \* history: how often an intent was committed
    foreign,   \* history: how many writes other sessions made
    grid,      \* the result grid of the table
    loading,   \* rows a query has read and the grid does not show yet
    editor,    \* the open cell editor's sample, or None
    dialog,    \* the conflicts the conflict dialog shows
    op         \* per operation: its state

serverVars == <<keyOf, value, applied, foreign>>
uiVars == <<grid, loading, editor, dialog>>
vars == <<setVars, serverVars, uiVars, op>>

\* A row as a result shows it; None when it is not there.
Image(k, v) == [r \in Rows |-> IF k[r] = None THEN None
                               ELSE [key |-> k[r], vals |-> v[r]]]
ServerImage == Image(keyOf, value)

CellValue(shown, c) == IF c = KeyCol THEN shown.key ELSE shown.vals[c]

NoRows == [r \in Rows |-> None]
IdleOp == [state |-> "idle", kind |-> None, gen |-> 0, out |-> None, moves |-> {},
           conflicts |-> {}, fetched |-> NoRows]

Conflict == [edit : Edit, val : Vals]
GridRows == [Rows -> Shown \cup {None}]
Grid == [gen : Nat, base : Nat, ok : BOOLEAN, ident : Idents, rows : GridRows]
Sample == [pk : Keys, col : Cols, val : Vals, base : Nat,
           ident : Idents, stale : BOOLEAN]
Operation == [state : {"idle", "execute", "grid", "settle", "publish"},
              kind : {"apply", "dryrun", "overwrite", None}, gen : Nat,
              out : {"committed", "failed", "unknown", "conflict", "dry", None},
              moves : SUBSET Move, conflicts : SUBSET Conflict, fetched : GridRows]

TypeOK ==
    /\ SetTypeOK
    /\ keyOf \in [Rows -> Keys \cup {None}]
    /\ value \in [Rows -> [DataCols -> Vals]]
    /\ applied \in [Intents -> Nat]
    /\ foreign \in 0..MaxForeign
    /\ grid \in Grid
    /\ loading \in GridRows \cup {None}
    /\ editor \in Sample \cup {None}
    /\ dialog \subseteq Conflict
    /\ op \in [Ops -> Operation]

Init ==
    /\ SetInit
    /\ keyOf = FirstKeys
    /\ value = [r \in Rows |-> [c \in DataCols |-> 0]]
    /\ applied = [i \in Intents |-> 0]
    /\ foreign = 0
    /\ \E id \in Idents :
         grid = [gen |-> 0, base |-> 0, ok |-> TRUE, ident |-> id, rows |-> ServerImage]
    /\ loading = None
    /\ editor = None
    /\ dialog = {}
    /\ op = [o \in Ops |-> IdleOp]

-----------------------------------------
(* The cell editor and the other main-loop events that change the set. *)

IntentsOf(S) == {e.new.intent : e \in S}

\* A commit of the rows this grid shows is durable and the grid shows the rows
\* as they were before it.
Overtaken ==
    \E o \in Ops : /\ op[o].state = "grid" /\ op[o].out = "committed"
                   /\ op[o].gen = grid.gen

\* Opening the editor samples value, key, baseline and identity of the cell.
OpenEditor(r, c) ==
    /\ dialog = {}
    /\ editor = None
    /\ grid.ok
    /\ grid.rows[r] # None
    /\ editor' = [pk |-> grid.rows[r].key, col |-> c,
                  val |-> CellValue(grid.rows[r], c), base |-> grid.base,
                  ident |-> grid.ident, stale |-> Overtaken]
    /\ UNCHANGED <<setVars, serverVars, grid, loading, dialog, op>>

\* Leaving it with the text unchanged, or cancelling it on a clean cell.
CloseEditor ==
    /\ editor # None
    /\ editor' = None
    /\ UNCHANGED <<setVars, serverVars, grid, loading, dialog, op>>

\* Mutant: the sample is not checked against the grid's baseline.
BaselineUnchecked == grid.ok

\* WithEditBaseline: the sample is still what the grid shows.
BaselineHolds == grid.ok /\ editor.base = grid.base

\* Saving stages the edit while the grid's lock keeps the baseline still.
SaveEdit(k) ==
    /\ dialog = {}
    /\ editor # None
    /\ BaselineHolds
    /\ (editor.col = KeyCol) <=> (k # editor.pk)
    /\ AddWithIdentity(editor.ident, editor.pk, editor.col,
           [val |-> editor.val, late |-> editor.stale /\ attempt = None],
           [intent |-> nextRevision + 1, key |-> k])
    /\ editor' = None
    /\ UNCHANGED <<serverVars, grid, loading, dialog, op>>

\* Cancelling the editor on a staged cell takes the staged edit back.
CancelEdit ==
    /\ dialog = {}
    /\ editor # None
    /\ BaselineHolds
    /\ RemoveWithIdentity(editor.ident, editor.pk, editor.col)
    /\ editor' = None
    /\ UNCHANGED <<serverVars, grid, loading, dialog, op>>

DiscardAtCursor(r, c) ==
    /\ dialog = {}
    /\ grid.rows[r] # None
    /\ RemoveWithIdentity(grid.ident, grid.rows[r].key, c)
    /\ UNCHANGED <<serverVars, uiVars, op>>

\* Mutant: discarding everything starts the set over.
DiscardAllAnew ==
    /\ dialog = {}
    /\ edits # {}
    /\ edits' = {} /\ nextRevision' = 0
    /\ UNCHANGED <<identity, attempt, commitEdits, unknown, unknownMoves, reservedAt,
                   serverVars, uiVars, op>>

DiscardAll ==
    /\ dialog = {}
    /\ edits # {}
    /\ Clear
    /\ UNCHANGED <<serverVars, uiVars, op>>

BaselineAfter == grid.base + 1

\* A query reads the table; the grid installs schema, rows and editability
\* some time later, perhaps under another identity (the table was made anew).
LoadRead ==
    /\ loading = None
    /\ grid.gen < MaxLoads
    /\ loading' = ServerImage
    /\ UNCHANGED <<setVars, serverVars, grid, editor, dialog, op>>

LoadInstall(id) ==
    /\ loading # None
    /\ grid' = [gen |-> grid.gen + 1, base |-> BaselineAfter, ok |-> TRUE,
                ident |-> id, rows |-> loading]
    /\ loading' = None
    /\ UNCHANGED <<setVars, serverVars, editor, dialog, op>>

-----------------------------------------
(* The operation: captured on the main loop ... *)

\* capture: reserves the rows and remembers the grid's generation.
Capture(o, kind, selected) ==
    /\ op[o].state = "idle"
    /\ grid.ok
    /\ identity = grid.ident
    /\ BeginCommit(o, selected)
    /\ op' = [op EXCEPT ![o].state = "execute", ![o].kind = kind, ![o].gen = grid.gen]
    /\ UNCHANGED <<serverVars, grid, loading, editor>>

StartApply(o) == dialog = {} /\ Capture(o, "apply", edits) /\ UNCHANGED dialog
StartDryRun(o) == dialog = {} /\ Capture(o, "dryrun", edits) /\ UNCHANGED dialog
StartOverwrite(o) ==
    /\ dialog # {}
    /\ Capture(o, "overwrite", {c.edit : c \in dialog})
    /\ dialog' = {}

(* ... executed on its own goroutine. *)

\* Rows of the batch in the order of their first edit (BuildUpdateBatch).
SlotOf(pk) ==
    CHOOSE p \in {e.pos : e \in {d \in commitEdits : d.pk = pk}} :
        \A e \in commitEdits : e.pk = pk => p <= e.pos
Before(q, p) == SlotOf(q) <= SlotOf(p)
Batch ==
    LET pks == PKs(commitEdits)
    IN  [n \in 1..Cardinality(pks) |->
           CHOOSE p \in pks : Cardinality({q \in pks : Before(q, p)}) = n]
DuplicateColumn ==
    \E d, e \in commitEdits : d # e /\ d.pk = e.pk /\ d.col = e.col

OldValueMatches(t, r, e) ==
    e.old.val = (IF e.col = KeyCol THEN t.key[r] ELSE t.val[r][e.col])

Group(pk) == {e \in commitEdits : e.pk = pk}

\* The key the UPDATE of a row leaves it with, which RETURNING reports.
KeyAfter(pk) ==
    IF \E e \in Group(pk) : e.col = KeyCol
    THEN (CHOOSE e \in Group(pk) : e.col = KeyCol).new.key ELSE pk

Moves == {<<pk, KeyAfter(pk)>> : pk \in PKs(commitEdits)}

\* One UPDATE in the transaction's state t: no row matched, two rows would
\* share a key, or the row takes the values and perhaps another key.
Update(kind, t, pk) ==
    LET there == {r \in Rows : t.key[r] = pk}
        hit == {r \in there : kind = "overwrite"
                              \/ \A e \in Group(pk) : OldValueMatches(t, r, e)}
        serverValue(e) ==
            IF there = {} THEN Nil
            ELSE LET r == CHOOSE q \in there : TRUE
                 IN IF e.col = KeyCol THEN t.key[r] ELSE t.val[r][e.col]
    IN  IF hit = {}
        THEN IF kind = "overwrite" THEN [t EXCEPT !.failed = TRUE]
             ELSE IF kind = "dryrun" THEN t
             ELSE [t EXCEPT !.conflicts = @ \cup
                      {[edit |-> e, val |-> serverValue(e)] : e \in Group(pk)}]
        ELSE IF \E r \in Rows \ hit : t.key[r] = KeyAfter(pk)
        THEN [t EXCEPT !.failed = TRUE]
        ELSE LET r == CHOOSE q \in hit : TRUE
             IN [t EXCEPT !.key[r] = KeyAfter(pk),
                          !.val[r] = [c \in DataCols |->
                              IF \E e \in Group(pk) : e.col = c
                              THEN (CHOOSE e \in Group(pk) : e.col = c).new.intent
                              ELSE @[c]]]

\* The UPDATEs of the batch one after the other.
Transaction(kind) ==
    LET after[n \in 0..Len(Batch)] ==
          IF n = 0 THEN [key |-> keyOf, val |-> value, conflicts |-> {},
                         failed |-> DuplicateColumn]
          ELSE Update(kind, after[n - 1], Batch[n])
    IN  after[Len(Batch)]

Receipt(o, out, moves) ==
    op' = [op EXCEPT ![o].state = "grid", ![o].out = out, ![o].moves = moves]

\* COMMIT took effect.
Durable(t) ==
    /\ keyOf' = t.key
    /\ value' = t.val
    /\ applied' = [i \in Intents |->
                     applied[i] + (IF i \in IntentsOf(commitEdits) THEN 1 ELSE 0)]

\* An error or a cancellation before COMMIT; the driver may also panic, which
\* leaves the outcome of anything but a dry run unknown.
ExecuteFails(o) ==
    /\ op[o].state = "execute"
    /\ \/ Receipt(o, "failed", {})
       \/ op[o].kind # "dryrun" /\ Receipt(o, "unknown", {})
    /\ UNCHANGED <<setVars, serverVars, uiVars>>

\* Rolled back: conflicts, or a dry run.
ExecuteRollsBack(o) ==
    LET t == Transaction(op[o].kind)
    IN  /\ op[o].state = "execute"
        /\ ~t.failed
        /\ \/ t.conflicts # {}
           \/ op[o].kind = "dryrun"
        /\ op' = [op EXCEPT ![o].state = "grid", ![o].conflicts = t.conflicts,
                    ![o].out = IF t.conflicts # {} THEN "conflict" ELSE "dry"]
        /\ UNCHANGED <<setVars, serverVars, uiVars>>

\* The rows the refetch can bring: all of them or, when it fails or misses the
\* key of one (a later UPDATE of the batch may have moved the row on), none.
Refetch(t) ==
    {NoRows} \cup {rows \in {Image(t.key, t.val)} :
                     \A m \in Moves : \E r \in Rows : t.key[r] = m[2]}

\* COMMIT succeeds; the refetch of the rows may not.
ExecuteCommits(o) ==
    LET t == Transaction(op[o].kind)
    IN  /\ op[o].state = "execute"
        /\ ~t.failed /\ t.conflicts = {} /\ op[o].kind # "dryrun"
        /\ Durable(t)
        /\ \E rows \in Refetch(t) :
             op' = [op EXCEPT ![o].state = "grid", ![o].out = "committed",
                              ![o].moves = Moves, ![o].fetched = rows]
        /\ editor' = IF editor # None /\ op[o].gen = grid.gen
                     THEN [editor EXCEPT !.stale = TRUE] ELSE editor
        /\ UNCHANGED <<setVars, foreign, grid, loading, dialog>>

\* COMMIT fails: it took effect or not. A panic in the refetch loses the
\* identities too.
ExecuteUnknown(o) ==
    LET t == Transaction(op[o].kind)
    IN  /\ op[o].state = "execute"
        /\ ~t.failed /\ t.conflicts = {} /\ op[o].kind # "dryrun"
        /\ \/ Durable(t) /\ Receipt(o, "unknown", Moves)
           \/ Durable(t) /\ Receipt(o, "unknown", {})
           \/ UNCHANGED <<keyOf, value, applied>> /\ Receipt(o, "unknown", Moves)
        /\ UNCHANGED <<setVars, foreign, uiVars>>

\* SettleCommittedRows: a grid that was attached anew is left alone; otherwise
\* the refetched rows replace the rows of the original keys, and unless every
\* one found its row the grid stops being editable.
SettleGrid(o) ==
    LET m(r) == {n \in op[o].moves : n[1] = grid.rows[r].key}
        touched == {r \in Rows : grid.rows[r] # None /\ m(r) # {}}
        image(k) == op[o].fetched[CHOOSE q \in Rows : op[o].fetched[q] # None
                                                  /\ op[o].fetched[q].key = k]
        fetched == op[o].fetched # NoRows
        editable == grid.ok /\ fetched /\ Cardinality(touched) = Cardinality(op[o].moves)
        rows == IF fetched
                THEN [r \in Rows |-> IF r \in touched
                                     THEN image((CHOOSE n \in m(r) : TRUE)[2])
                                     ELSE grid.rows[r]]
                ELSE grid.rows
    IN  /\ op[o].state = "grid"
        /\ op' = [op EXCEPT ![o].state = "settle", ![o].fetched = NoRows]
        /\ grid' = IF op[o].out = "committed" /\ op[o].gen = grid.gen
                   THEN [grid EXCEPT !.base = BaselineAfter, !.ok = editable, !.rows = rows]
                   ELSE grid
        /\ UNCHANGED <<setVars, serverVars, loading, editor, dialog>>

\* Mutant: a COMMIT without an answer is settled like one that succeeded.
SettleSetHopeful(o) ==
    /\ op[o].state = "settle"
    /\ SettleCommit(o, op[o].out \in {"committed", "unknown"}, FALSE, op[o].moves)
    /\ op' = [op EXCEPT ![o].state = "publish", ![o].moves = {}]
    /\ UNCHANGED <<serverVars, uiVars>>

\* The mandatory settlement, view or no view.
SettleSet(o) ==
    /\ op[o].state = "settle"
    /\ SettleCommit(o, op[o].out = "committed", op[o].out = "unknown", op[o].moves)
    /\ op' = [op EXCEPT ![o].state = "publish", ![o].moves = {}]
    /\ UNCHANGED <<serverVars, uiVars>>

\* On the main loop, if connection and result are still the captured ones:
\* conflicts open their dialog.
Publish(o) ==
    /\ op[o].state = "publish"
    /\ op' = [op EXCEPT ![o] = IdleOp]
    /\ dialog' = IF op[o].gen = grid.gen /\ op[o].out = "conflict"
                 THEN op[o].conflicts ELSE dialog
    /\ UNCHANGED <<setVars, serverVars, grid, loading, editor>>

-----------------------------------------
(* The conflict dialog, reconciliation, other sessions. *)

\* Refresh: the conflicted edits are dropped and the server's values shown (a
\* row that is gone loses its key and cannot be addressed any more).
RefreshConflicts ==
    /\ dialog # {}
    /\ DiscardOwned({c.edit : c \in dialog})
    /\ LET mine(r) == {c \in dialog : /\ grid.rows[r] # None
                                     /\ c.edit.pk = grid.rows[r].key
                                     /\ c.edit.ident = grid.ident}
           server(r) ==
             IF mine(r) = {} THEN grid.rows[r]
             ELSE IF \E c \in mine(r) : c.edit.col = KeyCol /\ c.val = Nil THEN None
             ELSE [grid.rows[r] EXCEPT !.vals = [d \in DataCols |->
                     IF \E c \in mine(r) : c.edit.col = d
                     THEN (CHOOSE c \in mine(r) : c.edit.col = d).val ELSE @[d]]]
       IN  grid' = IF \A r \in Rows : mine(r) = {} THEN grid
                   ELSE [grid EXCEPT !.base = BaselineAfter,
                                     !.rows = [r \in Rows |-> server(r)]]
    /\ dialog' = {}
    /\ UNCHANGED <<serverVars, loading, editor, op>>

DismissDialog ==
    /\ dialog # {}
    /\ dialog' = {}
    /\ UNCHANGED <<setVars, serverVars, grid, loading, editor, op>>

\* Somebody looked at the server and says what he saw.
Reconcile ==
    /\ ReconcileCommitOutcome(\E e \in unknown : applied[e.new.intent] > 0)
    /\ UNCHANGED <<serverVars, uiVars, op>>

ForeignWrite(r, c) ==
    /\ foreign < MaxForeign
    /\ keyOf[r] # None
    /\ value' = [value EXCEPT ![r][c] = MaxRevision + foreign + 1]
    /\ foreign' = foreign + 1
    /\ UNCHANGED <<setVars, keyOf, applied, uiVars, op>>

ForeignDelete(r) ==
    /\ foreign < MaxForeign
    /\ keyOf[r] # None
    /\ keyOf' = [keyOf EXCEPT ![r] = None]
    /\ foreign' = foreign + 1
    /\ UNCHANGED <<setVars, value, applied, uiVars, op>>

Next ==
    \/ \E r \in Rows, c \in Cols : OpenEditor(r, c) \/ DiscardAtCursor(r, c)
    \/ CloseEditor \/ CancelEdit
    \/ \E k \in Keys : SaveEdit(k)
    \/ DiscardAll
    \/ LoadRead \/ \E id \in Idents : LoadInstall(id)
    \/ \E o \in Ops : \/ StartApply(o) \/ StartDryRun(o) \/ StartOverwrite(o)
                      \/ ExecuteFails(o) \/ ExecuteRollsBack(o)
                      \/ ExecuteCommits(o) \/ ExecuteUnknown(o)
                      \/ SettleGrid(o) \/ SettleSet(o) \/ Publish(o)
    \/ RefreshConflicts \/ DismissDialog
    \/ Reconcile
    \/ \E r \in Rows : ForeignDelete(r) \/ \E c \in DataCols : ForeignWrite(r, c)

Spec == Init /\ [][Next]_vars

-----------------------------------------
(* Properties. *)

\* No staged intent is written to the server twice: not by a retry after a
\* COMMIT whose answer was lost, not by a survivor of a commit, not by an
\* overwrite of what an earlier commit already wrote. (An expression edit such
\* as n + 1 would be applied twice.)
AppliedOnce == \A i \in Intents : applied[i] <= 1

\* A settlement or a reconciliation takes an intent out of the set only when it
\* is on the server; anything else that leaves is discarded or replaced by the
\* user, who leaves the attempt and the unknown outcome alone.
NothingLost ==
    [][\A i \in IntentsOf(edits) \ IntentsOf(edits') :
         applied[i] > 0 \/ (attempt' = attempt /\ unknown' = unknown)]_vars

\* No edit is staged from a sample older than a commit that the sampled grid
\* has been through: the grid's baseline moves before the rows are released.
StagedOnSettledBaseline == \A e \in edits : ~e.old.late
=============================================================================
