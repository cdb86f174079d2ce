# Verification of pgsavvy

pgsavvy is a vim-style terminal client for PostgreSQL, with a JSON command line
beside it. What is hard to test in it is where goroutines, the main loop and the
server meet (one database session shared by every query, results that stream
into a grid while the user goes on typing, staged edits committed in the
background, connections dialled, retired and replaced on workers) and where long
sequences of keys meet results that come late. Those parts are specified here in
TLA+, checked with TLC on small instances and, for eleven of the components,
proved with TLAPS for instances of any size.

## 1. The system

| Part (source) | State it keeps | Operations | Talks to |
|---|---|---|---|
| SQL session (`pkg/session/sql_session.go`, `run_handle.go`, `cancel_registry.go`, `pkg/drivers/pg/session.go`, `pg_row_stream.go`) | queue mutex `streamMu`, active run, cancel registry, driver guard `inFlight`, preempt fence, closed/disconnected flags | Execute, Explain, Stream, Begin, Cancel, MarkPreemptPending, Close | driver, notices, history, query runner |
| Notice plumbing (`pkg/drivers/pg/notice.go`, session fan-out) | subscriber channel, per-run channel, flush barrier | route, fan-out, flush, drain | driver callback → session → run → reader |
| Result buffer (`pkg/tasks/result_buffer_manager.go`) | current task, its stop channel, row requests, completion with pending batches and waiters | NewQueryTask, Stop, ReadRows, ReadToEndWithCompletion | a run's row stream, UI publisher, result tabs |
| UI publisher (`pkg/gui/orchestrator/gocui_driver.go`) | FIFO of accepted publications | publish, settle, retire | main loop |
| Pending edits (`pkg/models/pending_edit.go`) | staged edits with revisions, the open attempt, unknown outcomes, identity | Add, Remove, Clear, DiscardOwned, BeginCommit, SettleCommit, ReconcileCommitOutcome | cell editor, commit operation |
| Commit operation (`orchestrator/commit_operation_lifecycle.go`, `helpers/cell_apply_helper.go`, `commit_sql_builder.go`) | captured batch, receipt, generation | StartApply, StartDryRun, Overwrite, execute, settle, publish | set, grid, session, dialogs |
| Query runner (`helpers/data/query_runner.go`, `bound_query.go`) | binding, `last` slot, launch queue, run indicator | run, batch, explain, bound query, Cancel, Bind, Unbind, quit | session, result tabs |
| Connect helper (`helpers/data/connect_helper.go`) | metadata session, work queue, function cache | Connect, Disconnect, submit, bound loads | driver, schema rails, warmer |
| Connection lifecycle (`orchestrator/adapters.go`, `gui.go`) | generation, owner, `ioMu`, modal | connect, reconnect, cancel, retire, delete, Close | helper, runner, commits |
| Transactions (`pkg/drivers/pg/transaction.go`, `session.go`, `quit_controller.go`) | handles, savepoints, sampled status | Begin … RollbackTo, quit | server |
| Application state store (`pkg/common/app_state_store.go`) | state, debounce ticket, counts | MutateAndSave, Save, Load, Flush, Close | file |
| History (`pkg/query/history.go`) | bounded queue, writer | Record, AppendHistory, Close | session, SQLite |
| Schema warmer (`helpers/data/schema_warmer.go`) | key states, epoch, store | Warm, LoadEager, Invalidate, Reset | metadata session, completion |
| Machine execution (`pkg/drivers/pg/machine*.go`) | transport, tunnel, transaction, reported outcome | open, query, execute, abort, close | server, CLI |
| Result tabs and exports (`helpers/ui/result_tabs_helper.go`, `exporter/`) | tabs, jump list, exports, overlay | open, stream, sort, jump, export, close | runner, buffer |
| Editor (`controllers/vim_editor_controller.go`, `gui/editor`) and its persistence | buffer, undo tree, registers, mode; save chain | keys; save, acknowledge, flush, load | completion, file |
| Completion (`gui/editor/completion*.go`, `sqlcontext`) | popup, loaded catalogue | trigger, move, accept, warm | editor, warmer |
| Key matcher (`gui/keys`) | trie, pending chord, timer, hint | press, timeout, click, reload | every handler |
| Grid (`gui/grid`) | rows, cursor, columns, search, selection | move, search, yank, hide, append | buffer, edits |
| Plans and EXPLAIN (`drivers/pg/plan.go`, `query/plandoctor`, `plan_context.go`) | tree, folding, findings; the launch | keys; explain, wrap, retry | runner, session |
| Dialogs and popups (`context`, `controllers`, `orchestrator`) | focus stack, prompts, dialogs, form, picker, relations, settings | keys, callbacks, late results | workers, files |

`PROJECT.json` lists every part, with the reason for those that are not
modelled, and under `hazards` the places where the code is hard to test, each
with the property that would notice it going wrong or a note on why none does.

What makes the core parts correct, in one line each:

- session: one operation in the driver at a time, whoever frees the queue; every
  run's notices settled before its channel closes; one history record for each
  statement whose caller did not suppress it, written once; Close always returns.
- result buffer: "complete" only for a result that is wholly on the grid; a
  waiter is told once; one stream at a time; Stop returns even when the server
  does not answer.
- edits: a staged intent is applied at most once and never lost, whatever happens
  to the answer of COMMIT; nothing is staged from a sample that a commit has overtaken.
- runner: every statement answered once, every stream with one party that closes
  it, no cancel on a younger statement than the one it was meant for.
- connections: what was opened belongs to somebody who will close it, and nobody
  works on a connection that was retired.
- store: a save is never lost, reordered or reported early.

## 2. Modules

| Module | Models | Role |
|---|---|---|
| `NoticeFanout` | `NoticeRouter.route`, `fanOutNotices`, `drainNoticesInto`, `RunHandle.routeNotice`, the reader | component |
| `SQLSession` (extends `NoticeFanout`) | the serializer, run handle, registry, guard, fence, history hand-off, Close | component, composed with its notices |
| `QueryService` | a service that runs one call at a time and records it at most once | abstract specification of `SQLSession` |
| `UIPublisher` | the publisher queue and its loop | component |
| `ResultBuffer` (extends `UIPublisher`) | the manager, its workers, completions and waiters | component, composed with the publisher |
| `PendingEdits` | every method of `PendingEditSet` the program calls; `SetSpec` is "used only through its methods" | component, and abstract specification of its users |
| `CommitOperation` (extends `PendingEdits`) | editor, grid, operation, transaction, table, other sessions | composition; implements `SetSpec` |
| `QueryRunner` | launcher, last-wins slots, wire cancels, batches, bound results, synchronous run, Bind/Unbind, quit, Close | component |
| `ConnectHelper` | the metadata session, its queue, worker, bindings and cache | component |
| `ConnectionLifecycle` (extends `ConnectHelper`) | attempts, owner, publication, retirement, reconnect, delete, Close | component, composed with the helper |
| `Transactions` | handles, savepoints, typed control statements, sampled status, the quit dialog | component |
| `AppStateStore` | debounced and direct saves, Load, Flush, Close | component |
| `QueryHistory` | queue, eviction, writer, Close, direct appends | component |
| `SchemaWarmer` | claims, warms, eager loads, invalidations, resets | component |
| `MachineClient` | candidates, tunnel, abort, atomic script, statement, outcomes | component |
| `EditorText`, `VimEditor` | motions, objects and edits of a text; modes, operators, undo tree, popup | pure operators; component |
| `BufferPersistence` | chained saves, acknowledgements, the flush of Close, loads | component |
| `ResultTabs`, `ResultExport` | tabs and their streams, sorts, jumps; exports and the column overlay | components |
| `KeyMatcher` | the trie's construction, chords, counts, registers, timer, hint, reload | component |
| `GridView` | cursor, scrolling, both layouts, columns, search, selection, yank | component |
| `ConnectionManager` | list, form, probe, checklist, and two programs saving one file | component |
| `FilePicker`, `Popups`, `EditDialogs`, `RelationPanel`, `Settings` | the popups with their callbacks and workers | components |
| `SqlContext`, `Completion` | tokens, clause, scope; sources, ranking, popup, accept | pure operators; component |
| `PlanView`, `ExplainRun` | tree, doctor, view; the explain launch and its transaction | components |
| `MCSQLSession`, `MCResultBuffer`, `MCCommitOperation` | symmetry sets and constant values | instances for TLC |
| `MCBackground`, `MCFrontend` | the components that share no state with each other, side by side | instances for TLC |
| `…Proofs` (eight) | theorems, see 5 | proofs |

### How state and steps correspond

*Session.* An element of `Calls` is a goroutine making one call. `pc` is where
that call stands between the points at which another goroutine can see a
difference: `lock` (blocked on `streamMu`), `entering` (about to call the
driver), `wire`/`open` (in the driver, stream handed out), `flush`, `release`,
`closing` (the phases of `onFinish`), `erring`, `errtail` (Stream's error path).
A step that takes no lock and touches nothing shared is folded into its
neighbour; emptying `runActive` and unregistering the run are two. A call whose
context suppresses logging (`silent`) runs like any other and writes no history.
`Execute`, `Explain` and `Begin` share actions because their bodies
differ only in what they record. A failed row decode is an outcome of its own,
since `pgRowStream.Next` does not release the guard on it.

*Notices.* A notice is the call that raised it and a number. `RouteLookup` and
`RouteSend` are two steps, as the code drops the lock between them; the fan-out's
receive, its read of `runActive` and its routing are three. Channels are bounded
sequences. `routeNotice` is its own steps (send, and on a full channel evict, then
send again), and the reader may take an entry between any two of them.

*Result buffer.* An element of `Tasks` is one `NewQueryTask` call and its worker,
of `Waiters` one `ReadToEndWithCompletion` call, of `Stoppers` one `Stop`. What a
call reads under `mu` and uses after unlocking is kept in `prior`/`stopOf`. A row
is its index, so `view` being `1..n` means nothing was lost, doubled or swapped.
`SerialLaunch` says that launches come from one goroutine, as `startStreaming`
makes them.

*Edits.* An edit is a record with revision, slot (its place in the slice), key,
column, identity, the value it was sampled from and the value it writes. On the
server a row is a model value with a key and, per column, the intent that last
wrote it; so "applied twice" is visible, and so is a row that changed its key. The
transaction is one step: an UPDATE locks its row until COMMIT, and writes of
others to other rows commute with it. The operation's goroutine takes execute,
grid settlement, set settlement and publication as separate steps, with the main
loop free to act between them.

*Query runner.* The UI thread (`ui`), the launcher (`run`), the retiring worker,
one goroutine per wire cancel (`cancels`) and per disposed result each have a
position; a step is what one of them does between two reads of state the others
write. `last` is the slot pointer with its handle, so a compare-and-swap compares
the whole value. A cancel request acts on whatever the backend executes before
`CancelCurrent` returns. Callbacks of the UI loop are taken in any order, since
two of them may come from different goroutines. The preempt hook and
`MarkPreemptPending` are one step; the wrapping transaction of a run-all,
`WorkAsync` and a session without live cancel are left out.

*Connections.* An owner is named by the job that dialled it, a job is what one
`OnWorker` goroutine does, `Closer` is `Gui.Close` on the main goroutine. `ioMu`
is held across a dial or a retirement; publication is a closure on the UI queue
that compares generations when it runs. `meta[s]` is one `connectState` with its
queue and worker; a load is a caller of `submit` waiting for its answer, or for
its context. `Connect` and `Disconnect` are operators that the lifecycle's jobs
perform under `ioMu`.

*Store.* A mutation is its ticket number; the state in memory and on disk is the
number of the last mutation in it and the two representations of one setting, so
"older written over newer" is visible. Every writer has a position and the
snapshot it took. A timer that fires late is a ticket whose writer starts after
its successor was armed.

*History, warmer, machine client, transactions.* A history entry is its call, and
is at any time in the queue, a batch, the table or among the lost. What a warm
read is the connection it was read on and the number of DDL statements before it.

*Machine client.* Its server is external: a message sent before the transport is
cut may or may not have been processed. `mxSrv` is the server's state (idle, in a
transaction, in a failed one) and `mxCommitted` whether it committed. A dial whose
tunnel broke closes it, opens another and looks for the abort again, each a step
of its own (`mxDialStart`, `mxRestarted`), and a late dial is judged by its own
timeout. An atomic script sets its timeouts, and a failure of that
is an error path too; a refused COMMIT is reported as rolled back from an idle
server and as unknown from one that is still in the transaction.

*Transactions.* Handles, their savepoints (a set: the tracked list's order is only
displayed, and releasing removes every entry of the name) and the status sampled
after a statement are separate from the server's own stack. Begin and statements
hold the session's queue; Commit, Rollback and the savepoint calls do not, so the
commands, the launcher and the closer each have a position and interleave. pgx
marks a transaction closed by any Commit or Rollback it tried, also one that
failed, and cuts a connection left in doubt. `ObserveError` is a step after the
end of its statement, so it may find the handle changed.

*The interface.* Each component of `MCFrontend` has one variable, a record, because its code
runs on the UI goroutine and a key or a callback is one step. What comes late
(a chord timer, a saved buffer's acknowledgement, a count, a completion of a
stream, an answer of a probe) is in a set of the record until the UI goroutine
takes it. Texts are sequences of runes where the component computes with them
(editor, completion, grid, keys), and tokens elsewhere.

### What the models abstract

- Editor: a topic pairs a text with the motions, objects and operators tried on
  it; clipboard writes succeed; no named registers, jump list, yank flash, or
  guard for large documents.
- Tabs: `Stop` posts the completion before it returns; events of disposed tabs are
  dropped; one sort column. Exports have two columns.
- Keys: timer callbacks are live or stale, their sequence numbers are not kept;
  `timeoutlen` is positive; when the hint shows is not modelled, which prefix is.
- Grid: topics restrict which operations mix; no cell formatting, yank encodings
  or frozen column.
- Connection manager: `host` stands for host, port, user, database and sslmode;
  an update's last check and its rename are one step.
- File picker: one link; a query is the set of names it matches.
- Popups: contexts of walks are never cancelled; a connection may ask for a secret
  at any time; delete's write and reload are one step.
- Edit dialogs: edited values and the server's outcome are nondeterministic; any
  tab may come to front and any popup may replace the present one.
- Relationship panel: one connection, single-column keys, cacheable values.
- Settings: a field is its name, kind, and the values its setter and validation
  take; a binding's modes are a set.
- Completion: one line, keywords one rune each, a reserved word in lower case opens
  no clause, names in lower case, candidate cap not reached, the cool-down of a failed warm does not expire.
- Plan view: numbers only as far as the rules read them. EXPLAIN: one binding,
  session calls atomic.

## 3. Runs

All constants not named are model values. `CHECK_DEADLOCK FALSE` is set
throughout: calls and inputs are finite, so every instance ends when they are used up.

| Run | Instance | Shows |
|---|---|---|
| `session_safety` | 2 calls of any method, channels of one place, 2 notices | the queue serializes; guard, registry and history follow it; the barrier settles notices, in order; `QueryService` is implemented |
| `session_live` | 2 calls, stream and explain, 1 notice | Close returns and a finish completes with no help from server or consumer; if the server answers, admitted calls settle |
| `session_fence` | 2 streams | *violation*, see 6 |
| `session_guard` | 2 streams | *violation*, see 6 |
| `session_send` | 2 streams, 1 notice | *violation*, see 6 |
| `buffer_delivery` | 1 task of up to 3 rows, 2 waiters, 1 Stop, retirement of the driver | success once, and only for a delivered result; waiters keep a source; the grid is a prefix of the stream |
| `buffer_preempt` | 2 tasks with equal or different keys, 1 waiter | one worker on a stream, no stale manager state, a preempting launch returns |
| `buffer_live` | 1 task of up to 2 rows, 1 waiter, 1 Stop | Stop returns; waiters are answered |
| `edits_commit` | 1 row of 3 columns, 3 stages, 2 foreign writes | nothing applied twice or lost, what was captured unchanged, `SetSpec` |
| `edits_reload` | 2 rows, 3 keys, 2 identities, 2 operations, 1 reload | identities never mixed, one receipt, staging on settled baselines |
| `background` | one of: runner (2 actions, 2 sessions, 1 event), connection life (3 jobs, 2 profiles), metadata loads (2 loads, queue of 1, a connect and a reconnect), store (2 mutations, 1 Save, 2 Closes), history (4 entries, queue of 1), warmer (2 warms of a table, 1 eager load, 1 invalidation, 2 connections), machine client (2 endpoints, tunnel, 2 operations), transactions (2 handles, 1 savepoint name since the property reads none, 6 steps) | one property per component, see below |
| `frontend` | one of the fifteen interface components, under its topics and budgets | one property per group of components |

The properties of `background` and `frontend` are conjunctions of named parts,
each with its own comment in the component's module: `RunsAnswered`,
`CancelsHitTheirRun` (runner), `ConnectionsOwned`, `StoreKeepsPromises`,
`RecordsKept` (history and warmer), `MachineTruth`, `OneHandleEnds`
(transactions); `FrontBuffers` (editor and its saves), `FrontResults` (tabs,
exports), `FrontKeys`, `FrontGrid`, `FrontConnections`, `FrontPrompts`
(file picker, popups), `FrontDialogs`, `FrontRelations`, `FrontSettings`,
`FrontCompletion`, `FrontPlans` (view and EXPLAIN).

### Why the bounds are enough

Two calls suffice for the queue: every conflict is between a holder and one
contender, and the theorems cover any number. Channels of one place make "full"
the common case. Two notices of one run give order and one eviction. Three rows
with an initial fill of two and chunks of one give a fill of several batches, a
pull beyond it and the end inside a request. Two tasks give preemption,
duplication and a completion that was replaced. Three stages on one row are a key
change in flight, a survivor on the old key and an edit on the new one, and two
foreign writes a conflict and another after the overwrite. Two operations are what a publication overtaken by the next
operation needs; the one reload may land anywhere between them.
`MaxRevision` bounds stages and re-keyings together, `MaxForeign` the writes of
other sessions, `MaxLoads` the loads after the first.

In `background` a behaviour picks one component (`focus`) and leaves the others
alone, as they share no state; the run is the sum of their instances. Two
actions are an older and a newer one, which is what "last wins" is about; a
batch is always the first of the two (the second is the newer run that
supersedes it). Three jobs are a connection, the one that replaces it and a
reconnect or retirement in between. Two mutations are one debounce overtaken by
another. Interchangeable loads and closers start in turn. The store starts from
a file with a legacy setting, or a corrupt one. In `frontend` the topics and
budgets of a component say which operations a behaviour mixes; each mix is there
because its operations touch the same part of the component's state. Three
profiles, two of them protected, are what a switch between protected connections
under an open confirmation needs; the completion's catalogue has a reserved word, a
name that needs quotes, and a text whose table has no alias.

## 4. Fairness

Goroutines that can run do run, so their steps are weakly fair
(`SessionFairness`, `GoFairness`). What the environment does is not: the user may
stop, the consumer may stop reading, and the server may never answer. Three
further assumptions appear only where they are needed:

- `LockFairness`: strong fairness of `Lock`, Go's mutex hands over to a starved waiter
  after a millisecond (`sync.Mutex` starvation mode).
- `SelectFairness`: strong fairness of the stop and drain cases of the pull loop;
  Go's `select` chooses among ready cases at random.
- `DriverFairness`, `ServerFairness`: the server answers. They are antecedents of
  the properties that need them (`AdmittedSettles`, `WaitersAnswered`), so that in
  the same run `CloseReturns` and `StopReturns` hold without them.

`NextEnd(t, "canceled")` is fair because canceling the context makes pgx return;
`CloseWaited` because the two-second wait in `Close` expires.

## 5. Proofs

Every proof module is checked to the last leaf by TLAPS, from the named
assumptions of the modules it extends and nothing else. The instances of TLC give
each theorem's property a first test; the theorems have no bounds.

| Module | From | Results |
|---|---|---|
| `SQLSessionProofs` | `NoticeAssumption`, `MethodsAssumption`; `ExplainAssumption` for the last | `TypeCorrect`, `QueueGuards`, `RunRecords`, `NoticesSettled`, `NoticesInOrder`, `ImplementsService`; `ExplainTruth` |
| `ResultBufferProofs` | `BufferAssumption`; `SerialLaunch` for the last | `SuccessMeansDelivered`, `WaitersServed`, `GridMatchesStream`, `OneCurrentWorker` |
| `CommitOperationProofs` | `EditsAssumption`, `CommitAssumption` | `EditsHeld`, `EditsBound` for any user of the set's methods; `SetSpec` (refinement), `AppliedOnce`, `NothingLost`, `StagedOnSettledBaseline`, and `EditsHeld`, `EditsBound` of the composition by refinement |
| `QueryRunnerProofs` | `RunnerAssumption` | `RunsAnswered`, `CancelsHitTheirRun` |
| `BackgroundProofs` | `TransactionAssumption`, `HistoryAssumption`, `WarmerAssumption`, `MachineAssumption`, `StoreAssumption`, `HelperAssumption` | `ConnectionsOwned`, `OneHandleEnds`, `RecordsKept`, `MachineTruth`, `StoreKeepsPromises` |
| `InterfaceProofs` | `DialogAssumption`, `XpAssumption`, `RtAssumption`, `BpAssumption` | `EditTruth`, `ExportTruth`, `TabsSound`, `CleanIsOnDisk`, each of its own component |
| `PanelProofs` | `RelationAssumption`, `ManagerAssumption` | `RelTruth`, `ManagerTruth`, each of its own component |
| `FrontendProofs` (extends `MCFrontend` and the two above) | all of theirs | `FrontDialogs`, `FrontResults`, `FrontRelations`, `FrontConnections` of the whole interface |

### Session

The properties are not inductive alone. `QueueInv` says that whoever is past
`Lock` holds `streamMu`; that the run published in `runActive` is the stream
between publication and the end of its flush; that the guard's holder is in the
driver, or a run with an undecodable row; and that history counts exactly the
calls past their record. `BarrierInv` relates router, fan-out and barrier: an
acknowledged barrier means an empty channel and an idle fan-out as long as the
run has not moved on, and nothing of a run past its barrier is on the channel or
in the fan-out's hand. That step carries the argument: the drain empties the
channel, and nobody can refill it before `FinishRun`, since only the queue's
holder raises notices. `OrderInv` puts the stations of the notice path (drained,
buffer, hand, channel, unsent) in the order of the numbers they hold, so that no
step, dropping the oldest included, lets one notice overtake another.
`ImplementsService` is proved step by step: initial states map to initial states
and every action of the session is one action of `QueryService` or a stutter.

### Result buffer

`PublisherInv` and `ChainInv` say where the rows between worker and grid are:
disjoint consecutive batches in the publisher's queue, the next one to be
appended first. `VerdictInv` says what a settled completion implies about worker,
queue and batches; `ShownInv` that a verdict of success is about a result on the
grid. `WaiterInv` says who owes a waiter its answer. `LaunchInv` is about the
manager's fields and holds under `SerialLaunch`, which the launcher of
`QueryRunner` justifies: streams are started by one goroutine, one at a time. Two
concurrent launches that both find the manager idle would both install.

### Edits

`SetInv` adds to the properties that slots are as unique as revisions (`SlotsInv`)
and that what was captured is older than the reservation (`CapturedInv`). Slots
are needed because `retireCommitted` gives re-keyed survivors fresh revisions in
slot order: `RetireKeeps` shows that ranking survivors by slot yields distinct
revisions above the old ones, using that finite sets of naturals have strictly
growing initial segments.

For the composition, `OpsInv` says which operation owns the attempt and that the
rows it refetched carry the keys its receipt reports; `IntentsInv` that an intent
names one edit; `AppliedInv` what of a batch is on the server at each stage
(nothing before COMMIT, all or nothing of an unknown outcome); `VersionsInv` that
a remembered version is current or gone; `BaseInv` how the editor's sample
relates to the commits its grid has been through. The transaction is a recursive
function of the batch; what it keeps is shown by taking a least batch that does
not. `EditsHeld` and `EditsBound` come from the set's own theorems by refinement.

### Query runner

`RInv` has one conjunct per party. `ActsInv`: actions are numbered in the
order they are made. `UiInv`: the UI thread works on the newest one. `PlaceInv`:
each asynchronous action is in exactly one place (about to be queued, queued,
with the launcher, done), and these places are in order. `RunInv`: the launcher's
position. `AckInv`: what has been said of each statement, which is where
"answered once" comes from. `HoldInv`: who holds a session and who will close its
stream (a tab, an unadopted result, a disposer). `CancelInv`: how far each cancel
under way can reach; `LastInv`, `QuitInv`, `SignalInv`, `SyncInv`: the slot, the
drain before quit's COMMIT, the indicator, and that the synchronous run holds its
own session only. The argument for `CancelsHitTheirRun` is the launcher's order:
a cancel is sent for a slot, everything on the wire from that slot's session is
older than the next action the launcher will take up, and it takes up none before
the cancel has acted.

### Connections

`LifeInv`: `IoMutexInv` (one job inside `ioMu`), `HolderInv` (what the helper has
open is the owner's, or in the hand of the job that retires it), `MetaInv` (a
helper state with its worker and session), `OwnInv` and `BoundInv` (query
session, commits and binding), `ClosedInv` (nothing is open or dialled once
Close's retirement is through) and `LoadInv` (a waiting load is in its helper's
queue or the worker's hand; cached details belong to the connection). A job that
lost its claim while it dialled disposes of what it opened, and never of a newer
owner, because the record it captured under the mutex names the owner itself.

### Store

`StInv`: tickets are used in turn (`TicketInv`), one writer is past the mutex
(`MutexInv`), a snapshot is at least as new as every ticket spent before it was
taken (`SnapInv`), the file follows the snapshots (`DiskInv`), Flush covers what
it promised (`FlushInv`), and `pending` counts the tickets in flight (`CountInv`).

### Beside the query path

`TxInv`: at most one handle can still send, and it is the active one or the one
Begin is about to publish (`LiveInv`); one call is on the wire at a time, and after
its answer its handle is closed (`WireInv`); while Begin is under way nothing else
can send (`BeginInv`). When the closer gives the connection up, a handle that could
still commit has its transaction open, for which the pool destroys the connection
(`CloserInv`); an aborted one may survive it, but only a savepoint choice on the
screen refers to it. `OneHandleEnds` follows, without any order between the callers.

`HyInv`: an entry whose `Record` returned is in the queue, in the writer's batch,
in the table or counted as lost, once (`PlacesInv`); what was recorded before
Close is out of queue and batch when the writer ends (`DrainInv`). `WmInv`: a warm
of the present epoch holds its table's key and no other does, and a key in flight
has such a warm (`KeyInv`); a warm of an older epoch can release nothing.

`MxInv`: one socket and one tunnel at a time, the client's own or the ones being
opened, and none at the end (`SocketInv`); the server's session is idle wherever
the caller can still reach it between two operations, and inside a transaction
while an atomic script runs (`ServerInv`); up to COMMIT nothing is committed, and
afterwards the report follows the server: committed if it says so, unknown if the
answer did not come or left a transaction behind (`ReportInv`). An exchange ends with an answer, an error from a server still in
reach, or no connection (`Exchanged`), which is the one case split every stage of
an operation needs.

### The interface

In `MCFrontend` a behaviour drives one part, and the others keep their first
state; so an invariant of the interface is "if `focus` is this part, the part's own
invariant", and each `Front…` theorem is the component's initial case and step
plus the frame of `FrontNext`. The components' invariants:

*Dialogs* (`DialogOK`). An operation that carries the number of the last request
was started by the opening on the screen (`OpOK`); that is what lets a late
outcome be told from the awaited one. A name in the commit dialog was typed in
this opening (`OpeningOK`), so the gate of a protected connection cannot be
passed with a name typed for an earlier one.

*Export* (`ExportOK`). A running export that nobody cancelled is the one in the
slot, and the menu opens only with an empty slot, so a cancel cannot reach the
wrong one (`SlotFits`). A partial file exists exactly while its export writes
(`PartialFits`); a drained export of the present stream saw its end, what is
written was taken from the stream confirmed (`ExportFits`), and each file is that
of an export that finished (`DiskFits`).

*Result tabs* (`TabsOK`). A batch or a completion is tied to a run by the
generation it was posted under: those of the tab's present generation are of its
present run (`EventFits`, `TasksFit`), and a tab with generation 0 has shown
nothing yet. A flowing tab has its worker or the completion it posted
(`FlowFits`). A sort under way is of the direction its tab says (`NavFits`). The
existence of a free slot is by the pigeonhole principle; the jump list stays a
list of open tabs when it is compacted, which is a recursive function and is
shown by a least counterexample.

*Saved buffers* (`BufferOK`). The chain's generations are consecutive and end
with the latest, so the acknowledgement of the latest save finds the chain empty
and its text on the disk (`ChainFits`); what counts as saved has no save behind
it that could still change the file (`SavedFits`).

*Relationship panel* (`PanelOK`). A count that is answered under the present
count generation was read after every eviction done, because an eviction makes a
new generation (`JobFits`); the timer belongs to the present epoch or none is
armed, so whatever moved the cursor still owes a repaint (`PaintFits`). A listed
key without a count is with a worker or a posted answer of this panel, or a
repaint is owed (`FillFits`); that what is missing is found at all is a least
counterexample over the recursive `pending`.

*Connection manager* (`ManagerOK`). `SharedOK` is about file, policies and lock,
`ProgramOK` about one program, so a step of one needs its own part and the shared
one only. A probe of the present revision carries the connection on the screen
(`FormFits`); attempts have different numbers, a posted report is one its attempt
made, and the stages shown are among those (`ChecklistFits`); what a save writes
has a tunnel that can be dialled (`WriteFits`). `ManagerAssumption` says that a
person who edits the file by hand names each profile once and writes tunnels that
can be dialled; `LoadConnections` does not check it, and without it a program
could only hand on what it found.

*EXPLAIN* (`ExplainOK`, in `SQLSessionProofs`). The transaction the server has open
is the one of the driver's handle, and is the user's or the launch's own wrap
(`TransactionFits`); a press is in one of: waiting, running, answered, shown
(`PressesFit`, `PressesApart`), and was executed only past its explain step.

The proofs corrected the models in four places: `CASE` expressions of
`ConnectionManager` and `ExplainRun` whose guards overlapped left the branch open
and now follow the order of the code's `if`s; the row-read choice of CLI access was
missing; an unknown key of a toggle or a text row changes nothing; and a delete
removes the first profile of the name.

### Only model-checked

- Liveness (`CloseReturns`, `FinishCompletes`, `AdmittedSettles`, `LaunchReturns`,
  `StopReturns`, `WaitersAnswered`) is out of the prover's reach.
- `FrontBuffers` as a whole: `CleanIsOnDisk` is proved of its component, but what
  undo restores is about texts. Likewise `FrontPlans`: `ExplainTruth` is proved,
  what the tree and the doctor compute is not.
- `FrontKeys`, `FrontGrid`, `FrontPrompts`, `FrontCompletion`, `FrontSettings`: tries,
  layouts, path listings, token lists and the rows of a list are computed by recursion over data, so what has
  to hold is induction over them more than an argument about interleavings.

## 6. Where code and comments disagree

Checked by a run that is expected to fail:

- `session_fence`: `sql_session.go:24` says the fence lifts when the wedged worker
  exits. The worker may exit between the expiry of the wait and
  `MarkPreemptPending`; the flag is then set with nobody left to clear it.
- `session_guard`: `drivers/pg/session.go:589` says the guard is released when
  `Next` observes a terminal error. On a row that fails to decode it is not, yet
  the queue is freed, and the next call panics in `acquireInFlight`.
- `session_send`: `notice.go:94` says late notices do not panic. `route` sends
  after dropping its lock, and `Close` may have closed the channel by then.

Seen while modelling and kept as steps of the models, without a run of their own.
Session, buffer and edits:

- A notice raised by `Execute` can still be on the channel when the next `Stream`
  publishes its run, and is shown there (`sql_session.go:577`).
- A Stop that lands inside `Next` reaches `onDone` as `context.Canceled` where the
  contract (`result_buffer_manager.go:384`) says nil.
- Two concurrent `NewQueryTask` calls that find the manager idle would both
  install; its only caller does not make them.
- A panic after COMMIT leaves an outcome that can never be reconciled as
  committed, so its rows stay reserved (the code chooses to fail closed).
- An UPDATE addressed by key hits whichever row has the key when it runs. If an
  earlier UPDATE of the batch moved a row there, which a DELETE by another session
  makes possible, the later one changes that row (`cell_apply_helper.go:158`);
  survivors are re-keyed by what RETURNING said of the first UPDATE of a key.
- A dropped commit publication leaves `asyncInFlight` set; the capture compares
  the table of a dialog but not its connection (`commit_operation_lifecycle.go:112`).

Query runner and transactions:

- `preemptInFlight` and the synchronous `RunQuery` wait for `streamMu` on the UI
  thread, which may be held by a stream whose tab only that thread opens
  (`query_runner.go:546`; the comment at 538 says the pre-tab orphan is covered).
- `openInbound` drops the run's handle when the tab cannot be opened
  (`relationship_panel_controller.go:611`, unlike `fk_forward.go:313`), and a queued
  tab that is disposed of never closes its handle (`result_tabs_helper.go:2631`).
- `preemptBeforeLaunch` fences before the launch's context is looked at, and
  `Unbind` cancels the pending launch after emptying the binding.
- After RELEASE or ROLLBACK TO the tracked savepoints keep what the server dropped.
- After a failed COMMIT the handle is closed but stays active, Begin is refused for
  good and the sampled status is not refreshed (`query_runner.go:1109`).
- `CurrentTransaction` returns nil for an aborted handle as well, where its comment
  (`drivers/pg/session.go:913`) says only for an ended one; so after a typed ROLLBACK that
  followed an error nobody can settle the handle, and Begin is refused. A late
  `ObserveError` may overwrite a status that was final.

Connections, metadata and store:

- An earlier Reconnect can supersede a later choice of connection, against the
  comment at `adapters.go:207`.
- `Disconnect`'s comment (`connect_helper.go:219`) says queued items are dropped;
  the worker runs them.
- `InvalidateSchema` and `InvalidateTable` clear the store before they supersede
  the keys, so a warm in flight can store columns read before the DDL
  (`schema_warmer.go:178`, against the comment at 72). A load of the foreign key
  cache stores after `InvalidateAll` in the same way.
- A connect's load of the buffer does not wait for saves that are pending.
- `Dropped()` of the history counts one drop for every `Record` that went the slow
  way, whether that lost an entry, two or none.
- The store's Close stops an armed timer without writing (`app_state_store.go:277`).

The interface:

- `visualPaste` over the last lines stays in Visual mode (`vim_editor_controller.go:1775`);
  an operator's error path leaves its pending id (1612).
- A foreign key jump stops a streaming tab without marking it, a queued tab is
  revived to running after the connection was lost, and reading a queued tab to
  its end marks it complete.
- Hidden columns are remembered by name and can hide every column of another
  projection; a search can land on a hidden column.
- The hint may show keys of a prefix that is no longer pending (`matcher.go:481`).
- A prompt opened over a waiting save walk replaces its callbacks, and the worker
  waits for ever (`prompt_chain_adapter.go:14`); saved queries are read, changed and
  written by workers without a lock.
- A save of the settings overwrites `config.yml` as edited meanwhile; appending or
  deleting a profile does not notice an external edit of the profiles file.
- Accepting a keyword in upper case in a table or column slot inserts it quoted;
  accepting a table after `INSERT INTO` adds an alias. The inserted text is not
  always the valid SQL that `vim_editor_controller.go:2311` promises: the alias
  avoids other aliases but not the name of a table without one, a lower-case
  reserved word such as `order` stays bare, and a name that needs quotes gets none
  where no alias is added.
- A jump within the debounce of the relationship panel opens the children of the
  previous row; counts are read on whatever connection is active.

## 7. What is left out

- Of the modelled parts: the wire cancel of `SQLSession` (it changes no session
  state, `QueryRunner` has it); the rollback inside `Close`; retirement of the
  commit owner with its connection, sibling grids of one table, read-only and
  confirm-writes authorization of a commit beyond its gate, SQL text; what section 2 lists.
- Values: a cell's content is the intent that wrote it, a row of a result its
  index, a notice its number.
- Not modelled at all: the spinner and worker groups (a counter and a ticker under
  one mutex), rendering and layout, wiring, catalogue queries and decoding, SSH
  dialling, credentials, argument parsing, update and bootstrap, logs and themes.
  They are pure computation or I/O; each is listed in `PROJECT.json` with its reason.

## 8. Plan

1. Core, its composition with notices, buffer, edits, runner, connections and
   background components: modelled, checked, proved.
2. Interface components: modelled and checked; those whose state is made of late
   results rather than texts are proved too. Left to prove: the popups and the
   sequence numbers of key chords.
3. To model if the code grows there: sibling grids of a commit, the ordered
   teardown in `Gui.Close`.
