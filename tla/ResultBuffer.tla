---------------------------- MODULE ResultBuffer ----------------------------
(***************************************************************************)
(* One ResultBufferManager (pkg/tasks/result_buffer_manager.go): the task   *)
(* hand-off of NewQueryTask and Stop, the worker goroutine that owns a      *)
(* row stream (runTask), the delivery of row batches to the main loop, and  *)
(* the completion that tells a waiter whether the whole result arrived.     *)
(*                                                                          *)
(* An element of Tasks is one NewQueryTask call and the worker it spawns,   *)
(* an element of Waiters one ReadToEndWithCompletion call, an element of    *)
(* Stoppers one Stop call.                                                  *)
(***************************************************************************)
EXTENDS UIPublisher

CONSTANTS Keys,          \* task keys
          Waiters,       \* ReadToEndWithCompletion calls
          Stoppers,      \* Stop calls
          InitialRows,   \* rows of the initial fill
          ChunkRows,     \* initialFillChunkRows
          ReqCap,        \* capacity of rowsToRead
          SerialLaunch   \* NewQueryTask calls come from one goroutine

ASSUME BufferAssumption ==
    /\ None \notin Waiters \cup Stoppers
    /\ InitialRows \in Nat
    /\ ChunkRows \in Nat \ {0}
    /\ ReqCap \in Nat
    /\ SerialLaunch \in BOOLEAN

VARIABLES
    key,          \* per task: its task key
    launch,       \* per task: where its NewQueryTask call stands
    prior,        \* per task: what it read under mu: the task to stop, the
                  \* completion to retire
    current,      \* taskKey, stopCurrentTask and rowsToRead of the manager
    completion,   \* the task whose streamCompletion the manager holds
    worker,       \* per task: where its worker goroutine stands
    want,         \* per task: rows left of the request being served, -1 = all
    fill,         \* per task: rows left of the initial fill
    got,          \* per task: rows pulled from its stream
    batch,        \* per task: rows pulled and not yet dispatched
    result,       \* per task: how the last drainRows ended
    taskErr,      \* per task: the worker's terminal error
    stopped,      \* tasks whose stopCh is closed
    closed,       \* tasks whose stream has been closed
    requests,     \* per task: requests on its rowsToRead
    drain,        \* tasks whose drainRequested is signalled
    terminal,     \* tasks whose completion is terminal
    err,          \* per task: completion.err
    deliveryErr,  \* per task: completion.deliveryErr
    pending,      \* per task: completion.pending
    retired,      \* tasks whose completion context is canceled
    onDone,       \* per task: the error onDone got, or "none"
    view,         \* per task: rows appended to the grid, in order
    asked,        \* per waiter: the completion its call read, or None
    waiting,      \* per waiter: the task whose completion holds it, or None
    canceled,     \* waiters whose own context is canceled
    told,         \* per waiter: what its callback was told, in order
    stopper,      \* per Stop call: where it stands
    stopOf        \* per Stop call: what it read under mu

taskVars == <<worker, want, fill, got, batch, result, taskErr, closed, onDone>>
completionVars == <<terminal, err, deliveryErr, pending, retired>>
waiterVars == <<asked, waiting, canceled, told>>
launchVars == <<key, launch, prior, current, completion>>
stopVars == <<stopper, stopOf>>
vars == <<taskVars, completionVars, waiterVars, launchVars, stopVars, stopped,
          requests, drain, view, publisherVars>>

\* What Stop and NewQueryTask read under mu.
Snapshot == [stop |-> current, completion |-> completion]
Snapshots == [stop : Tasks \cup {None}, completion : Tasks \cup {None}]

Idle == [stop |-> None, completion |-> None]

Errors == {"nil", "failed", "canceled"}
Live == {"open", "fill", "drain", "next", "dispatch", "loop", "close",
         "settle", "clear", "ondone"}

TypeOK ==
    /\ PublisherTypeOK
    /\ key \in [Tasks -> Keys]
    /\ launch \in [Tasks -> {"idle", "duplicate", "retire", "stop", "wait",
                             "install", "launched"}]
    /\ prior \in [Tasks -> Snapshots]
    /\ current \in Tasks \cup {None}
    /\ completion \in Tasks \cup {None}
    /\ worker \in [Tasks -> {"none", "done"} \cup Live]
    /\ want \in [Tasks -> -1..(MaxRows + ChunkRows)]
    /\ fill \in [Tasks -> 0..InitialRows]
    /\ got \in [Tasks -> 0..MaxRows]
    /\ batch \in [Tasks -> 0..MaxRows]
    /\ result \in [Tasks -> {"full", "short", "eof", "failed", "canceled"}]
    /\ taskErr \in [Tasks -> Errors]
    /\ stopped \in SUBSET Tasks
    /\ closed \in SUBSET Tasks
    /\ requests \in [Tasks -> 0..ReqCap]
    /\ drain \in SUBSET Tasks
    /\ terminal \in SUBSET Tasks
    /\ err \in [Tasks -> Errors]
    /\ deliveryErr \in [Tasks -> Errors]
    /\ pending \in [Tasks -> Nat]
    /\ retired \in SUBSET Tasks
    /\ onDone \in [Tasks -> Errors \cup {"none"}]
    /\ view \in [Tasks -> Seq(1..MaxRows)]
    /\ asked \in [Waiters -> Tasks \cup {None}]
    /\ waiting \in [Waiters -> Tasks \cup {None}]
    /\ canceled \in SUBSET Waiters
    /\ told \in [Waiters -> Seq(Errors \cup {"nostream"})]
    /\ stopper \in [Stoppers -> {"idle", "retire", "stop", "wait", "returned"}]
    /\ stopOf \in [Stoppers -> Snapshots]

Init ==
    /\ PublisherInit
    /\ key \in [Tasks -> Keys]
    /\ launch = [t \in Tasks |-> "idle"]
    /\ prior = [t \in Tasks |-> Idle]
    /\ current = None
    /\ completion = None
    /\ worker = [t \in Tasks |-> "none"]
    /\ want = [t \in Tasks |-> 0]
    /\ fill = [t \in Tasks |-> InitialRows]
    /\ got = [t \in Tasks |-> 0]
    /\ batch = [t \in Tasks |-> 0]
    /\ result = [t \in Tasks |-> "full"]
    /\ taskErr = [t \in Tasks |-> "nil"]
    /\ stopped = {}
    /\ closed = {}
    /\ requests = [t \in Tasks |-> 0]
    /\ drain = {}
    /\ terminal = {}
    /\ err = [t \in Tasks |-> "nil"]
    /\ deliveryErr = [t \in Tasks |-> "nil"]
    /\ pending = [t \in Tasks |-> 0]
    /\ retired = {}
    /\ onDone = [t \in Tasks |-> "none"]
    /\ view = [t \in Tasks |-> <<>>]
    /\ asked = [w \in Waiters |-> None]
    /\ waiting = [w \in Waiters |-> None]
    /\ canceled = {}
    /\ told = [w \in Waiters |-> <<>>]
    /\ stopper = [s \in Stoppers |-> "idle"]
    /\ stopOf = [s \in Stoppers |-> Idle]

-----------------------------------------
(* streamCompletion. *)

\* completionWaiter.finish, with the callback addWaiter wraps: a waiter whose
\* own context is canceled is never told of success.
Answer(w, e) ==
    told[w] \o (IF told[w] # <<>> THEN <<>>
                ELSE IF e = "nil" /\ w \in canceled THEN <<"canceled">> ELSE <<e>>)

\* The verdict settleReady reads ...
Verdict(t) == IF err[t] # "nil" THEN err[t] ELSE deliveryErr[t]
\* Mutant: rows on their way to the grid are not waited for.
ReadyUndelivered(t) == t \in terminal

\* ... and whether it may be given.
Ready(t) == t \in terminal /\ (Verdict(t) # "nil" \/ pending[t] = 0)

\* settleReady on the completions of ts as the same step leaves them.
SettleReady(ts) ==
    LET verdict == [t \in {u \in ts : Ready(u)'} |-> Verdict(t)']
        settled == {w \in Waiters : waiting[w] \in DOMAIN verdict}
    IN /\ told' = [w \in Waiters |-> IF w \in settled
                                       THEN Answer(w, verdict[waiting[w]]) ELSE told[w]]
       /\ waiting' = [w \in Waiters |-> IF w \in settled THEN None ELSE waiting[w]]
       /\ UNCHANGED <<asked, canceled>>

\* finish: the first terminal error stands.
FinishCompletion(t, e) ==
    /\ terminal' = terminal \cup {t}
    /\ err' = IF t \in terminal THEN err ELSE [err EXCEPT ![t] = e]
    /\ UNCHANGED <<deliveryErr, pending, retired>>
    /\ SettleReady({t})

\* retire: a fully delivered result keeps its verdict, any other is canceled.
Retire(t) ==
    /\ terminal' = terminal \cup {t}
    /\ err' = IF t \notin terminal \/ pending[t] # 0
                THEN [err EXCEPT ![t] = "canceled"] ELSE err
    /\ retired' = retired \cup {t}
    /\ UNCHANGED <<deliveryErr, pending>>
    /\ SettleReady({t})

\* Mutant: the acknowledgment does not look for waiters.
DeliveredSilent(t, e) ==
    /\ pending' = [pending EXCEPT ![t] = @ - 1]
    /\ deliveryErr' = IF e # "nil" /\ deliveryErr[t] = "nil"
                        THEN [deliveryErr EXCEPT ![t] = e] ELSE deliveryErr
    /\ UNCHANGED <<terminal, err, retired, waiterVars>>

\* settled, the acknowledgment of one publication.
Delivered(t, e) ==
    /\ pending' = [pending EXCEPT ![t] = @ - 1]
    /\ deliveryErr' = IF e # "nil" /\ deliveryErr[t] = "nil"
                        THEN [deliveryErr EXCEPT ![t] = e] ELSE deliveryErr
    /\ UNCHANGED <<terminal, err, retired>>
    /\ SettleReady({t})

-----------------------------------------
(* NewQueryTask. *)

RetireRead(t) ==
    IF t = None THEN UNCHANGED <<completionVars, waiterVars>> ELSE Retire(t)

\* stopFn's once: retire, then close(stopCh).
StopOnce(t) ==
    /\ stopped' = stopped \cup {t}
    /\ IF t \in stopped THEN UNCHANGED <<completionVars, waiterVars>> ELSE Retire(t)

Goto(t, from, to) == worker[t] = from /\ worker' = [worker EXCEPT ![t] = to]
Launch(t, from, to) == launch[t] = from /\ launch' = [launch EXCEPT ![t] = to]

\* The QueryRunner's launcher makes one NewQueryTask call at a time.
Alone == \A u \in Tasks : launch[u] \in {"idle", "duplicate", "launched"}

\* A call with the running task's key is a no-op.
Duplicate(t) == \E u \in Tasks : u = current /\ key[u] = key[t]

LaunchDuplicate(t) ==
    /\ SerialLaunch => Alone
    /\ Duplicate(t)
    /\ Launch(t, "idle", "duplicate")
    /\ UNCHANGED <<taskVars, completionVars, waiterVars, key, prior, current,
                   completion, stopVars, stopped, requests, drain, view,
                   publisherVars>>

\* stopCurrentTask and completion are read under mu, which is then dropped ...
LaunchBegin(t) ==
    /\ SerialLaunch => Alone
    /\ ~Duplicate(t)
    /\ Launch(t, "idle", "retire")
    /\ prior' = [prior EXCEPT ![t] = Snapshot]
    /\ UNCHANGED <<taskVars, completionVars, waiterVars, key, current,
                   completion, stopVars, stopped, requests, drain, view,
                   publisherVars>>

\* ... the prior completion is retired ...
LaunchRetire(t) ==
    /\ Launch(t, "retire", IF prior[t].stop = None THEN "install" ELSE "stop")
    /\ RetireRead(prior[t].completion)
    /\ UNCHANGED <<taskVars, key, prior, current, completion, stopVars, stopped,
                   requests, drain, view, publisherVars>>

\* ... and priorStop retires it and closes stopCh in its once, ...
LaunchStop(t) ==
    /\ Launch(t, "stop", "wait")
    /\ StopOnce(prior[t].stop)
    /\ UNCHANGED <<taskVars, key, prior, current, completion, stopVars,
                   requests, drain, view, publisherVars>>

\* Mutant: the prior worker's cleanup is not waited for.
LaunchNoWait(t) ==
    /\ Launch(t, "wait", "install")
    /\ UNCHANGED <<taskVars, completionVars, waiterVars, key, prior, current,
                   completion, stopVars, stopped, requests, drain, view,
                   publisherVars>>

\* ... then waits for doneCh.
LaunchWaited(t) ==
    /\ Launch(t, "wait", "install")
    /\ worker[prior[t].stop] = "done"
    /\ UNCHANGED <<taskVars, completionVars, waiterVars, key, prior, current,
                   completion, stopVars, stopped, requests, drain, view,
                   publisherVars>>

\* The new task is installed under mu and its worker scheduled.
LaunchInstall(t) ==
    /\ Launch(t, "install", "launched")
    /\ current' = t
    /\ completion' = t
    /\ Goto(t, "none", "open")
    /\ UNCHANGED <<want, fill, got, batch, result, taskErr, closed, onDone,
                   completionVars, waiterVars, key, prior, stopVars, stopped,
                   requests, drain, view, publisherVars>>

-----------------------------------------
(* Stop. *)

StopMove(s, from, to) == stopper[s] = from /\ stopper' = [stopper EXCEPT ![s] = to]

StopBegin(s) ==
    /\ StopMove(s, "idle", "retire")
    /\ stopOf' = [stopOf EXCEPT ![s] = Snapshot]
    /\ UNCHANGED <<taskVars, completionVars, waiterVars, launchVars, stopped,
                   requests, drain, view, publisherVars>>

StopRetire(s) ==
    /\ StopMove(s, "retire", IF stopOf[s].stop = None THEN "returned" ELSE "stop")
    /\ RetireRead(stopOf[s].completion)
    /\ UNCHANGED <<taskVars, launchVars, stopOf, stopped, requests, drain, view,
                   publisherVars>>

StopClose(s) ==
    /\ StopMove(s, "stop", "wait")
    /\ StopOnce(stopOf[s].stop)
    /\ UNCHANGED <<taskVars, launchVars, stopOf, requests, drain, view,
                   publisherVars>>

StopWaited(s) ==
    /\ StopMove(s, "wait", "returned")
    /\ worker[stopOf[s].stop] = "done"
    /\ UNCHANGED <<taskVars, completionVars, waiterVars, launchVars, stopOf,
                   stopped, requests, drain, view, publisherVars>>

-----------------------------------------
(* The worker goroutine: runTask. *)

\* What a step of the worker that touches only its own locals leaves alone.
Local(t) ==
    /\ UNCHANGED <<completionVars, waiterVars, launchVars, stopVars, stopped,
                   view, publisherVars>>

\* streamFn hands the stream over, or fails; a stop that came first is seen
\* only once the stream is held, so that it is closed.
Open(t) ==
    /\ \/ /\ Goto(t, "open", IF t \in stopped THEN "close" ELSE "fill")
          /\ UNCHANGED taskErr
       \/ /\ Goto(t, "open", "settle")
          /\ taskErr' = [taskErr EXCEPT ![t] = "failed"]
    /\ UNCHANGED <<want, fill, got, batch, result, closed, onDone, requests, drain>>
    /\ Local(t)

\* The head of the initial-fill loop.
FillNext(t) ==
    /\ Goto(t, "fill", IF fill[t] = 0 THEN "loop"
                       ELSE IF t \in stopped THEN "close" ELSE "drain")
    /\ want' = [want EXCEPT ![t] = IF fill[t] < ChunkRows THEN fill[t] ELSE ChunkRows]
    /\ UNCHANGED <<fill, got, batch, result, taskErr, closed, onDone, requests, drain>>
    /\ Local(t)

\* drainRows' loop head: the request is served, a stop cuts it short, or Next
\* is called.
DrainHead(t) ==
    /\ \/ /\ batch[t] = want[t]
          /\ Goto(t, "drain", "dispatch")
          /\ result' = [result EXCEPT ![t] = "full"]
       \/ /\ batch[t] # want[t] /\ t \in stopped
          /\ Goto(t, "drain", "dispatch")
          /\ result' = [result EXCEPT ![t] = "short"]
       \/ /\ batch[t] # want[t] /\ t \notin stopped
          /\ Goto(t, "drain", "next")
          /\ UNCHANGED result
    /\ UNCHANGED <<want, fill, got, batch, taskErr, closed, onDone, requests, drain>>
    /\ Local(t)

\* stream.Next: a row, a clean end, a failure, or the task context canceled by
\* a stop that came while it was blocked.
NextRow(t) ==
    /\ got[t] < MaxRows
    /\ Goto(t, "next", "drain")
    /\ got' = [got EXCEPT ![t] = @ + 1]
    /\ batch' = [batch EXCEPT ![t] = @ + 1]
    /\ UNCHANGED <<want, fill, result, taskErr, closed, onDone, requests, drain>>
    /\ Local(t)

NextEnd(t, r) ==
    /\ Goto(t, "next", "dispatch")
    /\ r = "canceled" => t \in stopped
    /\ result' = [result EXCEPT ![t] = r]
    /\ UNCHANGED <<want, fill, got, batch, taskErr, closed, onDone, requests, drain>>
    /\ Local(t)

\* Where runTask goes with the outcome of drainRows.
AfterDrain(t) ==
    CASE result[t] \in {"eof", "failed", "canceled"} -> "close"
      [] result[t] = "full" /\ fill[t] > batch[t] -> "fill"
      [] OTHER -> "loop"

\* dispatchRows counts and publishes a non-empty batch before the outcome of
\* the drain is acted upon.
Dispatch(t) ==
    LET p == [task |-> t, from |-> got[t] - batch[t] + 1, upto |-> got[t]]
    IN /\ Goto(t, "dispatch", AfterDrain(t))
       /\ fill' = [fill EXCEPT ![t] = IF result[t] = "full" /\ @ > batch[t]
                                        THEN @ - batch[t] ELSE 0]
       /\ batch' = [batch EXCEPT ![t] = 0]
       /\ taskErr' = IF result[t] \in Errors THEN [taskErr EXCEPT ![t] = result[t]]
                     ELSE taskErr
       /\ IF batch[t] = 0
            THEN UNCHANGED <<completionVars, waiterVars, publisherVars>>
            ELSE /\ Publish(p)
                 /\ pending' = [pending EXCEPT ![t] = IF retiring THEN @ ELSE @ + 1]
                 /\ deliveryErr' = IF retiring /\ deliveryErr[t] = "nil"
                                     THEN [deliveryErr EXCEPT ![t] = "canceled"]
                                     ELSE deliveryErr
                 /\ UNCHANGED <<terminal, err, retired>>
                 /\ SettleReady({t})
       /\ UNCHANGED <<want, got, result, closed, onDone, requests, drain,
                      launchVars, stopVars, stopped, view>>

\* Mutant: the pull loop has no stopCh arm.
LoopStopIgnored(t) == t \in {}

\* The pull loop's select.
LoopStop(t) ==
    /\ t \in stopped
    /\ Goto(t, "loop", "close")
    /\ UNCHANGED <<want, fill, got, batch, result, taskErr, closed, onDone, requests, drain>>
    /\ Local(t)

LoopDrain(t) ==
    /\ t \in drain
    /\ Goto(t, "loop", "drain")
    /\ drain' = drain \ {t}
    /\ want' = [want EXCEPT ![t] = -1]
    /\ UNCHANGED <<fill, got, batch, result, taskErr, closed, onDone, requests>>
    /\ Local(t)

LoopRequest(t) ==
    /\ requests[t] > 0
    /\ Goto(t, "loop", "drain")
    /\ requests' = [requests EXCEPT ![t] = @ - 1]
    /\ want' = [want EXCEPT ![t] = 1]
    /\ UNCHANGED <<fill, got, batch, result, taskErr, closed, onDone, drain>>
    /\ Local(t)

\* cleanup: the stream is closed, its error joined ...
CloseStream(t) ==
    /\ Goto(t, "close", "settle")
    /\ closed' = closed \cup {t}
    /\ \E e \in {"nil", "failed"} :
         taskErr' = IF taskErr[t] = "nil" THEN [taskErr EXCEPT ![t] = e] ELSE taskErr
    /\ UNCHANGED <<want, fill, got, batch, result, onDone, requests, drain>>
    /\ Local(t)

\* ... the completion finished ...
SettleTask(t) ==
    /\ Goto(t, "settle", "clear")
    /\ FinishCompletion(t, taskErr[t])
    /\ UNCHANGED <<want, fill, got, batch, result, taskErr, closed, onDone,
                   launchVars, stopVars, stopped, requests, drain, view,
                   publisherVars>>

\* ... the manager cleared, if it still holds this task ...
ClearManager(t) ==
    /\ Goto(t, "clear", "ondone")
    /\ current' = IF current = t THEN None ELSE current
    /\ UNCHANGED <<want, fill, got, batch, result, taskErr, closed, onDone,
                   completionVars, waiterVars, key, launch, prior, completion,
                   stopVars, stopped, requests, drain, view, publisherVars>>

\* Mutant: doneCh stays open.
FireOnDoneNoClose(t) ==
    /\ worker[t] = "ondone"
    /\ onDone' = [onDone EXCEPT ![t] = taskErr[t]]
    /\ UNCHANGED <<worker, want, fill, got, batch, result, taskErr, closed,
                   requests, drain>>
    /\ Local(t)

\* ... onDone called and doneCh closed.
FireOnDone(t) ==
    /\ Goto(t, "ondone", "done")
    /\ onDone' = [onDone EXCEPT ![t] = taskErr[t]]
    /\ UNCHANGED <<want, fill, got, batch, result, taskErr, closed, requests, drain>>
    /\ Local(t)

-----------------------------------------
(* Delivery on the main loop. *)

BufferUnchanged ==
    UNCHANGED <<taskVars, launchVars, stopVars, stopped, requests, drain>>

\* The loop takes the next publication; the one of a retired completion is
\* settled as canceled without running.
UIBegin ==
    /\ queue # <<>>
    /\ LET p == Head(queue) IN
         /\ Dequeue(p.task \in retired)
         /\ IF p \in accepted /\ p \notin accepted'
              THEN Delivered(p.task, "canceled")
              ELSE UNCHANGED <<completionVars, waiterVars>>
    /\ BufferUnchanged
    /\ UNCHANGED view

\* appendRows has run.
UIAppend ==
    /\ running # None
    /\ Return
    /\ view' = [view EXCEPT ![running.task] =
                  @ \o [i \in 1..(running.upto - running.from + 1) |-> running.from + i - 1]]
    /\ IF running \in accepted
         THEN Delivered(running.task, "nil") ELSE UNCHANGED <<completionVars, waiterVars>>
    /\ BufferUnchanged

\* The AfterFunc of a publication whose completion was retired.
UICancel(p) ==
    /\ p \in accepted
    /\ p.task \in retired
    /\ Settle(p)
    /\ Delivered(p.task, "canceled")
    /\ UNCHANGED <<queue, running, retiring, view>>
    /\ BufferUnchanged

\* The program is going down: the driver retires between two callbacks and
\* every accepted publication is settled as canceled.
UIRetire ==
    /\ running = None
    /\ RetireDriver
    /\ pending' = [t \in Tasks |-> pending[t] - Cardinality({p \in accepted : p.task = t})]
    /\ deliveryErr' = [t \in Tasks |->
                         IF deliveryErr[t] = "nil" /\ \E p \in accepted : p.task = t
                           THEN "canceled" ELSE deliveryErr[t]]
    /\ UNCHANGED <<terminal, err, retired, view>>
    /\ SettleReady(Tasks)
    /\ BufferUnchanged

-----------------------------------------
(* ReadRows and ReadToEndWithCompletion. *)

ReadRows ==
    /\ current # None
    /\ requests[current] < ReqCap
    /\ requests' = [requests EXCEPT ![current] = @ + 1]
    /\ UNCHANGED <<taskVars, completionVars, waiterVars, launchVars, stopVars,
                   stopped, drain, view, publisherVars>>

\* The call reads the manager's completion under mu ...
ReadToEnd(w) ==
    /\ told[w] = <<>> /\ waiting[w] = None /\ asked[w] = None
    /\ IF w \in canceled \/ completion = None
         THEN /\ told' = [told EXCEPT ![w] =
                            <<IF w \in canceled THEN "canceled" ELSE "nostream">>]
              /\ UNCHANGED asked
         ELSE /\ asked' = [asked EXCEPT ![w] = completion]
              /\ UNCHANGED told
    /\ UNCHANGED <<taskVars, completionVars, waiting, canceled, launchVars,
                   stopVars, stopped, requests, drain, view, publisherVars>>

\* Mutant: the worker is not asked to drain.
AddWaiterNoDrain(w) ==
    LET t == asked[w] IN
    /\ t # None /\ waiting[w] = None /\ told[w] = <<>> /\ ~Ready(t)
    /\ waiting' = [waiting EXCEPT ![w] = t]
    /\ UNCHANGED <<taskVars, completionVars, asked, canceled, told, launchVars,
                   stopVars, stopped, requests, drain, view, publisherVars>>

\* ... and registers with it, whatever has become of it since: the waiter is
\* settled at once if it can be, and the worker asked to drain if it lives.
AddWaiter(w) ==
    LET t == asked[w] IN
    /\ t # None /\ waiting[w] = None /\ told[w] = <<>>
    /\ IF Ready(t)
         THEN /\ told' = [told EXCEPT ![w] = Answer(w, Verdict(t))]
              /\ UNCHANGED waiting
         ELSE /\ waiting' = [waiting EXCEPT ![w] = t]
              /\ UNCHANGED told
    /\ drain' = IF t \in terminal THEN drain ELSE drain \cup {t}
    /\ UNCHANGED <<taskVars, completionVars, asked, canceled, launchVars,
                   stopVars, stopped, requests, view, publisherVars>>

\* The waiter's own context is canceled ...
CancelWaiter(w) ==
    /\ w \notin canceled
    /\ canceled' = canceled \cup {w}
    /\ UNCHANGED <<taskVars, completionVars, asked, waiting, told, launchVars, stopVars,
                   stopped, requests, drain, view, publisherVars>>

\* ... and its AfterFunc withdraws it from the completion and answers it; it may
\* have started when the completion answered, which finish's done flag absorbs.
DropWaiter(w) ==
    /\ w \in canceled
    /\ asked[w] # None
    /\ waiting[w] # None \/ told[w] # <<>>
    /\ waiting' = [waiting EXCEPT ![w] = None]
    /\ told' = [told EXCEPT ![w] = Answer(w, "canceled")]
    /\ UNCHANGED <<taskVars, completionVars, asked, canceled, launchVars,
                   stopVars, stopped, requests, drain, view, publisherVars>>

-----------------------------------------
LaunchStep(t) == LaunchDuplicate(t) \/ LaunchBegin(t) \/ LaunchRetire(t)
                 \/ LaunchStop(t) \/ LaunchWaited(t) \/ LaunchInstall(t)

StopStep(s) == StopBegin(s) \/ StopRetire(s) \/ StopClose(s) \/ StopWaited(s)

Serve(t) == Open(t) \/ FillNext(t) \/ DrainHead(t) \/ Dispatch(t)
            \/ LoopStop(t) \/ LoopDrain(t) \/ LoopRequest(t)
StreamStep(t) == NextRow(t) \/ \E r \in {"eof", "failed", "canceled"} : NextEnd(t, r)
Cleanup(t) == CloseStream(t) \/ SettleTask(t) \/ ClearManager(t) \/ FireOnDone(t)

UIStep == UIBegin \/ UIAppend \/ \E p \in accepted : UICancel(p)

WaiterStep(w) == ReadToEnd(w) \/ AddWaiter(w) \/ CancelWaiter(w) \/ DropWaiter(w)

Next ==
    \/ \E t \in Tasks : LaunchStep(t) \/ Serve(t) \/ StreamStep(t) \/ Cleanup(t)
    \/ \E s \in Stoppers : StopStep(s)
    \/ \E w \in Waiters : WaiterStep(w)
    \/ ReadRows
    \/ UIStep
    \/ UIRetire

Spec == Init /\ [][Next]_vars

\* Goroutines that can run do, and the main loop keeps turning. A stream that
\* was stopped ends: Next returns when its context is canceled.
GoFairness ==
    /\ \A t \in Tasks :
         /\ WF_vars(LaunchRetire(t) \/ LaunchStop(t) \/ LaunchWaited(t) \/ LaunchInstall(t))
         /\ WF_vars(Serve(t) \/ Cleanup(t))
         /\ WF_vars(NextEnd(t, "canceled"))
    /\ \A s \in Stoppers : WF_vars(StopRetire(s) \/ StopClose(s) \/ StopWaited(s))
    /\ \A w \in Waiters : WF_vars(AddWaiter(w) \/ DropWaiter(w))
    /\ WF_vars(UIStep)

\* The pull loop's select picks among its ready cases at random, so a stop or a
\* full drain is served although requests for single rows keep coming.
SelectFairness == \A t \in Tasks : SF_vars(LoopStop(t)) /\ SF_vars(LoopDrain(t))

\* The server delivers the rows of the result, and the result is finite.
ServerFairness == \A t \in Tasks : WF_vars(StreamStep(t))

LiveSpec == Spec /\ GoFairness
SelectSpec == LiveSpec /\ SelectFairness

-----------------------------------------
(* Properties. *)

\* ReadToEndWithCompletion reports success only for a result that ended in a
\* clean EOF, whose stream closed without error, and whose every row is on the
\* grid. Export and the "complete" flip depend on it; a retire, a canceled
\* publication or a row still on its way to the main loop must prevent it.
SuccessMeansDelivered ==
    \A w \in Waiters : told[w] = <<"nil">> =>
        LET t == asked[w]
        IN /\ result[t] = "eof" /\ t \in closed /\ taskErr[t] = "nil"
           /\ view[t] = [i \in 1..got[t] |-> i]

\* Every call is answered at most once, and a call that is still registered has
\* not been answered: the completion, the waiter's context and settleReady may
\* all try.
AnsweredOnce ==
    \A w \in Waiters : Len(told[w]) <= 1 /\ (waiting[w] # None => told[w] = <<>>)

\* The grid shows an initial segment of the stream: batches arrive in order and
\* a canceled one is never followed by one that is appended.
ViewIsPrefix ==
    \A t \in Tasks : view[t] = [i \in 1..Len(view[t]) |-> i] /\ Len(view[t]) <= got[t]

HoldsStream(t) == worker[t] \in Live \ {"settle", "clear", "ondone"}

\* Preemption: two workers never hold a stream at the same time, because the
\* launcher waits for the prior worker's cleanup. The stream holds the
\* session's queue, so a second one would deadlock on streamMu.
OneWorker ==
    \A t, u \in Tasks : HoldsStream(t) /\ HoldsStream(u) => t = u

\* A registered waiter can still be answered: its completion is alive or some
\* of its publications are unsettled.
WaiterHasSource ==
    \A w \in Waiters : waiting[w] # None => ~Ready(waiting[w])

\* A waiter is answered once, and until then by something that will happen
\* (addWaiter, settleReady, completionWaiter.finish).
WaitersServed == AnsweredOnce /\ WaiterHasSource

\* completion.pending counts exactly the unsettled publications, so the last
\* acknowledgment is recognised however loop, cancellation and retirement race.
PendingIsExact ==
    \A t \in Tasks : pending[t] = Cardinality({p \in accepted : p.task = t})

\* Grid and completion agree with the stream: what is shown is a prefix, what is
\* outstanding is counted (dispatchRows, gocuiDriver.settle).
GridMatchesStream == ViewIsPrefix /\ PendingIsExact

\* The manager names a task only while its worker has not finished its cleanup.
CurrentIsLive == current # None => worker[current] \in Live \ {"ondone"}

\* One worker, the one the manager names (NewQueryTask, runTask's cleanup).
OneCurrentWorker == OneWorker /\ CurrentIsLive

\* A Stop call returns although the server never answers: the canceled task
\* context ends the stream and the worker cleans up.
StopReturns ==
    \A s \in Stoppers : (stopper[s] # "idle") ~> (stopper[s] = "returned")

\* A NewQueryTask call that preempts gets its own worker in the end.
LaunchReturns ==
    \A t \in Tasks : (launch[t] = "retire") ~> (launch[t] = "launched")

\* With a server that answers, every ReadToEndWithCompletion call is answered:
\* stopped, preempted, failed, canceled or drained.
WaitersAnswered ==
    ServerFairness => \A w \in Waiters : (asked[w] # None) ~> (told[w] # <<>>)
=============================================================================
