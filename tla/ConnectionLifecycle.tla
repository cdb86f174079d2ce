------------------------ MODULE ConnectionLifecycle ------------------------
(***************************************************************************)
(* The life of a connection: attempts started on the UI thread and dialled  *)
(* on workers one at a time (ioMu), the generation that makes an older      *)
(* attempt stale, the owner record that decides who publishes and who       *)
(* disposes, publication on the UI thread, retirement, reconnect, deletion  *)
(* of the active profile and Gui.Close                                      *)
(* (pkg/gui/orchestrator/adapters.go, gui.go; the metadata session is       *)
(* ConnectHelper).                                                          *)
(*                                                                          *)
(* An owner is named by the job that dialled it. A job is what one OnWorker *)
(* goroutine does; the job Closer is Gui.Close on the main goroutine.       *)
(***************************************************************************)
EXTENDS ConnectHelper

CONSTANTS
    Profiles,  \* connection profiles
    MaxSteps   \* bound: Cancel, delete, commits and close requests

Closer == 0
Jobs == Conns           \* bound: one job per possible connection
None == 0

VARIABLES
    gen,      \* connectionState.connectGen
    closed,   \* Gui.closed
    ioMu,     \* connectionLife.ioMu: the job that holds it, or -1
    owner,    \* connectionLife.owner
    own,      \* per owner: profile, query session, published, commits
    bound,    \* QueryRunner's binding, by owner
    active,   \* activeSQLSession, by owner
    shown,    \* activeConnID, or ""
    modal,    \* the connecting modal
    job,      \* per job: kind, generation, position
    uiq,      \* closures scheduled on the UI thread
    spent     \* how many of the bounded requests were made

lifeVars == <<gen, closed, ioMu, owner, own, bound, active, shown, modal, job, uiq, spent>>
connVars == <<hstate, meta, load, gen, closed, ioMu, owner, own, bound, active, shown,
              modal, job, uiq, spent>>

NoProfile == ""
Free == -1
NoOwner == [profile |-> NoProfile, sess |-> "none", published |-> FALSE,
            commit |-> FALSE, retired |-> FALSE]
NoJob == [kind |-> "none", pc |-> "none", gen |-> 0, profile |-> NoProfile,
          ctx |-> FALSE, want |-> None, victim |-> None, then |-> "none"]

ConnInit ==
    /\ HelperInit
    /\ gen = 0 /\ closed = FALSE /\ ioMu = Free
    /\ owner = None /\ own = [o \in Conns |-> NoOwner]
    /\ bound = None /\ active = None /\ shown = NoProfile
    /\ modal = "list"
    /\ job = [j \in Jobs \cup {Closer} |-> NoJob]
    /\ uiq = {} /\ spent = 0

-----------------------------------------
Unused == {j \in Jobs : job[j].kind = "none"}
NextJob == CHOOSE j \in Unused : \A k \in Unused : j <= k
\* OnWorker, gated by closed.
Spawn(jobs, kind, profile, g, want) ==
    IF closed \/ Unused = {} THEN jobs
    ELSE [jobs EXCEPT ![NextJob] = [NoJob EXCEPT !.kind = kind, !.pc = "io",
                                     !.profile = profile, !.gen = g, !.want = want]]

\* Mutant: a connect that Gui.Close overtook is not stale.
StaleOpen(g) == gen # g

\* isStaleConnect.
Stale(g) == closed \/ gen # g

Bounded == spent < MaxSteps /\ spent' = spent + 1

-----------------------------------------
(* The UI thread. *)

\* startAttempt and Retry, from the modal.
StartAttempt(p) ==
    /\ ~closed /\ Unused # {}
    /\ gen' = gen + 1
    /\ job' = Spawn(job, "connect", p, gen + 1, None)
    /\ modal' = "connecting"
    /\ UNCHANGED <<hstate, meta, load, closed, ioMu, owner, own, bound, active, shown,
                   uiq, spent>>

\* Esc in the modal: supersede the attempt and abort its dial.
Cancel ==
    /\ ~closed /\ modal = "connecting"
    /\ Bounded
    /\ gen' = gen + 1
    /\ job' = [j \in Jobs \cup {Closer} |-> IF job[j].kind = "connect" /\ job[j].gen = gen
                                              THEN [job[j] EXCEPT !.ctx = TRUE] ELSE job[j]]
    /\ modal' = "list"
    /\ UNCHANGED <<hstate, meta, load, closed, ioMu, owner, own, bound, active, shown, uiq>>

\* <leader>R on a disconnected session.
Reconnect ==
    /\ ~closed /\ Unused # {} /\ shown # NoProfile
    /\ job' = Spawn(job, "reconnect", shown, 0, None)
    /\ UNCHANGED <<hstate, meta, load, gen, closed, ioMu, owner, own, bound, active,
                   shown, modal, uiq, spent>>

\* deleteConnectionFromModal of the active profile.
DeleteActive ==
    /\ ~closed /\ shown # NoProfile
    /\ Bounded
    /\ bound' = None /\ active' = None /\ shown' = NoProfile
    /\ owner # None /\ own[owner].profile = shown => Unused # {}
    /\ job' = IF owner # None /\ own[owner].profile = shown
                THEN Spawn(job, "retire", NoProfile, 0, owner) ELSE job
    /\ UNCHANGED <<hstate, meta, load, gen, closed, ioMu, owner, own, modal, uiq>>

\* A commit captures the published owner and runs on its connection.
StartCommit ==
    /\ ~closed /\ owner # None /\ ~own[owner].retired
    /\ own[owner].published /\ own[owner].profile = shown /\ ~own[owner].commit
    /\ Bounded
    /\ own' = [own EXCEPT ![owner].commit = TRUE]
    /\ UNCHANGED <<hstate, meta, load, gen, closed, ioMu, owner, bound, active, shown,
                   modal, job, uiq>>

CommitEnds(o) ==
    /\ own[o].commit
    /\ own' = [own EXCEPT ![o].commit = FALSE]
    /\ UNCHANGED <<hstate, meta, load, gen, closed, ioMu, owner, bound, active, shown,
                   modal, job, uiq, spent>>

-----------------------------------------
(* Closures on the UI thread: publication of owner o, or of an error. *)

\* The publish closure, under connectionLife.mu.
Publish(c) ==
    /\ c \in uiq /\ c.kind = "publish" /\ ~closed
    /\ IF Stale(c.gen) \/ owner # c.o
         THEN /\ Unused # {}
              /\ job' = Spawn(job, "retire", NoProfile, 0, c.o)
              /\ UNCHANGED <<own, bound, active, shown, modal>>
         ELSE /\ own' = [own EXCEPT ![c.o].published = TRUE]
              /\ bound' = c.o /\ active' = c.o /\ shown' = own[c.o].profile
              /\ modal' = "list"
              /\ UNCHANGED job
    /\ uiq' = uiq \ {c}
    /\ UNCHANGED <<hstate, meta, load, gen, closed, ioMu, owner, spent>>

\* publishConnectError; after a failed wiring the shown connection is cleared.
PublishError(c) ==
    /\ c \in uiq /\ c.kind \in {"error", "unwired"} /\ ~closed
    /\ modal' = IF ~Stale(c.gen) /\ modal = "connecting" THEN "error" ELSE modal
    /\ shown' = IF ~Stale(c.gen) /\ c.kind = "unwired" THEN NoProfile ELSE shown
    /\ uiq' = uiq \ {c}
    /\ UNCHANGED <<hstate, meta, load, gen, closed, ioMu, owner, own, bound, active, job,
                   spent>>

-----------------------------------------
(* Workers.  ioMu serializes them; a mutant of Take lets them overlap. *)

Holds(j, pc) == ioMu = j /\ job[j].pc = pc
Go(j, pc) == job' = [job EXCEPT ![j].pc = pc]
\* retireConnectionLocked(want), then continue at `then`.
RetireThen(j, want, then) ==
    job' = [job EXCEPT ![j].pc = "take", ![j].want = want, ![j].then = then]

LockIo(j) ==
    /\ job[j].pc = "io" /\ ioMu = Free
    /\ ioMu' = j
    /\ CASE job[j].kind = "connect" -> Go(j, IF Stale(job[j].gen) THEN "unlock" ELSE "teardown")
         [] job[j].kind = "reconnect" -> RetireThen(j, None, "again")
         [] OTHER -> RetireThen(j, job[j].want, "unlock")
    /\ UNCHANGED <<hstate, meta, load, gen, closed, owner, own, bound, active, shown,
                   modal, uiq, spent>>

UnlockIo(j) ==
    /\ Holds(j, "unlock")
    /\ ioMu' = Free
    /\ Go(j, "done")
    /\ UNCHANGED <<hstate, meta, load, gen, closed, owner, own, bound, active, shown,
                   modal, uiq, spent>>

\* Reconnect released ioMu; Connect bumps the generation and dials like any
\* other attempt.
ConnectAgain(j) ==
    /\ Holds(j, "again")
    /\ ioMu' = Free
    /\ gen' = gen + 1
    /\ job' = [job EXCEPT ![j].kind = "connect", ![j].pc = "io", ![j].gen = gen + 1]
    /\ UNCHANGED <<hstate, meta, load, closed, owner, own, bound, active, shown, modal,
                   uiq, spent>>

\* teardownForSwitch.
Teardown(j) ==
    /\ Holds(j, "teardown")
    /\ IF owner = None \/ (own[owner].published /\ own[owner].profile = job[j].profile)
         THEN Go(j, "dial") ELSE RetireThen(j, owner, "dial")
    /\ UNCHANGED <<hstate, meta, load, gen, closed, ioMu, owner, own, bound, active,
                   shown, modal, uiq, spent>>

\* ConnectHelper.Connect fails (a connection is open, the dial failed or was
\* cancelled), or the new owner is installed.
Dial(j) ==
    /\ Holds(j, "dial")
    /\ \/ /\ uiq' = IF Stale(job[j].gen) THEN uiq
                    ELSE uiq \cup {[kind |-> "error", gen |-> job[j].gen, o |-> None]}
          /\ Go(j, "unlock")
          /\ UNCHANGED <<hstate, meta, owner, own>>
       \/ /\ hstate = NoConn /\ ~job[j].ctx
          /\ hstate' = j /\ meta' = Opened(j)
          /\ own' = [own EXCEPT ![j].profile = job[j].profile]
          /\ owner' = j
          /\ Go(j, "check")
          /\ UNCHANGED uiq
    /\ UNCHANGED <<load, gen, closed, ioMu, bound, active, shown, modal, spent>>

\* Superseded while it dialled?
CheckStale(j) ==
    /\ Holds(j, "check")
    /\ IF Stale(job[j].gen) THEN RetireThen(j, j, "unlock") ELSE Go(j, "wire")
    /\ UNCHANGED <<hstate, meta, load, gen, closed, ioMu, owner, own, bound, active,
                   shown, modal, uiq, spent>>

\* wireQueryRuntimeIO: the query session, or the rollback of the connect.
Wire(j) ==
    /\ Holds(j, "wire")
    /\ \/ own' = [own EXCEPT ![j].sess = "open"] /\ Go(j, "publish")
       \/ RetireThen(j, j, "unwired") /\ UNCHANGED own
    /\ UNCHANGED <<hstate, meta, load, gen, closed, ioMu, owner, bound, active, shown,
                   modal, uiq, spent>>

\* OnUIThread, gated by closed.
Schedule(j) ==
    /\ Holds(j, "publish") \/ Holds(j, "unwired")
    /\ uiq' = IF closed \/ (job[j].pc = "unwired" /\ Stale(job[j].gen)) THEN uiq
              ELSE uiq \cup {[kind |-> job[j].pc, gen |-> job[j].gen, o |-> j]}
    /\ Go(j, "unlock")
    /\ UNCHANGED <<hstate, meta, load, gen, closed, ioMu, owner, own, bound, active,
                   shown, modal, spent>>

-----------------------------------------
(* retireConnectionLocked, by job j: take the owner if it is the wanted *)
(* one, wait for its commits, close its session, unbind, disconnect. *)

RetireTake(j) ==
    /\ Holds(j, "take")
    /\ IF job[j].want # None /\ owner # job[j].want
         THEN Go(j, job[j].then) /\ UNCHANGED <<owner, own>>
         ELSE /\ owner' = None
              /\ own' = IF owner = None THEN own ELSE [own EXCEPT ![owner].retired = TRUE]
              /\ job' = [job EXCEPT ![j].pc = "commits", ![j].victim = owner]
    /\ UNCHANGED <<hstate, meta, load, gen, closed, ioMu, bound, active, shown, modal,
                   uiq, spent>>

\* commits.retire waited; SQLSession.Close.
RetireSession(j) ==
    /\ Holds(j, "commits")
    /\ LET v == job[j].victim
       IN /\ v # None => ~own[v].commit
          /\ own' = IF v # None /\ own[v].sess = "open"
                      THEN [own EXCEPT ![v].sess = "closed"] ELSE own
    /\ Go(j, "unbind")
    /\ UNCHANGED <<hstate, meta, load, gen, closed, ioMu, owner, bound, active, shown,
                   modal, uiq, spent>>

\* QueryRunner.Unbind, then the first half of ConnectHelper.Disconnect.
RetireUnbind(j) ==
    /\ Holds(j, "unbind")
    /\ bound' = None
    /\ hstate' = NoConn
    /\ meta' = IF hstate = NoConn THEN meta ELSE Unpublished(hstate)
    /\ job' = [job EXCEPT ![j].pc = IF hstate = NoConn THEN job[j].then ELSE "drain",
                          ![j].victim = hstate]
    /\ UNCHANGED <<load, gen, closed, ioMu, owner, own, active, shown, modal, uiq, spent>>

RetireDrain(j) ==
    /\ Holds(j, "drain") /\ WorkerGone(job[j].victim)
    /\ meta' = Disposed(job[j].victim)
    /\ Go(j, job[j].then)
    /\ UNCHANGED <<hstate, load, gen, closed, ioMu, owner, own, bound, active, shown,
                   modal, uiq, spent>>

-----------------------------------------
(* Gui.Close. *)

CloseBegin ==
    /\ ~closed
    /\ Bounded
    /\ closed' = TRUE
    /\ gen' = gen + 1
    /\ uiq' = {}
    /\ job' = [j \in Jobs \cup {Closer} |->
                 IF j = Closer THEN [NoJob EXCEPT !.kind = "retire", !.pc = "wait"]
                 ELSE IF ioMu = j THEN [job[j] EXCEPT !.ctx = TRUE] ELSE job[j]]
    /\ UNCHANGED <<hstate, meta, load, ioMu, owner, own, bound, active, shown, modal>>

\* The workers have ended, or the bounded wait has; then the active session
\* is closed and the owner retired like by any other job.
CloseSession ==
    /\ job[Closer].pc = "wait"
    /\ own' = IF active = None \/ own[active].sess # "open" THEN own
              ELSE [own EXCEPT ![active].sess = "closed"]
    /\ active' = None
    /\ Go(Closer, "io")
    /\ UNCHANGED <<hstate, meta, load, gen, closed, ioMu, owner, bound, shown, modal,
                   uiq, spent>>

\* The Unbind that Close does itself, after retireConnection.
CloseUnbind ==
    /\ job[Closer].pc = "done"
    /\ bound' = None
    /\ Go(Closer, "end")
    /\ UNCHANGED <<hstate, meta, load, gen, closed, ioMu, owner, own, active, shown,
                   modal, uiq, spent>>

-----------------------------------------
JobStep(j) ==
    \/ LockIo(j) \/ UnlockIo(j) \/ RetireTake(j) \/ RetireSession(j)
    \/ RetireUnbind(j) \/ RetireDrain(j)

ConnectStep(j) ==
    \/ ConnectAgain(j) \/ Teardown(j) \/ Dial(j) \/ CheckStale(j) \/ Wire(j) \/ Schedule(j)

LifeStep ==
    \/ \E p \in Profiles : StartAttempt(p)
    \/ Cancel \/ Reconnect \/ DeleteActive \/ StartCommit
    \/ \E o \in Conns : CommitEnds(o)
    \/ \E c \in uiq : Publish(c) \/ PublishError(c)
    \/ \E j \in Jobs \cup {Closer} : JobStep(j)
    \/ \E j \in Jobs : ConnectStep(j)
    \/ CloseBegin \/ CloseSession \/ CloseUnbind

ConnNext == LifeStep \/ (HelperStep /\ UNCHANGED lifeVars)

ConnSpec == ConnInit /\ [][ConnNext]_connVars

-----------------------------------------
(* Properties. *)

\* Who will dispose of what connection o opened: the current owner record, or
\* a job that is opening or retiring it.
InHand(o) ==
    \/ owner = o
    \/ \E j \in Jobs \cup {Closer} :
         /\ ioMu = j
         /\ \/ job[j].victim = o /\ job[j].pc \in {"commits", "unbind", "drain"}
            \/ job[j].pc = "drain" /\ job[j].victim = o

\* No connection leaks: whatever supersedes, cancels, reconnects, deletes or
\* quits, and in whatever order a delayed closure or retirement arrives, what
\* was opened belongs to the current owner or to a job that is disposing of it,
\* and once Close has returned nothing is open or ever opened again
\* (connectWithGen, retireConnectionLocked, Gui.Close).
OwnedOrDisposed ==
    /\ \A o \in Conns : own[o].sess = "open" \/ meta[o].sess = "open" => InHand(o)
    /\ job[Closer].pc = "end" => \A o \in Conns : own[o].sess # "open" /\ meta[o].sess # "open"

\* The runner is bound only to a session that is open and owned, or one whose
\* retirement is between its two steps; and a connection is never closed under
\* a commit that still runs on it (publish closure, retireConnectionLocked).
BoundWhileOwned ==
    /\ bound # None => \/ own[bound].published /\ owner = bound
                       \/ \E j \in Jobs \cup {Closer} :
                            ioMu = j /\ job[j].victim = bound /\ job[j].pc \in {"commits", "unbind"}
    /\ \A o \in Conns : own[o].commit => meta[o].sess = "open"

\* Sessions, bindings and metadata loads follow the owner, through every race of
\* connects, reconnects, deletions and Close (connectWithGen, retireConnection,
\* ConnectHelper.Disconnect).
ConnectionsOwned == OwnedOrDisposed /\ BoundWhileOwned /\ LoadsServed
=============================================================================
