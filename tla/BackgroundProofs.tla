-------------------------- MODULE BackgroundProofs --------------------------
(***************************************************************************)
(* The components beside the query path, each for any number of callers:    *)
(* sessions and metadata loads follow the connection's owner, a transaction *)
(* has one handle that can end it, history entries and table                *)
(* claims are accounted for, and the machine client reports the truth and   *)
(* leaves nothing open.                                                     *)
(***************************************************************************)
EXTENDS MCBackground, FiniteSetTheorems, SequenceTheorems, WellFoundedInduction, TLAPS

-----------------------------------------
(* Connections and metadata sessions: sessions, bindings and metadata loads *)
(* follow the owner, for any number of connection attempts, profiles, loads *)
(* and places in the queue. *)

AllJobs == Jobs \cup {Closer}

\* The positions of a job that holds ioMu; of those, the four of a retirement.
RetirePcs == {"take", "commits", "unbind", "drain"}
MutexPcs == RetirePcs \cup {"unlock", "again", "teardown", "dial", "check", "wire", "publish",
                            "unwired"}

OwnRecs == [profile : Profiles \cup {NoProfile}, sess : {"none", "open", "closed"},
            published : BOOLEAN, commit : BOOLEAN, retired : BOOLEAN]
JobRecs == [kind : {"none", "connect", "reconnect", "retire"},
            pc : MutexPcs \cup {"none", "io", "done", "wait", "end"}, gen : Int,
            profile : Profiles \cup {NoProfile}, ctx : BOOLEAN, want : Conns \cup {None},
            victim : Conns \cup {None}, then : {"none", "unlock", "again", "dial", "unwired"}]
ClosureRecs == [kind : {"error", "unwired", "publish"}, gen : Int, o : Conns \cup {None}]
MetaRecs == [sess : {"none", "open", "closed"}, queue : Seq(Loads), open : BOOLEAN,
             worker : {"none", "idle", "busy", "exited"}, item : Loads \cup {0},
             call : Conns \cup {NoConn}, cache : SUBSET Loads]
LoadRecs == [st : {"idle", "issued", "sending", "waiting", "answered", "ready", "delivered",
                   "dropped"},
             pinned : BOOLEAN, warm : BOOLEAN, on : Conns \cup {NoConn}, ctx : BOOLEAN,
             answer : {"none", "canceled", "replaced", "notconnected", "ok", "failed"}]

LifeTypeOK ==
    /\ hstate \in Conns \cup {NoConn}
    /\ meta \in [Conns -> MetaRecs]
    /\ load \in [Loads -> LoadRecs]
    /\ gen \in Int /\ closed \in BOOLEAN
    /\ ioMu \in AllJobs \cup {Free}
    /\ owner \in Conns \cup {None} /\ own \in [Conns -> OwnRecs]
    /\ bound \in Conns \cup {None} /\ active \in Conns \cup {None}
    /\ shown \in Profiles \cup {NoProfile}
    /\ job \in [AllJobs -> JobRecs]
    /\ uiq \in SUBSET ClosureRecs
    /\ \A c \in uiq : c.kind = "publish" => c.o \in Conns

\* One job at a time is past ioMu; Close's has no work before Close and only
\* retires after it.
IoMutexInv ==
    /\ \A j \in AllJobs : job[j].pc \in MutexPcs <=> ioMu = j
    /\ \A j \in AllJobs : job[j].kind = "none" <=> job[j].pc = "none"
    /\ \A j \in AllJobs : job[j].pc \in RetirePcs => job[j].then # "none"
    /\ ~closed => job[Closer].pc = "none"
    /\ job[Closer].kind \in {"none", "retire"}
    /\ job[Closer].want = None
    /\ job[Closer].pc \in RetirePcs \cup {"none", "wait", "io", "unlock", "done", "end"}
    /\ job[Closer].pc \in RetirePcs => job[Closer].then = "unlock"

\* The job that holds ioMu has taken o out of the owner record.
Retiring(o, pcs) == \E j \in AllJobs : ioMu = j /\ job[j].victim = o /\ job[j].pc \in pcs

\* What the helper has open is the owner's, or in the hand of the job that
\* retires it.
HolderInv ==
    /\ owner # None => hstate = owner
    /\ hstate # NoConn => owner = hstate \/ Retiring(hstate, {"commits", "unbind"})
    /\ \A j \in AllJobs :
        /\ job[j].pc \in {"check", "wire"} => owner = j
        /\ job[j].pc \in {"commits", "unbind"} => owner = None /\ job[j].victim = hstate
        /\ job[j].pc = "drain" =>
             /\ owner = None /\ hstate = NoConn
             /\ job[j].victim \in Conns /\ meta[job[j].victim].sess = "open"

\* A helper state is open while it is current, its session until its worker
\* has been waited for.
MetaInv ==
    \A s \in Conns :
        /\ meta[s].open <=> hstate = s
        /\ hstate = s => meta[s].sess = "open"
        /\ meta[s].sess = "open" => hstate = s \/ Retiring(s, {"drain"})
        /\ meta[s].sess = "open" <=> meta[s].worker \in {"idle", "busy"} \/ Retiring(s, {"drain"})
        /\ meta[s].open => meta[s].worker \in {"idle", "busy"}
        /\ meta[s].worker \in {"none", "exited"} => meta[s].queue = <<>>
        /\ meta[s].worker = "busy" => meta[s].call = s /\ meta[s].item \in Loads

\* The query session and the commits of an owner that has not been retired.
OwnInv ==
    \A o \in Conns : own[o].sess = "open" \/ own[o].commit =>
        owner = o \/ Retiring(o, {"commits"})

BoundInv ==
    bound # None => /\ own[bound].published
                    /\ owner = bound \/ Retiring(bound, {"commits", "unbind"})

\* On its way to a dial, or behind one.
Dialling(j) ==
    \/ job[j].pc \in {"teardown", "dial", "check", "wire", "publish", "unwired"}
    \/ job[j].pc \in RetirePcs /\ job[j].then \in {"dial", "unwired"}

\* Once Close's retirement is through, nothing is open and nobody opens.
ClosedInv ==
    job[Closer].pc \in {"unlock", "done", "end"} =>
        /\ owner = None /\ hstate = NoConn
        /\ \A j \in AllJobs : ~Dialling(j) /\ job[j].pc # "drain"

LoadQueued(l, s) == \E i \in 1..Len(meta[s].queue) : meta[s].queue[i] = l

LoadInv ==
    /\ \A l \in Loads : load[l].st \in {"sending", "waiting"} => load[l].on \in Conns
    /\ \A s \in Conns : \A l \in Loads : load[l].st = "waiting" /\ load[l].on = s =>
         \/ LoadQueued(l, s)
         \/ meta[s].worker = "busy" /\ meta[s].item = l
    /\ \A s \in Conns : \A l \in meta[s].cache :
         load[l].on = s /\ load[l].st \notin {"idle", "issued"}

LifeInv == /\ LifeTypeOK /\ IoMutexInv /\ HolderInv /\ MetaInv
           /\ OwnInv /\ BoundInv /\ ClosedInv /\ LoadInv

-----------------------------------------
(* The constants, the jobs and the mutex. *)

LEMMA JobNames ==
    /\ Closer \in AllJobs /\ Closer \notin Jobs /\ Free \notin AllJobs /\ Jobs \subseteq AllJobs
    /\ AllJobs = Jobs \cup {Closer} /\ Jobs = Conns
    /\ None \notin Conns /\ NoConn \notin Conns /\ None = NoConn
    /\ Conns \subseteq Nat
BY HelperAssumption DEF AllJobs, Jobs, Closer, Free, None, NoConn

LEMMA LeastNumber ==
    ASSUME NEW S \in SUBSET Nat, S # {}
    PROVE  \E p \in S : \A q \in S : p <= q
<1>1. PICK p \in S : \A q \in S : ~(<<q, p>> \in OpToRel(<, Nat)) BY NatLessThanWellFounded, WFMin
<1>2. \A q \in S : ~(q < p) BY <1>1 DEF OpToRel
<1>3. QED BY <1>2

\* OnWorker starts a job that had nothing to do, or, after Close, none.
LEMMA SpawnFacts ==
    ASSUME LifeTypeOK, NEW js \in [AllJobs -> JobRecs], js = job,
           NEW kind \in {"connect", "reconnect", "retire"}, NEW p \in Profiles \cup {NoProfile},
           NEW g \in Int, NEW want \in Conns \cup {None}
    PROVE  /\ Spawn(js, kind, p, g, want) \in [AllJobs -> JobRecs]
           /\ \A j \in AllJobs :
                \/ Spawn(js, kind, p, g, want)[j] = js[j]
                \/ /\ j # Closer /\ js[j].kind = "none"
                   /\ Spawn(js, kind, p, g, want)[j].kind = kind
                   /\ Spawn(js, kind, p, g, want)[j].pc = "io"
                   /\ Spawn(js, kind, p, g, want)[j].want = want
<1>1. CASE closed \/ Unused = {} BY <1>1 DEF Spawn
<1>2. CASE ~(closed \/ Unused = {})
  <2>1. Unused \in SUBSET Nat /\ Unused # {} BY <1>2, JobNames DEF Unused
  <2>2. \E j \in Unused : \A k \in Unused : j <= k BY <2>1, LeastNumber
  <2>3. PICK n : n = NextJob OBVIOUS
  <2>4. n \in Unused BY <2>2, <2>3 DEF NextJob
  <2>5. n \in AllJobs /\ n # Closer /\ js[n].kind = "none" BY <2>4, JobNames DEF Unused
  <2>6. PICK r : r = [NoJob EXCEPT !.kind = kind, !.pc = "io", !.profile = p, !.gen = g,
                                  !.want = want]
    OBVIOUS
  <2>8. r = [kind |-> kind, pc |-> "io", gen |-> g, profile |-> p, ctx |-> FALSE, want |-> want,
             victim |-> None, then |-> "none"]
    BY <2>6 DEF NoJob
  <2>9. r \in JobRecs /\ r.kind = kind /\ r.pc = "io" /\ r.want = want BY <2>8 DEF JobRecs
  <2>7. Spawn(js, kind, p, g, want) = [js EXCEPT ![n] = r] BY <1>2, <2>3, <2>6 DEF Spawn
  <2> QED BY <2>5, <2>7, <2>9
<1> QED BY <1>1, <1>2

\* A job's record after a step of its own.
LEMMA RecordMoves ==
    ASSUME NEW q \in JobRecs, NEW pc \in MutexPcs \cup {"io", "done", "wait", "end"}
    PROVE  /\ [q EXCEPT !.pc = pc] \in JobRecs /\ [q EXCEPT !.pc = pc].pc = pc
           /\ [q EXCEPT !.pc = pc].kind = q.kind /\ [q EXCEPT !.pc = pc].victim = q.victim
           /\ [q EXCEPT !.pc = pc].then = q.then /\ [q EXCEPT !.pc = pc].want = q.want
BY DEF JobRecs

\* The one holder of ioMu moves on and the others stay outside.
LEMMA HolderMoves ==
    ASSUME LifeInv, NEW j \in AllJobs, ioMu = j, UNCHANGED <<ioMu, closed>>,
           NEW r \in JobRecs, job' = [job EXCEPT ![j] = r],
           r.pc \in MutexPcs, r.kind = job[j].kind,
           r.pc \in RetirePcs => r.then # "none",
           j = Closer => /\ r.pc \in RetirePcs \cup {"unlock"} /\ r.want = None
                         /\ r.pc \in RetirePcs => r.then = "unlock"
    PROVE  /\ IoMutexInv' /\ job' \in [AllJobs -> JobRecs] /\ job'[j] = r
           /\ job[j].pc \in MutexPcs
           /\ \A k \in AllJobs : k # j => job'[k] = job[k] /\ job[k].pc \notin MutexPcs
<1>1. /\ job \in [AllJobs -> JobRecs] /\ ioMu' = j
      /\ job'[j] = r /\ \A k \in AllJobs : k # j => job'[k] = job[k]
  BY DEF LifeInv, LifeTypeOK
<1>2. job' \in [AllJobs -> JobRecs] BY <1>1
<1>3. job[j].pc \in MutexPcs /\ job[j].pc # "none" /\ job[j].kind # "none"
  BY DEF LifeInv, IoMutexInv, MutexPcs, RetirePcs
<1>4. \A k \in AllJobs : k # j => job[k].pc \notin MutexPcs BY DEF LifeInv, IoMutexInv
<1>5. Closer \in AllJobs BY JobNames
<1>6. \A k \in AllJobs : job'[k].pc \in MutexPcs <=> ioMu' = k BY <1>1, <1>3, <1>4
<1>7. \A k \in AllJobs : job'[k].kind = "none" <=> job'[k].pc = "none"
  <2>1. r.pc # "none" BY DEF MutexPcs, RetirePcs
  <2> QED BY <1>1, <1>3, <2>1 DEF LifeInv, IoMutexInv
<1>8. \A k \in AllJobs : job'[k].pc \in RetirePcs => job'[k].then # "none" BY <1>1 DEF LifeInv, IoMutexInv
<1>9. ~closed' => job'[Closer].pc = "none" BY <1>1, <1>3, <1>5 DEF LifeInv, IoMutexInv
<1>10. /\ job'[Closer].kind \in {"none", "retire"} /\ job'[Closer].want = None
       /\ job'[Closer].pc \in RetirePcs \cup {"none", "wait", "io", "unlock", "done", "end"}
       /\ job'[Closer].pc \in RetirePcs => job'[Closer].then = "unlock"
  BY <1>1, <1>5 DEF LifeInv, IoMutexInv
<1> QED BY <1>1, <1>2, <1>3, <1>4, <1>6, <1>7, <1>8, <1>9, <1>10 DEF IoMutexInv

-----------------------------------------
(* Steps beside the mutex. *)

\* No job crosses ioMu: one may start, or go from one place outside to another.
Beside ==
    /\ ioMu' = ioMu
    /\ \A j \in AllJobs :
         /\ job[j].pc \in MutexPcs \/ job'[j].pc \in MutexPcs =>
              /\ job'[j].pc = job[j].pc /\ job'[j].victim = job[j].victim
              /\ job'[j].then = job[j].then
         /\ job'[j].kind = "none" <=> job'[j].pc = "none"

LEMMA BesideFacts ==
    ASSUME Beside
    PROVE  /\ \A o, pcs : pcs \subseteq MutexPcs => (Retiring(o, pcs)' <=> Retiring(o, pcs))
           /\ \A j \in AllJobs : Dialling(j)' => Dialling(j)
<1>1. ASSUME NEW o, NEW pcs, pcs \subseteq MutexPcs
      PROVE  Retiring(o, pcs)' <=> Retiring(o, pcs)
  BY <1>1 DEF Beside, Retiring
<1>2. ASSUME NEW j \in AllJobs, Dialling(j)'
      PROVE  Dialling(j)
  <2>1. job'[j].pc \in MutexPcs BY <1>2 DEF Dialling, MutexPcs
  <2>2. job'[j].pc = job[j].pc /\ job'[j].then = job[j].then BY <2>1 DEF Beside
  <2> QED BY <1>2, <2>2 DEF Dialling
<1> QED BY <1>1, <1>2

\* What the connections are in is then as before.
LEMMA BesideKeeps ==
    ASSUME LifeInv, Beside, LifeTypeOK', UNCHANGED <<hstate, meta, load, owner>>,
           \A o \in Conns : own'[o].sess = "open" \/ own'[o].commit =>
             own[o].sess = "open" \/ own[o].commit \/ owner = o,
           BoundInv',
           closed => closed',
           job'[Closer].kind \in {"none", "retire"}, job'[Closer].want = None,
           job'[Closer].pc = job[Closer].pc \/ (closed' /\ job'[Closer].pc \in {"wait", "io", "end"}),
           job'[Closer].pc \in {"unlock", "done", "end"} => job[Closer].pc \in {"unlock", "done", "end"}
    PROVE  LifeInv'
<1>1. Closer \in AllJobs BY JobNames
<1>2. /\ \A o \in Conns \cup {NoConn} :
           /\ Retiring(o, {"commits", "unbind"})' <=> Retiring(o, {"commits", "unbind"})
           /\ Retiring(o, {"commits"})' <=> Retiring(o, {"commits"})
           /\ Retiring(o, {"drain"})' <=> Retiring(o, {"drain"})
      /\ \A j \in AllJobs : Dialling(j)' => Dialling(j)
  <2>1. /\ {"commits", "unbind"} \subseteq MutexPcs /\ {"commits"} \subseteq MutexPcs
        /\ {"drain"} \subseteq MutexPcs
    BY DEF MutexPcs, RetirePcs
  <2> QED BY <2>1, BesideFacts
<1>3. \A j \in AllJobs : job'[j].pc \in MutexPcs <=> ioMu' = j
  <2>1. ASSUME NEW j \in AllJobs PROVE job'[j].pc \in MutexPcs <=> job[j].pc \in MutexPcs BY DEF Beside
  <2> QED BY <2>1 DEF Beside, LifeInv, IoMutexInv
<1>4. \A j \in AllJobs : job'[j].pc \in RetirePcs => job'[j].then # "none"
  <2>1. RetirePcs \subseteq MutexPcs BY DEF MutexPcs
  <2> QED BY <2>1 DEF Beside, LifeInv, IoMutexInv
<1>5. /\ ~closed' => job'[Closer].pc = "none"
      /\ job'[Closer].pc \in RetirePcs \cup {"none", "wait", "io", "unlock", "done", "end"}
      /\ job'[Closer].pc \in RetirePcs => job'[Closer].then = "unlock"
  <2>1. ~closed' => job'[Closer].pc = "none" BY DEF LifeInv, IoMutexInv, LifeTypeOK
  <2>2. job'[Closer].pc \in RetirePcs \cup {"none", "wait", "io", "unlock", "done", "end"} BY DEF LifeInv, IoMutexInv
  <2>3. job'[Closer].pc \in RetirePcs => job'[Closer].then = "unlock"
    <3>1. RetirePcs \subseteq MutexPcs BY DEF MutexPcs
    <3> QED BY <1>1, <3>1 DEF Beside, LifeInv, IoMutexInv
  <2> QED BY <2>1, <2>2, <2>3
<1>6. IoMutexInv' BY <1>3, <1>4, <1>5 DEF IoMutexInv, Beside
<1>7. HolderInv'
  <2>1. ASSUME NEW j \in AllJobs, job'[j].pc \in {"check", "wire", "commits", "unbind", "drain"}
        PROVE  job'[j].pc = job[j].pc /\ job'[j].victim = job[j].victim
    <3>1. job'[j].pc \in MutexPcs BY <2>1 DEF MutexPcs, RetirePcs
    <3> QED BY <3>1 DEF Beside
  <2>2. hstate \in Conns \cup {NoConn} BY DEF LifeInv, LifeTypeOK
  <2> QED BY <1>2, <2>1, <2>2 DEF LifeInv, HolderInv
<1>8. MetaInv' BY <1>2 DEF LifeInv, MetaInv
<1>9. OwnInv' BY <1>2 DEF LifeInv, OwnInv
<1>10. ClosedInv'
  <2>1. ASSUME NEW j \in AllJobs, job'[j].pc = "drain"
        PROVE  job[j].pc = "drain"
    <3>1. job'[j].pc \in MutexPcs BY <2>1 DEF MutexPcs, RetirePcs
    <3> QED BY <2>1, <3>1 DEF Beside
  <2> QED BY <1>2, <2>1 DEF LifeInv, ClosedInv
<1>11. LoadInv' BY DEF LifeInv, LoadInv, LoadQueued
<1> QED BY <1>6, <1>7, <1>8, <1>9, <1>10, <1>11 DEF LifeInv

LEMMA SpawnBeside ==
    ASSUME LifeInv, ioMu' = ioMu,
           NEW kind \in {"connect", "reconnect", "retire"}, NEW p \in Profiles \cup {NoProfile},
           NEW g \in Int, NEW want \in Conns \cup {None}, job' = Spawn(job, kind, p, g, want)
    PROVE  Beside /\ job' \in [AllJobs -> JobRecs] /\ job'[Closer] = job[Closer]
<1>1. LifeTypeOK /\ job \in [AllJobs -> JobRecs] /\ Closer \in AllJobs BY JobNames DEF LifeInv, LifeTypeOK
<1>2. PICK js \in [AllJobs -> JobRecs] : js = job BY <1>1
<1>3. PICK ks : ks = Spawn(js, kind, p, g, want) OBVIOUS
<1>4. /\ ks \in [AllJobs -> JobRecs]
      /\ \A j \in AllJobs :
           \/ ks[j] = js[j]
           \/ j # Closer /\ js[j].kind = "none" /\ ks[j].kind = kind /\ ks[j].pc = "io"
  BY <1>1, <1>2, <1>3, SpawnFacts
<1>5. job' = ks BY <1>2, <1>3
<1>6. ASSUME NEW j \in AllJobs
      PROVE  /\ job[j].pc \in MutexPcs \/ job'[j].pc \in MutexPcs =>
                  /\ job'[j].pc = job[j].pc /\ job'[j].victim = job[j].victim
                  /\ job'[j].then = job[j].then
             /\ job'[j].kind = "none" <=> job'[j].pc = "none"
  <2>1. job[j].kind = "none" <=> job[j].pc = "none" BY DEF LifeInv, IoMutexInv
  <2>2. "none" \notin MutexPcs /\ "io" \notin MutexPcs BY DEF MutexPcs, RetirePcs
  <2> QED BY <1>2, <1>4, <1>5, <2>1, <2>2
<1> QED BY <1>1, <1>2, <1>4, <1>5, <1>6 DEF Beside

LEMMA BoundFrame ==
    ASSUME LifeInv, Beside, owner' = owner, bound' \in {bound, None},
           \A o \in Conns : own[o].published => own'[o].published
    PROVE  BoundInv'
<1> SUFFICES ASSUME bound' # None
             PROVE  own'[bound'].published /\ (owner' = bound' \/ Retiring(bound, {"commits", "unbind"})')
  BY DEF BoundInv
<1>1. bound' = bound /\ bound \in Conns BY DEF LifeInv, LifeTypeOK
<1>2. {"commits", "unbind"} \subseteq MutexPcs BY DEF MutexPcs, RetirePcs
<1>3. Retiring(bound, {"commits", "unbind"})' <=> Retiring(bound, {"commits", "unbind"})
  BY <1>2, BesideFacts, <1>1 DEF Beside, Retiring
<1> QED BY <1>1, <1>3 DEF LifeInv, BoundInv

\* Actions that start a job at most.
LEMMA StartAttemptKeeps == ASSUME LifeInv, NEW p \in Profiles, StartAttempt(p) PROVE LifeInv'
<1>1. gen + 1 \in Int /\ gen' = gen + 1 BY DEF LifeInv, LifeTypeOK, StartAttempt
<1>2. PICK g \in Int : g = gen + 1 BY <1>1
<1>3. job' = Spawn(job, "connect", p, g, None) /\ ioMu' = ioMu BY <1>2 DEF StartAttempt
<1>4. Beside /\ job' \in [AllJobs -> JobRecs] /\ job'[Closer] = job[Closer] BY <1>3, SpawnBeside
<1>5. UNCHANGED <<hstate, meta, load, closed, ioMu, owner, own, bound, active, shown, uiq>> BY DEF StartAttempt
<1>6. LifeTypeOK' BY <1>1, <1>4, <1>5 DEF LifeInv, LifeTypeOK
<1>7. BoundInv' BY <1>4, <1>5, BoundFrame
<1> QED BY <1>4, <1>5, <1>6, <1>7, BesideKeeps DEF LifeInv, IoMutexInv

LEMMA ReconnectKeeps == ASSUME LifeInv, Reconnect PROVE LifeInv'
<1>1. shown \in Profiles \cup {NoProfile} /\ job' = Spawn(job, "reconnect", shown, 0, None)
      /\ UNCHANGED <<hstate, meta, load, gen, closed, ioMu, owner, own, bound, active, shown, uiq>>
  BY DEF LifeInv, LifeTypeOK, Reconnect
<1>2. PICK p \in Profiles \cup {NoProfile} : p = shown BY <1>1
<1>3. Beside /\ job' \in [AllJobs -> JobRecs] /\ job'[Closer] = job[Closer] BY <1>1, <1>2, SpawnBeside
<1>4. LifeTypeOK' BY <1>1, <1>3 DEF LifeInv, LifeTypeOK
<1>5. BoundInv' BY <1>1, <1>3, BoundFrame
<1> QED BY <1>1, <1>3, <1>4, <1>5, BesideKeeps DEF LifeInv, IoMutexInv

LEMMA JobsStand ==
    ASSUME LifeInv, UNCHANGED <<ioMu, job>>
    PROVE  Beside /\ job' \in [AllJobs -> JobRecs] /\ job'[Closer] = job[Closer]
BY DEF LifeInv, LifeTypeOK, IoMutexInv, Beside

LEMMA DeleteKeeps == ASSUME LifeInv, DeleteActive PROVE LifeInv'
<1>1. /\ UNCHANGED <<hstate, meta, load, gen, closed, ioMu, owner, own, uiq>>
      /\ bound' = None /\ active' = None /\ shown' = NoProfile
  BY DEF DeleteActive
<1>2. Beside /\ job' \in [AllJobs -> JobRecs] /\ job'[Closer] = job[Closer]
  <2>1. PICK want \in Conns \cup {None} : want = owner BY DEF LifeInv, LifeTypeOK
  <2>2. job' = Spawn(job, "retire", NoProfile, 0, want) \/ job' = job BY <2>1 DEF DeleteActive
  <2> QED BY <1>1, <2>2, SpawnBeside, JobsStand
<1>3. LifeTypeOK' BY <1>1, <1>2 DEF LifeInv, LifeTypeOK
<1>4. BoundInv' BY <1>1, <1>2, BoundFrame
<1> QED BY <1>1, <1>2, <1>3, <1>4, BesideKeeps DEF LifeInv, IoMutexInv

\* Esc only cancels contexts.
LEMMA CancelKeeps == ASSUME LifeInv, Cancel PROVE LifeInv'
<1>1. /\ UNCHANGED <<hstate, meta, load, closed, ioMu, owner, own, bound, active, shown, uiq>>
      /\ gen' = gen + 1 /\ Closer \in AllJobs /\ AllJobs = Jobs \cup {Closer}
  BY JobNames DEF Cancel
<1>2. ASSUME NEW j \in AllJobs
      PROVE  /\ job'[j] \in JobRecs /\ job'[j].pc = job[j].pc /\ job'[j].kind = job[j].kind
             /\ job'[j].victim = job[j].victim /\ job'[j].then = job[j].then
             /\ job'[j].want = job[j].want
  <2>1. job'[j] = [job[j] EXCEPT !.ctx = TRUE] \/ job'[j] = job[j] BY <1>1 DEF Cancel
  <2>2. job[j] \in JobRecs BY DEF LifeInv, LifeTypeOK
  <2> QED BY <2>1, <2>2 DEF JobRecs
<1>3. job' \in [AllJobs -> JobRecs]
  <2>1. job' = [j \in AllJobs |-> job'[j]] BY <1>1 DEF Cancel
  <2> QED BY <1>2, <2>1
<1>4. Beside BY <1>1, <1>2 DEF LifeInv, IoMutexInv, Beside
<1>5. LifeTypeOK' BY <1>1, <1>3 DEF LifeInv, LifeTypeOK
<1>6. BoundInv' BY <1>1, <1>4, BoundFrame
<1>7. job'[Closer].kind = job[Closer].kind /\ job'[Closer].want = job[Closer].want
      /\ job'[Closer].pc = job[Closer].pc
  BY <1>1, <1>2
<1> QED BY <1>1, <1>4, <1>5, <1>6, <1>7, BesideKeeps DEF LifeInv, IoMutexInv

\* An owner's record after a step on one of its fields.
LEMMA OwnPublishes ==
    ASSUME NEW q \in OwnRecs, NEW r, r = [q EXCEPT !.published = TRUE]
    PROVE  r \in OwnRecs /\ r.published /\ r.sess = q.sess /\ r.commit = q.commit
<1>1. r \in OwnRecs BY DEF OwnRecs
<1>2. r.published = TRUE /\ r.sess = q.sess /\ r.commit = q.commit BY DEF OwnRecs
<1> QED BY <1>1, <1>2

LEMMA OwnSession ==
    ASSUME NEW q \in OwnRecs, NEW st \in {"open", "closed"}, NEW r, r = [q EXCEPT !.sess = st]
    PROVE  /\ r \in OwnRecs /\ r.published = q.published /\ r.sess = st /\ r.commit = q.commit
<1>1. r \in OwnRecs BY DEF OwnRecs
<1>2. r.published = q.published /\ r.sess = st /\ r.commit = q.commit BY DEF OwnRecs
<1> QED BY <1>1, <1>2

\* A commit starts on the current owner, and ends where it started.
LEMMA CommitKeeps ==
    ASSUME LifeInv, StartCommit \/ (\E o \in Conns : CommitEnds(o))
    PROVE  LifeInv'
<1>1. PICK o \in Conns, b \in BOOLEAN : /\ own' = [own EXCEPT ![o].commit = b]
                                        /\ b => owner = o
  <2>1. CASE StartCommit BY <2>1 DEF StartCommit, LifeInv, LifeTypeOK
  <2>2. CASE \E o \in Conns : CommitEnds(o) BY <2>2 DEF CommitEnds
  <2> QED BY <2>1, <2>2
<1>2. UNCHANGED <<hstate, meta, load, gen, closed, ioMu, owner, bound, active, shown, job, uiq>>
  BY DEF StartCommit, CommitEnds
<1>3. own \in [Conns -> OwnRecs] BY DEF LifeInv, LifeTypeOK
<1>4. /\ own' \in [Conns -> OwnRecs]
      /\ \A c \in Conns : /\ own'[c].published = own[c].published /\ own'[c].sess = own[c].sess
                          /\ own'[c].commit => own[c].commit \/ owner = c
  <2>1. [own[o] EXCEPT !.commit = b] \in OwnRecs BY <1>3 DEF OwnRecs
  <2>2. own' = [own EXCEPT ![o] = [own[o] EXCEPT !.commit = b]] BY <1>1
  <2>3. own' \in [Conns -> OwnRecs] BY <1>3, <2>1, <2>2
  <2>4. ASSUME NEW c \in Conns
        PROVE  /\ own'[c].published = own[c].published /\ own'[c].sess = own[c].sess
               /\ own'[c].commit => own[c].commit \/ owner = c
    <3>1. own[c] \in OwnRecs BY <1>3
    <3> QED BY <1>1, <1>3, <2>2, <3>1 DEF OwnRecs
  <2> QED BY <2>3, <2>4
<1>5. Beside /\ job'[Closer] = job[Closer] BY <1>2, JobsStand
<1>6. LifeTypeOK' BY <1>2, <1>4 DEF LifeInv, LifeTypeOK
<1>7. BoundInv' BY <1>2, <1>4, <1>5, BoundFrame
<1> QED BY <1>2, <1>4, <1>5, <1>6, <1>7, BesideKeeps DEF LifeInv, IoMutexInv

\* The publish closure binds the runner to the owner it is still about.
LEMMA PublishKeeps == ASSUME LifeInv, NEW c \in uiq, Publish(c) PROVE LifeInv'
<1>1. c \in ClosureRecs /\ c.o \in Conns BY DEF LifeInv, LifeTypeOK, Publish
<1>2. /\ UNCHANGED <<hstate, meta, load, gen, closed, ioMu, owner>>
      /\ uiq' \subseteq uiq
  BY DEF Publish
<1>3. CASE Stale(c.gen) \/ owner # c.o
  <2>1. UNCHANGED <<own, bound, active, shown>> /\ job' = Spawn(job, "retire", NoProfile, 0, c.o) BY <1>3 DEF Publish
  <2>2. PICK want \in Conns \cup {None} : want = c.o BY <1>1
  <2>3. Beside /\ job' \in [AllJobs -> JobRecs] /\ job'[Closer] = job[Closer] BY <1>2, <2>1, <2>2, SpawnBeside
  <2>4. LifeTypeOK' BY <1>2, <2>1, <2>3 DEF LifeInv, LifeTypeOK
  <2>5. BoundInv' BY <1>2, <2>1, <2>3, BoundFrame
  <2> QED BY <1>2, <2>1, <2>3, <2>4, <2>5, BesideKeeps DEF LifeInv, IoMutexInv
<1>4. CASE ~(Stale(c.gen) \/ owner # c.o)
  <2>1. PICK o \in Conns : o = c.o /\ o = owner BY <1>1, <1>4
  <2>2. /\ own' = [own EXCEPT ![o].published = TRUE] /\ bound' = o /\ active' = o
        /\ shown' = own[o].profile /\ job' = job
    BY <1>4, <2>1 DEF Publish
  <2>3. own \in [Conns -> OwnRecs] /\ own[o] \in OwnRecs BY DEF LifeInv, LifeTypeOK
  <2>4. PICK r : /\ r = [own[o] EXCEPT !.published = TRUE] /\ r \in OwnRecs
                 /\ r.published /\ r.sess = own[o].sess /\ r.commit = own[o].commit
    BY <2>3, OwnPublishes
  <2>5. own' = [own EXCEPT ![o] = r] BY <2>2, <2>4
  <2>6. /\ own' \in [Conns -> OwnRecs] /\ own'[o].published
        /\ \A d \in Conns : own'[d].sess = own[d].sess /\ own'[d].commit = own[d].commit
    BY <2>3, <2>4, <2>5
  <2>7. Beside /\ job' \in [AllJobs -> JobRecs] /\ job'[Closer] = job[Closer] BY <1>2, <2>2, JobsStand
  <2>8. LifeTypeOK'
    <3>1. own[o].profile \in Profiles \cup {NoProfile} BY <2>3 DEF OwnRecs
    <3> QED BY <1>2, <2>2, <2>6, <2>7, <3>1 DEF LifeInv, LifeTypeOK
  <2>9. BoundInv' BY <1>2, <2>1, <2>2, <2>6 DEF BoundInv
  <2> QED BY <1>2, <2>6, <2>7, <2>8, <2>9, BesideKeeps DEF LifeInv, IoMutexInv
<1> QED BY <1>3, <1>4

LEMMA PublishErrorKeeps == ASSUME LifeInv, NEW c \in uiq, PublishError(c) PROVE LifeInv'
<1>1. /\ UNCHANGED <<hstate, meta, load, gen, closed, ioMu, owner, own, bound, active, job>>
      /\ uiq' \subseteq uiq /\ shown' \in {shown, NoProfile}
  BY DEF PublishError
<1>2. Beside /\ job'[Closer] = job[Closer] BY <1>1, JobsStand
<1>3. LifeTypeOK' BY <1>1 DEF LifeInv, LifeTypeOK
<1>4. BoundInv' BY <1>1, <1>2, BoundFrame
<1> QED BY <1>1, <1>2, <1>3, <1>4, BesideKeeps DEF LifeInv, IoMutexInv

-----------------------------------------
(* Close, beside the mutex. *)

LEMMA CloseBeginKeeps == ASSUME LifeInv, CloseBegin PROVE LifeInv'
<1>1. /\ UNCHANGED <<hstate, meta, load, ioMu, owner, own, bound, active, shown>>
      /\ ~closed /\ closed' /\ closed' \in BOOLEAN /\ gen' = gen + 1 /\ uiq' = {}
      /\ Closer \in AllJobs /\ AllJobs = Jobs \cup {Closer}
  BY JobNames DEF CloseBegin
<1>2. job'[Closer] = [NoJob EXCEPT !.kind = "retire", !.pc = "wait"] BY <1>1 DEF CloseBegin
<1>3. /\ job'[Closer] \in JobRecs /\ job'[Closer].pc = "wait" /\ job'[Closer].kind = "retire"
      /\ job'[Closer].want = None
  <2>1. job'[Closer] = [kind |-> "retire", pc |-> "wait", gen |-> 0, profile |-> NoProfile,
                        ctx |-> FALSE, want |-> None, victim |-> None, then |-> "none"]
    BY <1>2 DEF NoJob
  <2> QED BY <2>1 DEF JobRecs
<1>4. ASSUME NEW j \in AllJobs, j # Closer
      PROVE  /\ job'[j] \in JobRecs /\ job'[j].pc = job[j].pc /\ job'[j].kind = job[j].kind
             /\ job'[j].victim = job[j].victim /\ job'[j].then = job[j].then
  <2>1. job'[j] = [job[j] EXCEPT !.ctx = TRUE] \/ job'[j] = job[j] BY <1>1, <1>4 DEF CloseBegin
  <2>2. job[j] \in JobRecs BY DEF LifeInv, LifeTypeOK
  <2> QED BY <2>1, <2>2 DEF JobRecs
<1>5. job' \in [AllJobs -> JobRecs]
  <2>1. job' = [j \in AllJobs |-> job'[j]] BY <1>1 DEF CloseBegin
  <2> QED BY <1>3, <1>4, <2>1
<1>6. job[Closer].pc = "none" /\ "none" \notin MutexPcs /\ "wait" \notin MutexPcs
  BY <1>1 DEF LifeInv, IoMutexInv, MutexPcs, RetirePcs
<1>7. Beside BY <1>1, <1>3, <1>4, <1>6 DEF LifeInv, IoMutexInv, Beside
<1>8. LifeTypeOK' BY <1>1, <1>5 DEF LifeInv, LifeTypeOK
<1>9. BoundInv' BY <1>1, <1>7, BoundFrame
<1> QED BY <1>1, <1>3, <1>6, <1>7, <1>8, <1>9, BesideKeeps

\* A step of Close's own that does not touch ioMu.
LEMMA CloserMoves ==
    ASSUME LifeInv, ioMu' = ioMu, NEW pc \in {"io", "end"}, Go(Closer, pc),
           job[Closer].pc \in {"wait", "done"}
    PROVE  /\ Beside /\ job' \in [AllJobs -> JobRecs] /\ job'[Closer].pc = pc
           /\ job'[Closer].kind = "retire" /\ job'[Closer].want = None
           /\ closed
<1>1. Closer \in AllJobs /\ job \in [AllJobs -> JobRecs] /\ job[Closer] \in JobRecs BY JobNames DEF LifeInv, LifeTypeOK
<1>2. PICK r \in JobRecs : /\ r = [job[Closer] EXCEPT !.pc = pc] /\ r.pc = pc
                           /\ r.kind = job[Closer].kind /\ r.want = job[Closer].want
  <2>1. PICK q \in JobRecs : q = job[Closer] BY <1>1
  <2>2. pc \in MutexPcs \cup {"io", "done", "wait", "end"} OBVIOUS
  <2>3. PICK r : r = [q EXCEPT !.pc = pc] OBVIOUS
  <2>4. r \in JobRecs /\ r.pc = pc /\ r.kind = q.kind /\ r.want = q.want BY <2>2, <2>3, RecordMoves
  <2> QED BY <2>1, <2>3, <2>4
<1>3. job' = [job EXCEPT ![Closer] = r] BY <1>2 DEF Go
<1>4. /\ job' \in [AllJobs -> JobRecs] /\ job'[Closer] = r
      /\ \A j \in AllJobs : j # Closer => job'[j] = job[j]
  BY <1>1, <1>3
<1>5. /\ job[Closer].kind = "retire" /\ job[Closer].want = None
      /\ closed
  BY <1>1 DEF LifeInv, IoMutexInv, LifeTypeOK
<1>6. {"io", "end", "wait", "done"} \cap MutexPcs = {} /\ pc # "none" BY DEF MutexPcs, RetirePcs
<1>7. ASSUME NEW j \in AllJobs
      PROVE  /\ job[j].pc \in MutexPcs \/ job'[j].pc \in MutexPcs =>
                  /\ job'[j].pc = job[j].pc /\ job'[j].victim = job[j].victim
                  /\ job'[j].then = job[j].then
             /\ job'[j].kind = "none" <=> job'[j].pc = "none"
  <2>1. CASE j = Closer BY <1>2, <1>4, <1>5, <1>6, <2>1
  <2>2. CASE j # Closer
    <3>1. job'[j] = job[j] BY <1>4, <2>2
    <3> QED BY <3>1 DEF LifeInv, IoMutexInv
  <2> QED BY <2>1, <2>2
<1>8. Beside BY <1>7 DEF Beside
<1> QED BY <1>2, <1>4, <1>5, <1>8

LEMMA CloseSessionKeeps == ASSUME LifeInv, CloseSession PROVE LifeInv'
<1>1. /\ UNCHANGED <<hstate, meta, load, gen, closed, ioMu, owner, bound, shown, uiq>>
      /\ active' = None /\ Go(Closer, "io") /\ job[Closer].pc = "wait"
  BY DEF CloseSession
<1>2. /\ Beside /\ job' \in [AllJobs -> JobRecs] /\ job'[Closer].pc = "io"
      /\ job'[Closer].kind = "retire" /\ job'[Closer].want = None /\ closed
  BY <1>1, CloserMoves
<1>3. own \in [Conns -> OwnRecs] BY DEF LifeInv, LifeTypeOK
<1>4. /\ own' \in [Conns -> OwnRecs]
      /\ \A c \in Conns : /\ own'[c].published = own[c].published
                          /\ own'[c].commit = own[c].commit
                          /\ own'[c].sess = "open" => own[c].sess = "open"
  <2>1. CASE own' = own BY <1>3, <2>1
  <2>2. CASE own' # own
    <3>1. PICK a \in Conns : a = active BY <2>2 DEF CloseSession, LifeInv, LifeTypeOK
    <3>2. PICK q \in OwnRecs : q = own[a] BY <1>3
    <3>3. PICK r : r = [q EXCEPT !.sess = "closed"] OBVIOUS
    <3>4. /\ r \in OwnRecs /\ r.published = q.published /\ r.sess = "closed"
          /\ r.commit = q.commit
      BY <3>3, OwnSession
    <3>5. own' = [own EXCEPT ![a] = r] BY <2>2, <3>1, <3>2, <3>3 DEF CloseSession
    <3> QED BY <1>3, <3>2, <3>4, <3>5
  <2> QED BY <2>1, <2>2
<1>5. LifeTypeOK' BY <1>1, <1>2, <1>4 DEF LifeInv, LifeTypeOK
<1>6. BoundInv' BY <1>1, <1>2, <1>4, BoundFrame
<1> QED BY <1>1, <1>2, <1>4, <1>5, <1>6, BesideKeeps

LEMMA CloseUnbindKeeps == ASSUME LifeInv, CloseUnbind PROVE LifeInv'
<1>1. /\ UNCHANGED <<hstate, meta, load, gen, closed, ioMu, owner, own, active, shown, uiq>>
      /\ bound' = None /\ Go(Closer, "end") /\ job[Closer].pc = "done"
  BY DEF CloseUnbind
<1>2. /\ Beside /\ job' \in [AllJobs -> JobRecs] /\ job'[Closer].pc = "end"
      /\ job'[Closer].kind = "retire" /\ job'[Closer].want = None /\ closed
  BY <1>1, CloserMoves
<1>3. LifeTypeOK' BY <1>1, <1>2 DEF LifeInv, LifeTypeOK
<1>4. BoundInv' BY <1>1, <1>2, BoundFrame
<1> QED BY <1>1, <1>2, <1>3, <1>4, BesideKeeps

-----------------------------------------
(* Taking and releasing the mutex. *)

LEMMA NobodyInside ==
    ASSUME LifeInv, ioMu = Free
    PROVE  /\ \A k \in AllJobs : job[k].pc \notin MutexPcs
           /\ \A o, pcs : ~Retiring(o, pcs)
BY JobNames DEF LifeInv, IoMutexInv, Retiring

LEMMA OneInside ==
    ASSUME LifeInv, NEW j \in AllJobs, ioMu = j
    PROVE  /\ job[j].pc \in MutexPcs /\ job[j] \in JobRecs /\ job \in [AllJobs -> JobRecs]
           /\ \A k \in AllJobs : k # j => job[k].pc \notin MutexPcs
           /\ \A o, pcs : Retiring(o, pcs) <=> job[j].victim = o /\ job[j].pc \in pcs
BY DEF LifeInv, LifeTypeOK, IoMutexInv, Retiring

\* The record of a job that goes on to a retirement.
LEMMA Retires ==
    ASSUME job \in [AllJobs -> JobRecs], NEW j \in AllJobs, NEW want \in Conns \cup {None},
           NEW then \in {"unlock", "again", "dial", "unwired"}, RetireThen(j, want, then)
    PROVE  \E r \in JobRecs : /\ job' = [job EXCEPT ![j] = r]
                              /\ r.pc = "take" /\ r.want = want /\ r.then = then
                              /\ r.kind = job[j].kind /\ r.victim = job[j].victim
<1>1. PICK q \in JobRecs : q = job[j] OBVIOUS
<1>2. PICK r : r = [q EXCEPT !.pc = "take", !.want = want, !.then = then] OBVIOUS
<1>3. r \in JobRecs
  <2>1. "take" \in MutexPcs BY DEF MutexPcs, RetirePcs
  <2> QED BY <1>2, <2>1 DEF JobRecs
<1>4. r.pc = "take" /\ r.want = want /\ r.then = then /\ r.kind = q.kind /\ r.victim = q.victim BY <1>2 DEF JobRecs
<1>5. job' = [job EXCEPT ![j] = r] BY <1>1, <1>2, ZenonT(40) DEF RetireThen
<1> QED BY <1>1, <1>3, <1>4, <1>5

LEMMA RecordGoes ==
    ASSUME NEW q \in JobRecs, NEW pc \in MutexPcs \cup {"io", "done", "wait", "end"},
           NEW r, r = [q EXCEPT !.pc = pc]
    PROVE  /\ r \in JobRecs /\ r.pc = pc /\ r.want = q.want /\ r.then = q.then
           /\ r.kind = q.kind /\ r.victim = q.victim
BY RecordMoves

LEMMA LockIoKeeps == ASSUME LifeInv, NEW j \in AllJobs, LockIo(j) PROVE LifeInv'
<1>1. /\ job \in [AllJobs -> JobRecs] /\ job[j] \in JobRecs /\ job[j].pc = "io"
      /\ ioMu = Free /\ ioMu' = j /\ Closer \in AllJobs /\ Free \notin AllJobs
      /\ UNCHANGED <<hstate, meta, load, gen, closed, owner, own, bound, active, shown, uiq>>
  BY JobNames DEF LockIo, LifeInv, LifeTypeOK
<1>2. /\ \A k \in AllJobs : job[k].pc \notin MutexPcs
      /\ \A o, pcs : ~Retiring(o, pcs)
  BY <1>1, NobodyInside
<1>3. PICK r \in JobRecs :
         /\ job' = [job EXCEPT ![j] = r] /\ r.kind = job[j].kind
         /\ \/ r.pc = "unlock" /\ r.kind = "connect" /\ r.want = job[j].want
            \/ r.pc = "teardown" /\ ~closed /\ r.kind = "connect"
            \/ r.pc = "take" /\ r.then = "again" /\ r.kind = "reconnect"
            \/ /\ r.pc = "take" /\ r.then = "unlock" /\ r.kind \notin {"connect", "reconnect"}
               /\ r.want = job[j].want
  <2>1. "unlock" \in MutexPcs /\ "teardown" \in MutexPcs BY DEF MutexPcs
  <2>2. CASE job[j].kind = "connect"
    <3>1. PICK pc \in MutexPcs : Go(j, pc) /\ (pc = "unlock" \/ (pc = "teardown" /\ ~closed))
      BY <2>1, <2>2 DEF LockIo, Stale
    <3>2. PICK r : r = [job[j] EXCEPT !.pc = pc] OBVIOUS
    <3>3. r \in JobRecs /\ r.pc = pc /\ r.want = job[j].want /\ r.kind = job[j].kind BY <1>1, <3>2, RecordGoes
    <3>4. job' = [job EXCEPT ![j] = r] BY <3>1, <3>2 DEF Go
    <3> QED BY <2>2, <3>1, <3>3, <3>4
  <2>3. CASE job[j].kind = "reconnect"
    <3>1. RetireThen(j, None, "again") /\ None \in Conns \cup {None} BY <2>3 DEF LockIo
    <3> QED BY <1>1, <2>3, <3>1, Retires
  <2>4. CASE job[j].kind \notin {"connect", "reconnect"}
    <3>1. RetireThen(j, job[j].want, "unlock") /\ job[j].want \in Conns \cup {None} BY <1>1, <2>4 DEF LockIo, JobRecs
    <3> QED BY <1>1, <2>4, <3>1, Retires
  <2> QED BY <2>2, <2>3, <2>4
<1>4. /\ job' \in [AllJobs -> JobRecs] /\ job'[j] = r
      /\ \A k \in AllJobs : k # j => job'[k] = job[k]
  BY <1>1, <1>3
<1>5. r.pc \in {"unlock", "teardown", "take"} /\ r.pc \in MutexPcs BY <1>3 DEF MutexPcs, RetirePcs
<1>6. \A o : ~Retiring(o, {"commits", "unbind"})' /\ ~Retiring(o, {"commits"})' /\ ~Retiring(o, {"drain"})'
  BY <1>1, <1>4, <1>5 DEF Retiring
<1>7. LifeTypeOK' BY <1>1, <1>4 DEF LifeInv, LifeTypeOK
<1>8. IoMutexInv'
  <2>1. \A k \in AllJobs : job'[k].pc \in MutexPcs <=> ioMu' = k BY <1>1, <1>2, <1>4, <1>5
  <2>2. \A k \in AllJobs : job'[k].kind = "none" <=> job'[k].pc = "none"
    BY <1>1, <1>3, <1>4, <1>5 DEF LifeInv, IoMutexInv
  <2>3. \A k \in AllJobs : job'[k].pc \in RetirePcs => job'[k].then # "none"
    BY <1>3, <1>4 DEF LifeInv, IoMutexInv, RetirePcs
  <2>4. CASE j = Closer
    <3>1. job[j].kind = "retire" /\ closed BY <1>1, <2>4 DEF LifeInv, IoMutexInv
    <3>2. r.pc = "take" /\ r.then = "unlock" /\ r.want = None /\ r.kind = "retire"
      BY <1>3, <2>4, <3>1 DEF LifeInv, IoMutexInv
    <3> QED BY <1>1, <1>4, <2>1, <2>2, <2>3, <2>4, <3>1, <3>2 DEF IoMutexInv, RetirePcs
  <2>5. CASE j # Closer
    <3>1. job'[Closer] = job[Closer] /\ closed' = closed BY <1>1, <1>4, <2>5
    <3> QED BY <2>1, <2>2, <2>3, <3>1 DEF LifeInv, IoMutexInv
  <2> QED BY <2>4, <2>5
<1>9. \A k \in AllJobs : job'[k].pc \notin {"check", "wire", "commits", "unbind", "drain"}
  BY <1>2, <1>4, <1>5 DEF MutexPcs, RetirePcs
<1>10. HolderInv' /\ MetaInv' /\ OwnInv' /\ BoundInv'
  <2>1. HolderInv' BY <1>1, <1>2, <1>9 DEF LifeInv, HolderInv
  <2>2. MetaInv' BY <1>1, <1>2, <1>6 DEF LifeInv, MetaInv
  <2>3. OwnInv' BY <1>1, <1>2 DEF LifeInv, OwnInv
  <2>4. BoundInv' BY <1>1, <1>2 DEF LifeInv, BoundInv
  <2> QED BY <2>1, <2>2, <2>3, <2>4
<1>11. ClosedInv'
  <2> SUFFICES ASSUME job'[Closer].pc \in {"unlock", "done", "end"}
               PROVE  /\ owner = None /\ hstate = NoConn
                      /\ \A k \in AllJobs : ~Dialling(k)' /\ job'[k].pc # "drain"
    BY <1>1 DEF ClosedInv
  <2>1. j # Closer
    <3>1. job[j].pc = "io" BY <1>1
    <3>2. j = Closer => r.pc = "take" BY <1>3, <3>1 DEF LifeInv, IoMutexInv
    <3> QED BY <1>4, <3>2
  <2>2. job[Closer].pc \in {"unlock", "done", "end"} /\ closed BY <1>1, <1>4, <2>1 DEF LifeInv, IoMutexInv
  <2>3. owner = None /\ hstate = NoConn /\ \A k \in AllJobs : ~Dialling(k) BY <2>2 DEF LifeInv, ClosedInv
  <2>4. ~Dialling(j)'
    <3>1. r.pc \in {"unlock", "take"} /\ (r.pc = "take" => r.then \in {"again", "unlock"}) BY <1>3, <2>2
    <3> QED BY <1>4, <3>1 DEF Dialling, RetirePcs
  <2>5. \A k \in AllJobs : k # j => ~Dialling(k)' BY <1>4, <2>3 DEF Dialling
  <2> QED BY <1>9, <2>3, <2>4, <2>5
<1>12. LoadInv' BY <1>1 DEF LifeInv, LoadInv, LoadQueued
<1> QED BY <1>7, <1>8, <1>10, <1>11, <1>12 DEF LifeInv

\* Unlocking, with nothing in hand.
LEMMA Leaves ==
    ASSUME LifeInv, NEW j \in AllJobs, ioMu = j, ioMu' = Free,
           job[j].pc \in {"unlock", "again"}, NEW r \in JobRecs, job' = [job EXCEPT ![j] = r],
           \/ r.pc = "done" /\ job[j].pc = "unlock" /\ r.kind = job[j].kind /\ r.want = job[j].want
           \/ r.pc = "io" /\ j # Closer /\ r.kind # "none",
           UNCHANGED <<hstate, meta, load, closed, owner, own, bound, active, shown, uiq>>,
           gen' \in Int
    PROVE  LifeInv'
<1>1. /\ job \in [AllJobs -> JobRecs] /\ Closer \in AllJobs /\ Free \notin AllJobs
      /\ \A k \in AllJobs : k # j => job[k].pc \notin MutexPcs
      /\ \A o, pcs : Retiring(o, pcs) <=> job[j].victim = o /\ job[j].pc \in pcs
  BY OneInside, JobNames
<1>2. /\ job' \in [AllJobs -> JobRecs] /\ job'[j] = r
      /\ \A k \in AllJobs : k # j => job'[k] = job[k]
  BY <1>1
<1>3. /\ {"done", "io"} \cap MutexPcs = {} /\ r.pc \notin MutexPcs /\ r.pc \notin RetirePcs
      /\ r.pc # "none" /\ job[j].pc # "none"
  BY DEF MutexPcs, RetirePcs
<1>4. \A k \in AllJobs : job'[k].pc \notin MutexPcs BY <1>1, <1>2, <1>3
<1>5. /\ \A o : ~Retiring(o, {"commits", "unbind"}) /\ ~Retiring(o, {"commits"}) /\ ~Retiring(o, {"drain"})
      /\ \A o, pcs : ~Retiring(o, pcs)'
  <2>1. \A o : ~Retiring(o, {"commits", "unbind"}) /\ ~Retiring(o, {"commits"}) /\ ~Retiring(o, {"drain"}) BY <1>1
  <2>2. \A o, pcs : ~Retiring(o, pcs)' BY <1>1 DEF Retiring
  <2> QED BY <2>1, <2>2
<1>6. LifeTypeOK' BY <1>2 DEF LifeInv, LifeTypeOK
<1>7. IoMutexInv'
  <2>1. \A k \in AllJobs : job'[k].pc \in MutexPcs <=> ioMu' = k BY <1>1, <1>4
  <2>2. \A k \in AllJobs : job'[k].kind = "none" <=> job'[k].pc = "none" BY <1>2, <1>3 DEF LifeInv, IoMutexInv
  <2>3. \A k \in AllJobs : job'[k].pc \in RetirePcs => job'[k].then # "none" BY <1>2, <1>3 DEF LifeInv, IoMutexInv
  <2>4. CASE j = Closer
    <3>1. /\ job[j].kind = "retire" /\ closed /\ r.pc = "done" /\ r.kind = "retire" /\ r.want = None
      BY <1>3, <2>4 DEF LifeInv, IoMutexInv
    <3> QED BY <1>2, <1>3, <2>1, <2>2, <2>3, <2>4, <3>1 DEF IoMutexInv
  <2>5. CASE j # Closer
    <3>1. job'[Closer] = job[Closer] /\ closed' = closed BY <1>1, <1>2, <2>5
    <3> QED BY <2>1, <2>2, <2>3, <3>1 DEF LifeInv, IoMutexInv
  <2> QED BY <2>4, <2>5
<1>8. \A k \in AllJobs : job'[k].pc \notin {"check", "wire", "commits", "unbind", "drain"} /\ ~Dialling(k)'
  <2>1. {"check", "wire", "commits", "unbind", "drain", "teardown", "dial", "publish", "unwired"} \subseteq MutexPcs
    BY DEF MutexPcs, RetirePcs
  <2>2. RetirePcs \subseteq MutexPcs BY DEF MutexPcs
  <2> QED BY <1>4, <2>1, <2>2 DEF Dialling
<1>9. HolderInv' BY <1>5, <1>8 DEF LifeInv, HolderInv
<1>10. MetaInv' BY <1>5 DEF LifeInv, MetaInv
<1>11. OwnInv' BY <1>5 DEF LifeInv, OwnInv
<1>12. BoundInv' BY <1>5 DEF LifeInv, BoundInv
<1>13. ClosedInv'
  <2> SUFFICES ASSUME job'[Closer].pc \in {"unlock", "done", "end"}
               PROVE  owner = None /\ hstate = NoConn
    BY <1>8 DEF ClosedInv
  <2>1. job[Closer].pc \in {"unlock", "done", "end"} BY <1>1, <1>2
  <2> QED BY <2>1 DEF LifeInv, ClosedInv
<1>14. LoadInv' BY DEF LifeInv, LoadInv, LoadQueued
<1> QED BY <1>6, <1>7, <1>9, <1>10, <1>11, <1>12, <1>13, <1>14 DEF LifeInv

LEMMA UnlockIoKeeps == ASSUME LifeInv, NEW j \in AllJobs, UnlockIo(j) PROVE LifeInv'
<1>1. /\ ioMu = j /\ ioMu' = Free /\ job[j].pc = "unlock" /\ Go(j, "done") /\ job[j] \in JobRecs
      /\ UNCHANGED <<hstate, meta, load, gen, closed, owner, own, bound, active, shown, uiq>>
      /\ gen' \in Int
  BY DEF UnlockIo, Holds, LifeInv, LifeTypeOK
<1>2. PICK r : r = [job[j] EXCEPT !.pc = "done"] OBVIOUS
<1>3. r \in JobRecs /\ r.pc = "done" /\ r.kind = job[j].kind /\ r.want = job[j].want BY <1>1, <1>2, RecordGoes
<1>4. job' = [job EXCEPT ![j] = r] BY <1>1, <1>2 DEF Go
<1> QED BY <1>1, <1>3, <1>4, Leaves

LEMMA ConnectAgainKeeps == ASSUME LifeInv, NEW j \in Jobs, ConnectAgain(j) PROVE LifeInv'
<1>1. /\ j \in AllJobs /\ j # Closer /\ ioMu = j /\ ioMu' = Free /\ job[j].pc = "again"
      /\ UNCHANGED <<hstate, meta, load, closed, owner, own, bound, active, shown, uiq>>
      /\ job[j] \in JobRecs /\ gen' = gen + 1 /\ gen + 1 \in Int
  BY JobNames DEF ConnectAgain, Holds, LifeInv, LifeTypeOK
<1>2. PICK r : r = [job[j] EXCEPT !.kind = "connect", !.pc = "io", !.gen = gen + 1] OBVIOUS
<1>3. r \in JobRecs BY <1>1, <1>2 DEF JobRecs
<1>4. r.pc = "io" /\ r.kind = "connect" BY <1>1, <1>2 DEF JobRecs
<1>5. job' = [job EXCEPT ![j] = r] /\ gen' \in Int BY <1>1, <1>2 DEF ConnectAgain
<1> QED BY <1>1, <1>3, <1>4, <1>5, Leaves

-----------------------------------------
(* Steps of the job inside. *)

LEMMA WorkFrame ==
    ASSUME LifeInv, NEW j \in Jobs, ioMu = j, UNCHANGED <<hstate, meta, load, closed, ioMu, owner>>,
           LifeTypeOK', BoundInv',
           NEW r \in JobRecs, job' = [job EXCEPT ![j] = r], r.kind = job[j].kind,
           r.pc \in {"unlock", "dial", "check", "wire", "publish", "unwired", "again", "take"},
           job[j].pc \notin {"commits", "unbind", "drain"},
           r.pc \in RetirePcs => r.then # "none",
           r.pc \in {"check", "wire"} => owner = j,
           \A o \in Conns : own'[o].sess = "open" \/ own'[o].commit =>
             own[o].sess = "open" \/ own[o].commit \/ owner = o,
           ( \/ r.pc \in {"dial", "check", "wire", "publish", "unwired"}
             \/ r.pc \in RetirePcs /\ r.then \in {"dial", "unwired"} ) => Dialling(j)
    PROVE  LifeInv'
<1>1. /\ j \in AllJobs /\ j # Closer /\ Closer \in AllJobs
      /\ \A o, pcs : Retiring(o, pcs) <=> job[j].victim = o /\ job[j].pc \in pcs
  BY JobNames, OneInside
<1>2. r.pc \in MutexPcs BY DEF MutexPcs, RetirePcs
<1>3. /\ IoMutexInv' /\ job' \in [AllJobs -> JobRecs] /\ job'[j] = r
      /\ job[j].pc \in MutexPcs
      /\ \A k \in AllJobs : k # j => job'[k] = job[k] /\ job[k].pc \notin MutexPcs
  BY <1>1, <1>2, HolderMoves
<1>4. \A o : /\ ~Retiring(o, {"commits", "unbind"}) /\ ~Retiring(o, {"commits"}) /\ ~Retiring(o, {"drain"})
             /\ ~Retiring(o, {"commits", "unbind"})' /\ ~Retiring(o, {"commits"})' /\ ~Retiring(o, {"drain"})'
  <2>1. \A o : ~Retiring(o, {"commits", "unbind"}) /\ ~Retiring(o, {"commits"}) /\ ~Retiring(o, {"drain"}) BY <1>1
  <2>2. \A o : ~Retiring(o, {"commits", "unbind"})' /\ ~Retiring(o, {"commits"})' /\ ~Retiring(o, {"drain"})'
    BY <1>3 DEF Retiring
  <2> QED BY <2>1, <2>2
<1>5. /\ \A k \in AllJobs : job'[k].pc \in {"check", "wire"} => k = j /\ owner = k
      /\ \A k \in AllJobs : job'[k].pc \notin {"commits", "unbind", "drain"}
  <2>1. {"check", "wire", "commits", "unbind", "drain"} \subseteq MutexPcs BY DEF MutexPcs, RetirePcs
  <2> QED BY <1>3, <2>1
<1>6. HolderInv' BY <1>4, <1>5 DEF LifeInv, HolderInv
<1>7. MetaInv' BY <1>4 DEF LifeInv, MetaInv
<1>8. OwnInv' BY <1>4 DEF LifeInv, OwnInv
<1>9. ClosedInv'
  <2> SUFFICES ASSUME job'[Closer].pc \in {"unlock", "done", "end"}
               PROVE  owner = None /\ hstate = NoConn /\ \A k \in AllJobs : ~Dialling(k)'
    BY <1>5 DEF ClosedInv
  <2>1. owner = None /\ hstate = NoConn /\ \A k \in AllJobs : ~Dialling(k) BY <1>1, <1>3 DEF LifeInv, ClosedInv
  <2>2. ~Dialling(j)'
    <3>1. ~Dialling(j) BY <1>1, <2>1
    <3>2. /\ r.pc \notin {"teardown", "dial", "check", "wire", "publish", "unwired"}
          /\ ~(r.pc \in RetirePcs /\ r.then \in {"dial", "unwired"})
      BY <3>1
    <3> QED BY <1>3, <3>2 DEF Dialling
  <2>3. \A k \in AllJobs : k # j => ~Dialling(k)' BY <1>3, <2>1 DEF Dialling
  <2> QED BY <2>1, <2>2, <2>3
<1>10. LoadInv' BY DEF LifeInv, LoadInv, LoadQueued
<1> QED BY <1>3, <1>6, <1>7, <1>8, <1>9, <1>10 DEF LifeInv

\* The binding, while the owner stays and no retirement is under way.
LEMMA BoundWorks ==
    ASSUME LifeInv, NEW j \in Jobs, ioMu = j, job[j].pc \notin {"commits", "unbind"},
           UNCHANGED <<owner, bound>>,
           \A o \in Conns : own[o].published => own'[o].published
    PROVE  BoundInv'
<1>1. \A o : ~Retiring(o, {"commits", "unbind"}) BY JobNames, OneInside
<1> QED BY <1>1 DEF LifeInv, LifeTypeOK, BoundInv

LEMMA TeardownKeeps == ASSUME LifeInv, NEW j \in Jobs, Teardown(j) PROVE LifeInv'
<1>1. /\ j \in AllJobs /\ ioMu = j /\ job[j].pc = "teardown" /\ job[j] \in JobRecs
      /\ job \in [AllJobs -> JobRecs] /\ Dialling(j)
      /\ UNCHANGED <<hstate, meta, load, gen, closed, ioMu, owner, own, bound, active, shown, uiq>>
  BY JobNames DEF Teardown, Holds, LifeInv, LifeTypeOK, Dialling
<1>2. PICK r \in JobRecs : /\ job' = [job EXCEPT ![j] = r] /\ r.kind = job[j].kind
                           /\ r.pc = "dial" \/ (r.pc = "take" /\ r.then = "dial")
  <2>1. CASE Go(j, "dial")
    <3>1. PICK r : r = [job[j] EXCEPT !.pc = "dial"] OBVIOUS
    <3>2. "dial" \in MutexPcs BY DEF MutexPcs
    <3>3. r \in JobRecs /\ r.pc = "dial" /\ r.kind = job[j].kind BY <1>1, <3>1, <3>2, RecordGoes
    <3> QED BY <2>1, <3>1, <3>3 DEF Go
  <2>2. CASE RetireThen(j, owner, "dial")
    <3>1. owner \in Conns \cup {None} BY DEF LifeInv, LifeTypeOK
    <3> QED BY <1>1, <2>2, <3>1, Retires
  <2> QED BY <2>1, <2>2 DEF Teardown
<1>3. job' \in [AllJobs -> JobRecs] BY <1>1, <1>2
<1>4. LifeTypeOK' BY <1>1, <1>3 DEF LifeInv, LifeTypeOK
<1>5. BoundInv' BY <1>1, BoundWorks
<1>6. /\ r.pc \in {"unlock", "dial", "check", "wire", "publish", "unwired", "again", "take"}
      /\ r.pc \in RetirePcs => r.then # "none"
      /\ r.pc \in {"check", "wire"} => owner = j
  BY <1>1, <1>2 DEF RetirePcs
<1> QED BY <1>1, <1>2, <1>4, <1>5, <1>6, WorkFrame

LEMMA CheckStaleKeeps == ASSUME LifeInv, NEW j \in Jobs, CheckStale(j) PROVE LifeInv'
<1>1. /\ j \in AllJobs /\ ioMu = j /\ job[j].pc = "check" /\ job[j] \in JobRecs /\ owner = j
      /\ job \in [AllJobs -> JobRecs] /\ Dialling(j)
      /\ UNCHANGED <<hstate, meta, load, gen, closed, ioMu, owner, own, bound, active, shown, uiq>>
  BY JobNames DEF CheckStale, Holds, LifeInv, LifeTypeOK, HolderInv, Dialling
<1>2. PICK r \in JobRecs : /\ job' = [job EXCEPT ![j] = r] /\ r.kind = job[j].kind
                           /\ r.pc = "wire" \/ (r.pc = "take" /\ r.then = "unlock")
  <2>1. CASE Go(j, "wire")
    <3>1. PICK r : r = [job[j] EXCEPT !.pc = "wire"] OBVIOUS
    <3>2. "wire" \in MutexPcs BY DEF MutexPcs
    <3>3. r \in JobRecs /\ r.pc = "wire" /\ r.kind = job[j].kind BY <1>1, <3>1, <3>2, RecordGoes
    <3> QED BY <2>1, <3>1, <3>3 DEF Go
  <2>2. CASE RetireThen(j, j, "unlock")
    <3>1. j \in Conns \cup {None} BY JobNames
    <3> QED BY <1>1, <2>2, <3>1, Retires
  <2> QED BY <2>1, <2>2 DEF CheckStale
<1>3. job' \in [AllJobs -> JobRecs] BY <1>1, <1>2
<1>4. LifeTypeOK' BY <1>1, <1>3 DEF LifeInv, LifeTypeOK
<1>5. BoundInv' BY <1>1, BoundWorks
<1>6. /\ r.pc \in {"unlock", "dial", "check", "wire", "publish", "unwired", "again", "take"}
      /\ r.pc \in RetirePcs => r.then # "none"
      /\ r.pc \in {"check", "wire"} => owner = j
  BY <1>1, <1>2 DEF RetirePcs
<1> QED BY <1>1, <1>2, <1>4, <1>5, <1>6, WorkFrame

\* The query session opens under the owner record, or the connect is undone.
LEMMA WireKeeps == ASSUME LifeInv, NEW j \in Jobs, Wire(j) PROVE LifeInv'
<1>1. /\ j \in AllJobs /\ j \in Conns /\ ioMu = j /\ job[j].pc = "wire" /\ job[j] \in JobRecs
      /\ owner = j /\ job \in [AllJobs -> JobRecs] /\ Dialling(j) /\ own \in [Conns -> OwnRecs]
      /\ UNCHANGED <<hstate, meta, load, gen, closed, ioMu, owner, bound, active, shown, uiq>>
  BY JobNames DEF Wire, Holds, LifeInv, LifeTypeOK, HolderInv, Dialling
<1>2. PICK r \in JobRecs : /\ job' = [job EXCEPT ![j] = r] /\ r.kind = job[j].kind
                           /\ r.pc = "publish" \/ (r.pc = "take" /\ r.then = "unwired")
  <2>1. CASE Go(j, "publish")
    <3>1. PICK r : r = [job[j] EXCEPT !.pc = "publish"] OBVIOUS
    <3>2. "publish" \in MutexPcs BY DEF MutexPcs
    <3>3. r \in JobRecs /\ r.pc = "publish" /\ r.kind = job[j].kind BY <1>1, <3>1, <3>2, RecordGoes
    <3> QED BY <2>1, <3>1, <3>3 DEF Go
  <2>2. CASE RetireThen(j, j, "unwired") BY <1>1, <2>2, Retires
  <2> QED BY <2>1, <2>2 DEF Wire
<1>3. job' \in [AllJobs -> JobRecs] BY <1>1, <1>2
<1>4. /\ own' \in [Conns -> OwnRecs]
      /\ \A c \in Conns : /\ own'[c].published = own[c].published
                          /\ own'[c].commit = own[c].commit
                          /\ own'[c].sess = "open" => own[c].sess = "open" \/ owner = c
  <2>1. CASE own' = own BY <1>1, <2>1
  <2>2. CASE own' = [own EXCEPT ![j].sess = "open"]
    <3>1. PICK q \in OwnRecs : q = own[j] BY <1>1
    <3>2. PICK r2 : r2 = [q EXCEPT !.sess = "open"] OBVIOUS
    <3>3. /\ r2 \in OwnRecs /\ r2.published = q.published /\ r2.commit = q.commit BY <3>2, OwnSession
    <3>4. own' = [own EXCEPT ![j] = r2] BY <2>2, <3>1, <3>2
    <3> QED BY <1>1, <3>1, <3>3, <3>4
  <2> QED BY <2>1, <2>2 DEF Wire
<1>5. LifeTypeOK' BY <1>1, <1>3, <1>4 DEF LifeInv, LifeTypeOK
<1>6. BoundInv' BY <1>1, <1>4, BoundWorks
<1>7. /\ r.pc \in {"unlock", "dial", "check", "wire", "publish", "unwired", "again", "take"}
      /\ r.pc \in RetirePcs => r.then # "none"
      /\ r.pc \in {"check", "wire"} => owner = j
  BY <1>1, <1>2 DEF RetirePcs
<1>8. \A o \in Conns : own'[o].sess = "open" \/ own'[o].commit =>
        own[o].sess = "open" \/ own[o].commit \/ owner = o
  BY <1>4
<1> QED BY <1>1, <1>2, <1>5, <1>6, <1>7, <1>8, WorkFrame

LEMMA ScheduleKeeps == ASSUME LifeInv, NEW j \in Jobs, Schedule(j) PROVE LifeInv'
<1>1. /\ j \in AllJobs /\ j \in Conns /\ ioMu = j /\ job[j].pc \in {"publish", "unwired"}
      /\ job[j] \in JobRecs /\ job \in [AllJobs -> JobRecs] /\ Go(j, "unlock")
      /\ UNCHANGED <<hstate, meta, load, gen, closed, ioMu, owner, own, bound, active, shown>>
  BY JobNames DEF Schedule, Holds, LifeInv, LifeTypeOK
<1>2. PICK r : r = [job[j] EXCEPT !.pc = "unlock"] OBVIOUS
<1>3. "unlock" \in MutexPcs BY DEF MutexPcs
<1>4. r \in JobRecs /\ r.pc = "unlock" /\ r.kind = job[j].kind BY <1>1, <1>2, <1>3, RecordGoes
<1>5. job' = [job EXCEPT ![j] = r] BY <1>1, <1>2 DEF Go
<1>6. job' \in [AllJobs -> JobRecs] BY <1>1, <1>4, <1>5
<1>7. uiq' \in SUBSET ClosureRecs /\ \A c \in uiq' : c.kind = "publish" => c.o \in Conns
  <2>1. PICK c : c = [kind |-> job[j].pc, gen |-> job[j].gen, o |-> j] OBVIOUS
  <2>2. c \in ClosureRecs /\ c.o \in Conns BY <1>1, <2>1 DEF ClosureRecs, JobRecs
  <2>3. uiq' = uiq \/ uiq' = uiq \cup {c} BY <2>1 DEF Schedule
  <2> QED BY <2>2, <2>3 DEF LifeInv, LifeTypeOK
<1>8. LifeTypeOK' BY <1>1, <1>6, <1>7 DEF LifeInv, LifeTypeOK
<1>9. BoundInv' BY <1>1, BoundWorks
<1>10. r.pc \notin RetirePcs BY <1>4 DEF RetirePcs
<1> QED BY <1>1, <1>4, <1>5, <1>8, <1>9, <1>10, WorkFrame

\* A job that does not want this owner goes on.
LEMMA TakeSkips ==
    ASSUME LifeInv, NEW j \in AllJobs, RetireTake(j), job[j].want # None, owner # job[j].want
    PROVE  LifeInv'
<1>1. /\ j \in Jobs /\ ioMu = j /\ job[j].pc = "take" /\ job[j] \in JobRecs
      /\ job \in [AllJobs -> JobRecs] /\ Go(j, job[j].then)
      /\ UNCHANGED <<hstate, meta, load, gen, closed, ioMu, owner, own, bound, active, shown, uiq>>
  BY JobNames DEF RetireTake, Holds, LifeInv, LifeTypeOK, IoMutexInv
<1>2. PICK pc \in {"unlock", "again", "dial", "unwired"} : pc = job[j].then
  <2>1. "take" \in RetirePcs BY DEF RetirePcs
  <2>2. job[j].then # "none" BY <1>1, <2>1, JobNames DEF LifeInv, IoMutexInv
  <2> QED BY <1>1, <2>2 DEF JobRecs
<1>3. PICK r : r = [job[j] EXCEPT !.pc = pc] OBVIOUS
<1>4. pc \in MutexPcs BY DEF MutexPcs
<1>5. r \in JobRecs /\ r.pc = pc /\ r.kind = job[j].kind /\ r.then = job[j].then BY <1>1, <1>3, <1>4, RecordGoes
<1>6. job' = [job EXCEPT ![j] = r] BY <1>1, <1>2, <1>3 DEF Go
<1>7. job' \in [AllJobs -> JobRecs] BY <1>1, <1>5, <1>6
<1>8. LifeTypeOK' BY <1>1, <1>7 DEF LifeInv, LifeTypeOK
<1>9. BoundInv' BY <1>1, BoundWorks
<1>10. /\ r.pc \in {"unlock", "dial", "check", "wire", "publish", "unwired", "again", "take"}
       /\ r.pc \in RetirePcs => r.then # "none"
       /\ r.pc \in {"check", "wire"} => owner = j
  BY <1>5 DEF RetirePcs
<1>11. ( \/ r.pc \in {"dial", "check", "wire", "publish", "unwired"}
         \/ r.pc \in RetirePcs /\ r.then \in {"dial", "unwired"} ) => Dialling(j)
  BY <1>1, <1>2, <1>5 DEF RetirePcs, Dialling
<1> QED BY <1>1, <1>5, <1>6, <1>8, <1>9, <1>10, <1>11, WorkFrame

\* Otherwise it takes what the record holds.
LEMMA TakeTakes ==
    ASSUME LifeInv, NEW j \in AllJobs, RetireTake(j), ~(job[j].want # None /\ owner # job[j].want)
    PROVE  LifeInv'
<1>1. /\ ioMu = j /\ job[j].pc = "take" /\ job[j] \in JobRecs /\ job \in [AllJobs -> JobRecs]
      /\ owner \in Conns \cup {None} /\ own \in [Conns -> OwnRecs]
      /\ owner' = None /\ own' = (IF owner = None THEN own ELSE [own EXCEPT ![owner].retired = TRUE])
      /\ job' = [job EXCEPT ![j].pc = "commits", ![j].victim = owner]
      /\ UNCHANGED <<hstate, meta, load, gen, closed, ioMu, bound, active, shown, uiq>>
  BY DEF RetireTake, Holds, LifeInv, LifeTypeOK
<1>2. PICK r : r = [job[j] EXCEPT !.pc = "commits", !.victim = owner] OBVIOUS
<1>3. /\ "commits" \in MutexPcs /\ "commits" \in RetirePcs /\ "take" \in RetirePcs BY DEF MutexPcs, RetirePcs
<1>4. r \in JobRecs BY <1>1, <1>2, <1>3 DEF JobRecs
<1>5. /\ r.pc = "commits" /\ r.victim = owner /\ r.kind = job[j].kind /\ r.then = job[j].then
      /\ r.want = job[j].want
  BY <1>1, <1>2 DEF JobRecs
<1>6. job' = [job EXCEPT ![j] = r] BY <1>1, <1>2
<1>7. /\ r.then # "none"
      /\ j = Closer => r.then = "unlock" /\ r.want = None
  BY <1>1, <1>3, <1>5 DEF LifeInv, IoMutexInv
<1>8. /\ IoMutexInv' /\ job' \in [AllJobs -> JobRecs] /\ job'[j] = r
      /\ \A k \in AllJobs : k # j => job'[k] = job[k] /\ job[k].pc \notin MutexPcs
  <2>1. /\ r.pc \in MutexPcs
        /\ j = Closer => /\ r.pc \in RetirePcs \cup {"unlock"} /\ r.want = None
                         /\ r.pc \in RetirePcs => r.then = "unlock"
    BY <1>3, <1>5, <1>7
  <2> QED BY <1>1, <1>4, <1>5, <1>6, <1>7, <2>1, HolderMoves
<1>9. /\ \A o, pcs : Retiring(o, pcs) <=> job[j].victim = o /\ job[j].pc \in pcs
      /\ \A o : Retiring(o, {"commits", "unbind"})' <=> o = owner
      /\ \A o : Retiring(o, {"commits"})' <=> o = owner
      /\ \A o : ~Retiring(o, {"drain"})' /\ ~Retiring(o, {"drain"}) /\ ~Retiring(o, {"commits", "unbind"})
      /\ \A o : ~Retiring(o, {"commits"})
  <2>1. \A o, pcs : Retiring(o, pcs) <=> job[j].victim = o /\ job[j].pc \in pcs BY <1>1, OneInside
  <2>2. \A o, pcs : Retiring(o, pcs)' <=> r.victim = o /\ r.pc \in pcs BY <1>1, <1>8 DEF Retiring
  <2>3. /\ \A o : Retiring(o, {"commits", "unbind"})' <=> o = owner
        /\ \A o : Retiring(o, {"commits"})' <=> o = owner
        /\ \A o : ~Retiring(o, {"drain"})'
    BY <1>5, <1>8, <1>1 DEF Retiring
  <2>4. \A o : ~Retiring(o, {"drain"}) /\ ~Retiring(o, {"commits", "unbind"}) /\ ~Retiring(o, {"commits"}) BY <1>1, <2>1
  <2> QED BY <2>1, <2>3, <2>4
<1>10. /\ own' \in [Conns -> OwnRecs]
       /\ \A c \in Conns : /\ own'[c].published = own[c].published
                           /\ own'[c].commit = own[c].commit /\ own'[c].sess = own[c].sess
  <2>1. CASE owner = None BY <1>1, <2>1
  <2>2. CASE owner # None
    <3>1. PICK o \in Conns : o = owner BY <1>1, <2>2
    <3>2. PICK q \in OwnRecs : q = own[o] BY <1>1
    <3>3. PICK r2 : r2 = [q EXCEPT !.retired = TRUE] OBVIOUS
    <3>4. r2 \in OwnRecs BY <3>3 DEF OwnRecs
    <3>5. r2.published = q.published /\ r2.commit = q.commit /\ r2.sess = q.sess BY <3>3 DEF OwnRecs
    <3>6. own' = [own EXCEPT ![o] = r2] BY <1>1, <2>2, <3>1, <3>2, <3>3
    <3> QED BY <1>1, <3>2, <3>4, <3>5, <3>6
  <2> QED BY <2>1, <2>2
<1>11. LifeTypeOK' BY <1>1, <1>8, <1>10 DEF LifeInv, LifeTypeOK
<1>12. \A k \in AllJobs : job'[k].pc \in {"check", "wire", "commits", "unbind", "drain"} => k = j
  <2>1. {"check", "wire", "commits", "unbind", "drain"} \subseteq MutexPcs BY DEF MutexPcs, RetirePcs
  <2> QED BY <1>8, <2>1
<1>13. hstate = owner BY <1>1, <1>9, JobNames DEF LifeInv, HolderInv
<1>14. HolderInv' BY <1>1, <1>5, <1>8, <1>9, <1>12, <1>13 DEF HolderInv
<1>15. MetaInv' BY <1>1, <1>9 DEF LifeInv, MetaInv
<1>16. OwnInv' BY <1>1, <1>9, <1>10 DEF LifeInv, OwnInv
<1>17. BoundInv' BY <1>1, <1>9, <1>10 DEF LifeInv, LifeTypeOK, BoundInv
<1>18. ClosedInv'
  <2> SUFFICES ASSUME job'[Closer].pc \in {"unlock", "done", "end"}
               PROVE  hstate = NoConn /\ \A k \in AllJobs : ~Dialling(k)' /\ job'[k].pc # "drain"
    BY <1>1 DEF ClosedInv
  <2>1. j # Closer BY <1>5, <1>8
  <2>2. owner = None /\ hstate = NoConn /\ \A k \in AllJobs : ~Dialling(k)
    BY <1>8, <2>1, JobNames DEF LifeInv, ClosedInv
  <2>3. ~Dialling(j)'
    <3>1. job[j].then \notin {"dial", "unwired"} BY <1>1, <1>3, <2>2 DEF Dialling
    <3> QED BY <1>5, <1>8, <3>1 DEF Dialling
  <2>4. \A k \in AllJobs : k # j => ~Dialling(k)' BY <1>8, <2>2 DEF Dialling
  <2> QED BY <1>5, <1>8, <1>12, <2>2, <2>3, <2>4
<1>19. LoadInv' BY <1>1 DEF LifeInv, LoadInv, LoadQueued
<1> QED BY <1>8, <1>11, <1>14, <1>15, <1>16, <1>17, <1>18, <1>19 DEF LifeInv

LEMMA RetireTakeKeeps == ASSUME LifeInv, NEW j \in AllJobs, RetireTake(j) PROVE LifeInv'
BY TakeSkips, TakeTakes

\* A step within a retirement, or out of it.
LEMMA RetireMoves ==
    ASSUME LifeInv, NEW j \in AllJobs, ioMu = j, UNCHANGED <<ioMu, closed>>,
           NEW r \in JobRecs, job' = [job EXCEPT ![j] = r],
           r.kind = job[j].kind, r.want = job[j].want, r.then = job[j].then,
           job[j].pc \in RetirePcs, r.pc \in RetirePcs \/ r.pc = job[j].then
    PROVE  /\ IoMutexInv' /\ job' \in [AllJobs -> JobRecs] /\ job'[j] = r
           /\ \A k \in AllJobs : k # j => job'[k] = job[k] /\ job[k].pc \notin MutexPcs
           /\ \A k \in AllJobs : job'[k].pc \in {"check", "wire", "commits", "unbind", "drain"} =>
                k = j /\ r.pc \in {"commits", "unbind", "drain"}
           /\ \A k \in AllJobs : Dialling(k)' => Dialling(k)
           /\ \A o, pcs : Retiring(o, pcs) <=> job[j].victim = o /\ job[j].pc \in pcs
           /\ j = Closer => r.then = "unlock"
<1>1. /\ job[j].then \in {"unlock", "again", "dial", "unwired"} /\ job[j] \in JobRecs
      /\ j = Closer => r.then = "unlock" /\ r.want = None
  BY DEF LifeInv, LifeTypeOK, IoMutexInv, JobRecs
<1>2. /\ r.pc \in MutexPcs
      /\ r.pc \in RetirePcs => r.then # "none"
      /\ j = Closer => /\ r.pc \in RetirePcs \cup {"unlock"} /\ r.want = None
                       /\ r.pc \in RetirePcs => r.then = "unlock"
  BY <1>1 DEF MutexPcs
<1>3. /\ IoMutexInv' /\ job' \in [AllJobs -> JobRecs] /\ job'[j] = r
      /\ \A k \in AllJobs : k # j => job'[k] = job[k] /\ job[k].pc \notin MutexPcs
  BY <1>2, HolderMoves
<1>4. \A o, pcs : Retiring(o, pcs) <=> job[j].victim = o /\ job[j].pc \in pcs BY OneInside
<1>5. ASSUME NEW k \in AllJobs, job'[k].pc \in {"check", "wire", "commits", "unbind", "drain"}
      PROVE  k = j /\ r.pc \in {"commits", "unbind", "drain"}
  <2>1. {"check", "wire", "commits", "unbind", "drain"} \subseteq MutexPcs BY DEF MutexPcs, RetirePcs
  <2>2. k = j BY <1>3, <1>5, <2>1
  <2>3. r.pc \in RetirePcs \/ r.pc \in {"unlock", "again", "dial", "unwired"} BY <1>1
  <2> QED BY <1>3, <1>5, <2>2, <2>3 DEF RetirePcs
<1>6. ASSUME NEW k \in AllJobs, Dialling(k)'
      PROVE  Dialling(k)
  <2>1. CASE k # j BY <1>3, <1>6, <2>1 DEF Dialling
  <2>2. CASE k = j
    <3>1. \/ r.pc \in {"teardown", "dial", "check", "wire", "publish", "unwired"}
          \/ r.pc \in RetirePcs /\ r.then \in {"dial", "unwired"}
      BY <1>3, <1>6, <2>2 DEF Dialling
    <3>2. job[j].then \in {"dial", "unwired"} BY <1>1, <3>1 DEF RetirePcs
    <3> QED BY <2>2, <3>2 DEF Dialling
  <2> QED BY <2>1, <2>2
<1>7. j = Closer => r.then = "unlock" BY <1>1
<1> QED BY <1>3, <1>4, <1>5, <1>6, <1>7

LEMMA RetireSessionKeeps == ASSUME LifeInv, NEW j \in AllJobs, RetireSession(j) PROVE LifeInv'
<1>1. /\ ioMu = j /\ job[j].pc = "commits" /\ job[j] \in JobRecs /\ job \in [AllJobs -> JobRecs]
      /\ own \in [Conns -> OwnRecs] /\ Go(j, "unbind")
      /\ job[j].victim \in Conns \cup {None} /\ job[j].victim = hstate /\ owner = None
      /\ UNCHANGED <<hstate, meta, load, gen, closed, ioMu, owner, bound, active, shown, uiq>>
  BY DEF RetireSession, Holds, LifeInv, LifeTypeOK, HolderInv, JobRecs
<1>2. PICK r : r = [job[j] EXCEPT !.pc = "unbind"] OBVIOUS
<1>3. "unbind" \in MutexPcs /\ "unbind" \in RetirePcs /\ "commits" \in RetirePcs BY DEF MutexPcs, RetirePcs
<1>4. /\ r \in JobRecs /\ r.pc = "unbind" /\ r.kind = job[j].kind /\ r.want = job[j].want
      /\ r.then = job[j].then /\ r.victim = job[j].victim
  BY <1>1, <1>2, <1>3, RecordGoes
<1>5. job' = [job EXCEPT ![j] = r] BY <1>1, <1>2 DEF Go
<1>6. /\ IoMutexInv' /\ job' \in [AllJobs -> JobRecs] /\ job'[j] = r
      /\ \A k \in AllJobs : k # j => job'[k] = job[k] /\ job[k].pc \notin MutexPcs
      /\ \A k \in AllJobs : job'[k].pc \in {"check", "wire", "commits", "unbind", "drain"} =>
           k = j /\ r.pc \in {"commits", "unbind", "drain"}
      /\ \A k \in AllJobs : Dialling(k)' => Dialling(k)
      /\ \A o, pcs : Retiring(o, pcs) <=> job[j].victim = o /\ job[j].pc \in pcs
  BY <1>1, <1>3, <1>4, <1>5, RetireMoves
<1>7. PICK v \in Conns \cup {None} : v = job[j].victim BY <1>1
<1>8. /\ own' \in [Conns -> OwnRecs]
      /\ \A c \in Conns : /\ own'[c].published = own[c].published
                          /\ own'[c].commit = own[c].commit
                          /\ c # v => own'[c].sess = own[c].sess
      /\ v # None => own'[v].sess # "open" /\ ~own'[v].commit
  <2>1. /\ v # None => ~own[v].commit
        /\ own' = IF v # None /\ own[v].sess = "open"
                    THEN [own EXCEPT ![v].sess = "closed"] ELSE own
    BY <1>7 DEF RetireSession
  <2>2. CASE v # None /\ own[v].sess = "open"
    <3>1. PICK q \in OwnRecs : q = own[v] BY <1>1, <2>2
    <3>2. PICK r2 : r2 = [q EXCEPT !.sess = "closed"] OBVIOUS
    <3>3. /\ r2 \in OwnRecs /\ r2.published = q.published /\ r2.sess = "closed"
          /\ r2.commit = q.commit
      BY <3>2, OwnSession
    <3>4. own' = [own EXCEPT ![v] = r2] BY <2>1, <2>2, <3>1, <3>2
    <3> QED BY <1>1, <2>1, <2>2, <3>1, <3>3, <3>4
  <2>3. CASE ~(v # None /\ own[v].sess = "open") BY <1>1, <2>1, <2>3
  <2> QED BY <2>2, <2>3
<1>9. /\ \A o : Retiring(o, {"commits", "unbind"}) <=> o = v
      /\ \A o : Retiring(o, {"commits"}) <=> o = v
      /\ \A o : ~Retiring(o, {"drain"}) /\ ~Retiring(o, {"drain"})'
      /\ \A o : Retiring(o, {"commits", "unbind"})' <=> o = v
  <2>1. /\ \A o : Retiring(o, {"commits", "unbind"}) <=> o = v
        /\ \A o : Retiring(o, {"commits"}) <=> o = v
        /\ \A o : ~Retiring(o, {"drain"})
    BY <1>1, <1>6, <1>7
  <2>2. /\ \A o : ~Retiring(o, {"drain"})'
        /\ \A o : Retiring(o, {"commits", "unbind"})' <=> o = v
    BY <1>1, <1>4, <1>6, <1>7 DEF Retiring
  <2> QED BY <2>1, <2>2
<1>10. LifeTypeOK' BY <1>1, <1>6, <1>8 DEF LifeInv, LifeTypeOK
<1>11. HolderInv' BY <1>1, <1>4, <1>6, <1>7, <1>9, JobNames DEF HolderInv
<1>12. MetaInv' BY <1>1, <1>9 DEF LifeInv, MetaInv
<1>13. OwnInv'
  <2> SUFFICES ASSUME NEW o \in Conns, own'[o].sess = "open" \/ own'[o].commit
               PROVE  FALSE
    BY DEF OwnInv
  <2>1. o # v BY <1>8, JobNames
  <2>2. own[o].sess = "open" \/ own[o].commit BY <1>8, <2>1
  <2> QED BY <1>1, <1>9, <2>1, <2>2, JobNames DEF LifeInv, OwnInv
<1>14. BoundInv' BY <1>1, <1>8, <1>9 DEF LifeInv, LifeTypeOK, BoundInv
<1>15. ClosedInv'
  <2>1. job'[Closer].pc \in {"unlock", "done", "end"} => job[Closer].pc \in {"unlock", "done", "end"}
    BY <1>4, <1>6, JobNames
  <2> QED BY <1>1, <1>4, <1>6, <2>1 DEF LifeInv, ClosedInv
<1>16. LoadInv' BY <1>1 DEF LifeInv, LoadInv, LoadQueued
<1> QED BY <1>6, <1>10, <1>11, <1>12, <1>13, <1>14, <1>15, <1>16 DEF LifeInv

\* Unbind, and the first half of Disconnect.
LEMMA RetireUnbindKeeps == ASSUME LifeInv, NEW j \in AllJobs, RetireUnbind(j) PROVE LifeInv'
<1>1. /\ ioMu = j /\ job[j].pc = "unbind" /\ job[j] \in JobRecs /\ job \in [AllJobs -> JobRecs]
      /\ hstate \in Conns \cup {NoConn} /\ hstate' = NoConn /\ bound' = None /\ owner = None
      /\ job[j].victim = hstate /\ meta \in [Conns -> MetaRecs]
      /\ UNCHANGED <<load, gen, closed, ioMu, owner, own, active, shown, uiq>>
  BY DEF RetireUnbind, Holds, LifeInv, LifeTypeOK, HolderInv
<1>2. PICK pc : pc = IF hstate = NoConn THEN job[j].then ELSE "drain" OBVIOUS
<1>3. PICK r : r = [job[j] EXCEPT !.pc = pc, !.victim = hstate] OBVIOUS
<1>4. /\ "unbind" \in RetirePcs /\ "drain" \in RetirePcs /\ RetirePcs \subseteq MutexPcs
      /\ job[j].then \in {"unlock", "again", "dial", "unwired"}
      /\ {"unlock", "again", "dial", "unwired"} \subseteq MutexPcs
  BY <1>1 DEF RetirePcs, MutexPcs, LifeInv, IoMutexInv, JobRecs
<1>5. pc \in MutexPcs BY <1>2, <1>4
<1>6. r \in JobRecs BY <1>1, <1>3, <1>5, JobNames DEF JobRecs
<1>7. /\ r.pc = pc /\ r.kind = job[j].kind /\ r.want = job[j].want
      /\ r.then = job[j].then /\ r.victim = hstate
  BY <1>1, <1>3 DEF JobRecs
<1>8. job' = [job EXCEPT ![j] = r] BY <1>2, <1>3 DEF RetireUnbind
<1>9. /\ IoMutexInv' /\ job' \in [AllJobs -> JobRecs] /\ job'[j] = r
      /\ \A k \in AllJobs : k # j => job'[k] = job[k] /\ job[k].pc \notin MutexPcs
      /\ \A k \in AllJobs : job'[k].pc \in {"check", "wire", "commits", "unbind", "drain"} =>
           k = j /\ r.pc \in {"commits", "unbind", "drain"}
      /\ \A k \in AllJobs : Dialling(k)' => Dialling(k)
      /\ \A o, pcs : Retiring(o, pcs) <=> job[j].victim = o /\ job[j].pc \in pcs
      /\ j = Closer => r.then = "unlock"
  <2>1. r.pc \in RetirePcs \/ r.pc = job[j].then BY <1>2, <1>4, <1>7
  <2>2. job[j].pc \in RetirePcs /\ ioMu = j /\ UNCHANGED <<ioMu, closed>> BY <1>1, <1>4
  <2>3. r.kind = job[j].kind /\ r.want = job[j].want /\ r.then = job[j].then BY <1>7
  <2> QED BY <1>6, <1>8, <2>1, <2>2, <2>3, RetireMoves
<1>10. pc # "commits" /\ pc # "unbind" /\ (pc = "drain" <=> hstate # NoConn) BY <1>2, <1>4
<1>11. /\ \A o : ~Retiring(o, {"commits"})
       /\ \A o : ~Retiring(o, {"drain"})
       /\ \A o : Retiring(o, {"drain"})' <=> hstate # NoConn /\ o = hstate
  <2>1. /\ \A o : ~Retiring(o, {"commits"})
        /\ \A o : ~Retiring(o, {"drain"})
    BY <1>1, <1>9
  <2>2. \A o : Retiring(o, {"drain"})' <=> hstate # NoConn /\ o = hstate BY <1>1, <1>7, <1>9, <1>10 DEF Retiring
  <2> QED BY <2>1, <2>2
<1>12. /\ meta' \in [Conns -> MetaRecs]
       /\ \A s \in Conns : /\ meta'[s].open <=> FALSE
                           /\ meta'[s].sess = meta[s].sess /\ meta'[s].worker = meta[s].worker
                           /\ meta'[s].queue = meta[s].queue /\ meta'[s].item = meta[s].item
                           /\ meta'[s].call = meta[s].call /\ meta'[s].cache = meta[s].cache
  <2>1. \A s \in Conns : s # hstate => ~meta[s].open BY DEF LifeInv, MetaInv
  <2>2. CASE hstate = NoConn
    <3>1. meta' = meta BY <2>2 DEF RetireUnbind
    <3> QED BY <1>1, <2>1, <2>2, <3>1, JobNames
  <2>3. CASE hstate # NoConn
    <3>1. PICK h \in Conns : h = hstate BY <1>1, <2>3
    <3>2. PICK q \in MetaRecs : q = meta[h] BY <1>1
    <3>3. PICK r2 : r2 = [q EXCEPT !.open = FALSE] OBVIOUS
    <3>4. r2 \in MetaRecs BY <3>3 DEF MetaRecs
    <3>5. /\ r2.open = FALSE /\ r2.sess = q.sess /\ r2.worker = q.worker /\ r2.queue = q.queue
          /\ r2.item = q.item /\ r2.call = q.call /\ r2.cache = q.cache
      BY <3>3 DEF MetaRecs
    <3>6. meta' = [meta EXCEPT ![h] = r2] BY <2>3, <3>1, <3>2, <3>3 DEF RetireUnbind, Unpublished
    <3>7. /\ meta' \in [Conns -> MetaRecs] /\ meta'[h] = r2
          /\ \A s \in Conns : s # h => meta'[s] = meta[s]
      BY <1>1, <3>4, <3>6
    <3> QED BY <2>1, <3>1, <3>2, <3>5, <3>7
  <2> QED BY <2>2, <2>3
<1>13. LifeTypeOK' BY <1>1, <1>9, <1>12 DEF LifeInv, LifeTypeOK
<1>14. HolderInv'
  <2>1. ASSUME NEW k \in AllJobs, job'[k].pc = "drain"
        PROVE  /\ job'[k].victim \in Conns /\ meta'[job'[k].victim].sess = "open"
    <3>1. k = j /\ hstate # NoConn /\ hstate \in Conns BY <1>1, <1>7, <1>9, <1>10, <2>1
    <3>2. meta[hstate].sess = "open" BY <3>1 DEF LifeInv, MetaInv
    <3> QED BY <1>7, <1>9, <1>12, <3>1, <3>2
  <2>2. \A k \in AllJobs : job'[k].pc \notin {"check", "wire", "commits", "unbind"} BY <1>7, <1>9, <1>10
  <2> QED BY <1>1, <2>1, <2>2, JobNames DEF HolderInv
<1>15. MetaInv'
  <2> SUFFICES ASSUME NEW s \in Conns
               PROVE  /\ meta'[s].sess = "open" => Retiring(s, {"drain"})'
                      /\ meta'[s].sess = "open" <=>
                           meta'[s].worker \in {"idle", "busy"} \/ Retiring(s, {"drain"})'
                      /\ meta'[s].worker \in {"none", "exited"} => meta'[s].queue = <<>>
                      /\ meta'[s].worker = "busy" => meta'[s].call = s /\ meta'[s].item \in Loads
    BY <1>1, <1>12, JobNames DEF MetaInv
  <2>1. meta[s].sess = "open" <=> hstate = s BY <1>11 DEF LifeInv, MetaInv
  <2>2. Retiring(s, {"drain"})' <=> hstate = s BY <1>1, <1>11, JobNames
  <2>3. meta[s].worker \in {"idle", "busy"} => meta[s].sess = "open" BY DEF LifeInv, MetaInv
  <2>4. /\ meta[s].worker \in {"none", "exited"} => meta[s].queue = <<>>
        /\ meta[s].worker = "busy" => meta[s].call = s /\ meta[s].item \in Loads
    BY DEF LifeInv, MetaInv
  <2> QED BY <1>12, <2>1, <2>2, <2>3, <2>4
<1>16. OwnInv' BY <1>1, <1>11, JobNames DEF LifeInv, OwnInv
<1>17. BoundInv' BY <1>1 DEF BoundInv
<1>18. ClosedInv'
  <2> SUFFICES ASSUME job'[Closer].pc \in {"unlock", "done", "end"}
               PROVE  \A k \in AllJobs : ~Dialling(k)' /\ job'[k].pc # "drain"
    BY <1>1 DEF ClosedInv
  <2>1. CASE j = Closer
    <3>1. r.pc = "unlock" /\ hstate = NoConn BY <1>2, <1>7, <1>9, <1>10, <2>1
    <3>2. \A k \in AllJobs : k # j => job'[k].pc \notin MutexPcs BY <1>9
    <3>3. {"teardown", "dial", "check", "wire", "publish", "unwired", "drain"} \subseteq MutexPcs
      BY DEF MutexPcs, RetirePcs
    <3>4. "unlock" \notin RetirePcs BY DEF RetirePcs
    <3>5. ASSUME NEW k \in AllJobs
          PROVE  ~Dialling(k)' /\ job'[k].pc # "drain"
      <4>1. CASE k = j BY <1>9, <3>1, <3>4, <4>1 DEF Dialling
      <4>2. CASE k # j BY <1>4, <3>2, <3>3, <4>2 DEF Dialling
      <4> QED BY <4>1, <4>2
    <3> QED BY <3>5
  <2>2. CASE j # Closer
    <3>1. hstate = NoConn /\ \A k \in AllJobs : ~Dialling(k) /\ job[k].pc # "drain"
      BY <1>9, <2>2, JobNames DEF LifeInv, ClosedInv
    <3> QED BY <1>7, <1>9, <1>10, <3>1
  <2> QED BY <2>1, <2>2
<1>19. LoadInv' BY <1>1, <1>12 DEF LifeInv, LoadInv, LoadQueued
<1> QED BY <1>9, <1>13, <1>14, <1>15, <1>16, <1>17, <1>18, <1>19 DEF LifeInv

\* The second half of Disconnect: the worker has gone, the session closes.
LEMMA RetireDrainKeeps == ASSUME LifeInv, NEW j \in AllJobs, RetireDrain(j) PROVE LifeInv'
<1>1. /\ ioMu = j /\ job[j].pc = "drain" /\ job[j] \in JobRecs /\ job \in [AllJobs -> JobRecs]
      /\ hstate = NoConn /\ owner = None /\ meta \in [Conns -> MetaRecs] /\ Go(j, job[j].then)
      /\ job[j].victim \in Conns
      /\ UNCHANGED <<hstate, load, gen, closed, ioMu, owner, own, bound, active, shown, uiq>>
  BY DEF RetireDrain, Holds, LifeInv, LifeTypeOK, HolderInv
<1>2. PICK v \in Conns : v = job[j].victim BY <1>1
<1>3. PICK pc : pc = job[j].then OBVIOUS
<1>4. /\ "drain" \in RetirePcs /\ pc \in {"unlock", "again", "dial", "unwired"}
      /\ {"unlock", "again", "dial", "unwired"} \subseteq MutexPcs
  BY <1>1, <1>3 DEF RetirePcs, MutexPcs, LifeInv, IoMutexInv, JobRecs
<1>5. PICK r : r = [job[j] EXCEPT !.pc = pc] OBVIOUS
<1>6. pc \in MutexPcs BY <1>4
<1>7. /\ r \in JobRecs /\ r.pc = pc /\ r.kind = job[j].kind /\ r.want = job[j].want
      /\ r.then = job[j].then /\ r.victim = job[j].victim
  BY <1>1, <1>5, <1>6, RecordGoes
<1>8. job' = [job EXCEPT ![j] = r] BY <1>1, <1>3, <1>5 DEF Go
<1>9. /\ IoMutexInv' /\ job' \in [AllJobs -> JobRecs] /\ job'[j] = r
      /\ \A k \in AllJobs : k # j => job'[k] = job[k] /\ job[k].pc \notin MutexPcs
      /\ \A k \in AllJobs : job'[k].pc \in {"check", "wire", "commits", "unbind", "drain"} =>
           k = j /\ r.pc \in {"commits", "unbind", "drain"}
      /\ \A k \in AllJobs : Dialling(k)' => Dialling(k)
      /\ \A o, pcs : Retiring(o, pcs) <=> job[j].victim = o /\ job[j].pc \in pcs
      /\ j = Closer => r.then = "unlock"
  <2>1. job[j].pc \in RetirePcs /\ (r.pc \in RetirePcs \/ r.pc = job[j].then) BY <1>1, <1>3, <1>4, <1>7
  <2> QED BY <1>1, <1>7, <1>8, <2>1, RetireMoves
<1>10. \A k \in AllJobs : job'[k].pc \notin {"check", "wire", "commits", "unbind", "drain"} BY <1>4, <1>7, <1>9
<1>11. /\ \A o : ~Retiring(o, {"commits"}) /\ ~Retiring(o, {"commits", "unbind"})
       /\ \A o : Retiring(o, {"drain"}) <=> o = v
       /\ \A o : ~Retiring(o, {"drain"})'
  <2>1. /\ \A o : ~Retiring(o, {"commits"}) /\ ~Retiring(o, {"commits", "unbind"})
        /\ \A o : Retiring(o, {"drain"}) <=> o = v
    BY <1>1, <1>2, <1>9
  <2>2. \A o : ~Retiring(o, {"drain"})' BY <1>10 DEF Retiring
  <2> QED BY <2>1, <2>2
<1>12. /\ meta' \in [Conns -> MetaRecs] /\ meta'[v].sess = "closed" /\ meta[v].worker = "exited"
       /\ \A s \in Conns : /\ meta'[s].open = meta[s].open
                           /\ s # v => meta'[s].sess = meta[s].sess
       /\ \A s \in Conns : /\ meta'[s].worker = meta[s].worker
                           /\ meta'[s].queue = meta[s].queue /\ meta'[s].item = meta[s].item
                           /\ meta'[s].call = meta[s].call /\ meta'[s].cache = meta[s].cache
  <2>1. PICK q \in MetaRecs : q = meta[v] BY <1>1
  <2>2. PICK r2 : r2 = [q EXCEPT !.sess = "closed"] OBVIOUS
  <2>3. r2 \in MetaRecs BY <2>2 DEF MetaRecs
  <2>4. /\ r2.open = q.open /\ r2.sess = "closed" /\ r2.worker = q.worker /\ r2.queue = q.queue
        /\ r2.item = q.item /\ r2.call = q.call /\ r2.cache = q.cache
    BY <2>2 DEF MetaRecs
  <2>5. meta' = [meta EXCEPT ![v] = r2] /\ meta[v].worker = "exited"
    BY <1>2, <2>1, <2>2 DEF RetireDrain, Disposed, WorkerGone
  <2>6. /\ meta' \in [Conns -> MetaRecs] /\ meta'[v] = r2
        /\ \A s \in Conns : s # v => meta'[s] = meta[s]
    BY <1>1, <2>3, <2>5
  <2> QED BY <2>1, <2>4, <2>5, <2>6
<1>13. LifeTypeOK' BY <1>1, <1>9, <1>12 DEF LifeInv, LifeTypeOK
<1>14. HolderInv' BY <1>1, <1>10 DEF HolderInv, NoConn, None
<1>15. MetaInv'
  <2> SUFFICES ASSUME NEW s \in Conns
               PROVE  /\ meta'[s].open <=> hstate = s
                      /\ hstate # s
                      /\ meta'[s].sess # "open"
                      /\ meta'[s].worker \notin {"idle", "busy"}
                      /\ meta'[s].worker \in {"none", "exited"} => meta'[s].queue = <<>>
    BY <1>1, <1>11, <1>12 DEF MetaInv, LifeInv
  <2>1. /\ hstate # s
        /\ meta[s].open <=> hstate = s
        /\ meta[s].sess = "open" => s = v
        /\ meta[s].worker \in {"none", "exited"} => meta[s].queue = <<>>
        /\ meta[s].worker \in {"idle", "busy"} => meta[s].sess = "open"
    BY <1>1, <1>11, JobNames DEF LifeInv, MetaInv
  <2> QED BY <1>12, <2>1
<1>16. OwnInv' BY <1>1, <1>11, JobNames DEF LifeInv, OwnInv
<1>17. BoundInv' BY <1>1, <1>11 DEF LifeInv, LifeTypeOK, BoundInv
<1>18. ClosedInv'
  <2> SUFFICES ASSUME job'[Closer].pc \in {"unlock", "done", "end"}
               PROVE  \A k \in AllJobs : ~Dialling(k)'
    BY <1>1, <1>10 DEF ClosedInv
  <2>1. CASE j = Closer
    <3>1. r.pc = "unlock" /\ r.pc \notin RetirePcs BY <1>3, <1>7, <1>9, <2>1 DEF RetirePcs
    <3>2. {"teardown", "dial", "check", "wire", "publish", "unwired"} \subseteq MutexPcs /\ RetirePcs \subseteq MutexPcs
      BY DEF MutexPcs, RetirePcs
    <3>3. ASSUME NEW k \in AllJobs
          PROVE  ~Dialling(k)'
      <4>1. CASE k = j BY <1>9, <3>1, <4>1 DEF Dialling
      <4>2. CASE k # j BY <1>9, <3>2, <4>2 DEF Dialling
      <4> QED BY <4>1, <4>2
    <3> QED BY <3>3
  <2>2. CASE j # Closer
    <3>1. \A k \in AllJobs : ~Dialling(k) BY <1>9, <2>2, JobNames DEF LifeInv, ClosedInv
    <3> QED BY <1>9, <3>1
  <2> QED BY <2>1, <2>2
<1>19. LoadInv' BY <1>1, <1>12 DEF LifeInv, LoadInv, LoadQueued
<1> QED BY <1>9, <1>13, <1>14, <1>15, <1>16, <1>17, <1>18, <1>19 DEF LifeInv

\* A dial that fails, or is refused because a connection is open.
LEMMA DialFails ==
    ASSUME LifeInv, NEW j \in Jobs, ioMu = j, job[j].pc = "dial", Go(j, "unlock"),
           uiq' = IF Stale(job[j].gen) THEN uiq
                  ELSE uiq \cup {[kind |-> "error", gen |-> job[j].gen, o |-> None]},
           UNCHANGED <<hstate, meta, load, gen, closed, ioMu, owner, own, bound, active, shown>>
    PROVE  LifeInv'
<1>1. /\ j \in AllJobs /\ job[j] \in JobRecs /\ job \in [AllJobs -> JobRecs] BY JobNames DEF LifeInv, LifeTypeOK
<1>2. PICK r : r = [job[j] EXCEPT !.pc = "unlock"] OBVIOUS
<1>3. "unlock" \in MutexPcs BY DEF MutexPcs
<1>4. r \in JobRecs /\ r.pc = "unlock" /\ r.kind = job[j].kind BY <1>1, <1>2, <1>3, RecordGoes
<1>5. job' = [job EXCEPT ![j] = r] BY <1>1, <1>2 DEF Go
<1>6. job' \in [AllJobs -> JobRecs] BY <1>1, <1>4, <1>5
<1>7. uiq' \in SUBSET ClosureRecs /\ \A c \in uiq' : c.kind = "publish" => c.o \in Conns
  <2>1. PICK c : c = [kind |-> "error", gen |-> job[j].gen, o |-> None] OBVIOUS
  <2>2. c \in ClosureRecs /\ c.kind # "publish" BY <1>1, <2>1 DEF ClosureRecs, JobRecs
  <2>3. uiq' = uiq \/ uiq' = uiq \cup {c} BY <2>1
  <2> QED BY <2>2, <2>3 DEF LifeInv, LifeTypeOK
<1>8. LifeTypeOK' BY <1>1, <1>6, <1>7 DEF LifeInv, LifeTypeOK
<1>9. BoundInv' BY BoundWorks
<1>10. r.pc \notin RetirePcs BY <1>4 DEF RetirePcs
<1> QED BY <1>1, <1>4, <1>5, <1>8, <1>9, <1>10, WorkFrame

\* A dial that succeeds installs the owner and the helper's state.
LEMMA DialOpens ==
    ASSUME LifeInv, NEW j \in Jobs, ioMu = j, job[j].pc = "dial", Go(j, "check"),
           hstate = NoConn, hstate' = j, meta' = Opened(j), owner' = j,
           own' = [own EXCEPT ![j].profile = job[j].profile],
           UNCHANGED <<load, gen, closed, ioMu, bound, active, shown, uiq>>
    PROVE  LifeInv'
<1>1. /\ j \in AllJobs /\ j \in Conns /\ j # Closer /\ j # NoConn
      /\ job[j] \in JobRecs /\ job \in [AllJobs -> JobRecs]
      /\ meta \in [Conns -> MetaRecs] /\ own \in [Conns -> OwnRecs]
  BY JobNames DEF LifeInv, LifeTypeOK
<1>2. PICK r : r = [job[j] EXCEPT !.pc = "check"] OBVIOUS
<1>3. "check" \in MutexPcs /\ "check" \notin RetirePcs BY DEF MutexPcs, RetirePcs
<1>4. /\ r \in JobRecs /\ r.pc = "check" /\ r.kind = job[j].kind BY <1>1, <1>2, <1>3, RecordGoes
<1>5. job' = [job EXCEPT ![j] = r] BY <1>1, <1>2 DEF Go
<1>6. /\ IoMutexInv' /\ job' \in [AllJobs -> JobRecs] /\ job'[j] = r
      /\ \A k \in AllJobs : k # j => job'[k] = job[k] /\ job[k].pc \notin MutexPcs
  BY <1>1, <1>3, <1>4, <1>5, HolderMoves
<1>7. \A o : /\ ~Retiring(o, {"commits"}) /\ ~Retiring(o, {"commits", "unbind"})
             /\ ~Retiring(o, {"drain"})
             /\ ~Retiring(o, {"drain"})'
  <2>1. \A o : ~Retiring(o, {"commits"}) /\ ~Retiring(o, {"commits", "unbind"}) /\ ~Retiring(o, {"drain"})
    BY <1>1, OneInside
  <2>2. \A o : ~Retiring(o, {"drain"})' BY <1>1, <1>4, <1>6 DEF Retiring
  <2> QED BY <2>1, <2>2
<1>8. owner = None /\ \A s \in Conns : meta[s].sess # "open" /\ ~meta[s].open
  <2>1. owner = None BY JobNames DEF LifeInv, LifeTypeOK, HolderInv
  <2>2. \A s \in Conns : meta[s].sess # "open" /\ ~meta[s].open BY <1>7, JobNames DEF LifeInv, MetaInv
  <2> QED BY <2>1, <2>2
<1>9. \A s \in Conns : meta[s].worker \in {"none", "exited"} /\ meta[s].queue = <<>>
  <2> SUFFICES ASSUME NEW s \in Conns
               PROVE  meta[s].worker \in {"none", "exited"} /\ meta[s].queue = <<>>
    OBVIOUS
  <2>1. meta[s].worker \in {"none", "idle", "busy", "exited"} BY <1>1 DEF MetaRecs
  <2>2. meta[s].worker \notin {"idle", "busy"} BY <1>8 DEF LifeInv, MetaInv
  <2> QED BY <2>1, <2>2 DEF LifeInv, MetaInv
<1>10. /\ meta' \in [Conns -> MetaRecs]
       /\ meta'[j].open /\ meta'[j].sess = "open" /\ meta'[j].worker = "idle"
       /\ \A s \in Conns : meta'[s].queue = meta[s].queue /\ meta'[s].cache = meta[s].cache
       /\ \A s \in Conns : s # j => meta'[s] = meta[s]
  <2>1. PICK q \in MetaRecs : q = meta[j] BY <1>1
  <2>2. PICK r2 : r2 = [q EXCEPT !.sess = "open", !.open = TRUE, !.worker = "idle"] OBVIOUS
  <2>3. r2 \in MetaRecs BY <2>2 DEF MetaRecs
  <2>4. /\ r2.open = TRUE /\ r2.sess = "open" /\ r2.worker = "idle" /\ r2.queue = q.queue
        /\ r2.cache = q.cache
    BY <2>2 DEF MetaRecs
  <2>5. meta' = [meta EXCEPT ![j] = r2] BY <1>1, <2>1, <2>2 DEF Opened
  <2>6. /\ meta' \in [Conns -> MetaRecs] /\ meta'[j] = r2
        /\ \A s \in Conns : s # j => meta'[s] = meta[s]
    BY <1>1, <2>3, <2>5
  <2> QED BY <2>1, <2>4, <2>6
<1>11. /\ own' \in [Conns -> OwnRecs]
       /\ \A c \in Conns : /\ own'[c].published = own[c].published
                           /\ own'[c].commit = own[c].commit /\ own'[c].sess = own[c].sess
  <2>1. PICK q \in OwnRecs, p \in Profiles \cup {NoProfile} : q = own[j] /\ p = job[j].profile BY <1>1 DEF JobRecs
  <2>2. PICK r2 : r2 = [q EXCEPT !.profile = p] OBVIOUS
  <2>3. r2 \in OwnRecs BY <2>2 DEF OwnRecs
  <2>4. r2.published = q.published /\ r2.commit = q.commit /\ r2.sess = q.sess BY <2>2 DEF OwnRecs
  <2>5. own' = [own EXCEPT ![j] = r2] BY <1>1, <2>1, <2>2
  <2> QED BY <1>1, <2>1, <2>3, <2>4, <2>5
<1>12. LifeTypeOK' BY <1>1, <1>6, <1>10, <1>11 DEF LifeInv, LifeTypeOK
<1>13. HolderInv'
  <2>1. {"check", "wire", "commits", "unbind", "drain"} \subseteq MutexPcs BY DEF MutexPcs, RetirePcs
  <2>2. \A k \in AllJobs : job'[k].pc \in {"check", "wire", "commits", "unbind", "drain"} =>
          k = j /\ job'[k].pc = "check"
    BY <1>4, <1>6, <2>1
  <2> QED BY <2>2 DEF HolderInv
<1>14. MetaInv'
  <2> SUFFICES ASSUME NEW s \in Conns
               PROVE  /\ meta'[s].open <=> j = s
                      /\ j = s => meta'[s].sess = "open"
                      /\ meta'[s].sess = "open" => j = s
                      /\ meta'[s].sess = "open" <=> meta'[s].worker \in {"idle", "busy"}
                      /\ meta'[s].open => meta'[s].worker \in {"idle", "busy"}
                      /\ meta'[s].worker \in {"none", "exited"} => meta'[s].queue = <<>>
                      /\ meta'[s].worker # "busy"
    BY <1>7 DEF MetaInv
  <2>1. CASE s = j BY <1>10, <2>1
  <2>2. CASE s # j BY <1>8, <1>9, <1>10, <2>2
  <2> QED BY <2>1, <2>2
<1>15. OwnInv' BY <1>7, <1>8, <1>11, JobNames DEF LifeInv, OwnInv
<1>16. BoundInv' BY <1>7, <1>8, JobNames DEF LifeInv, LifeTypeOK, BoundInv
<1>17. ClosedInv'
  <2>1. Dialling(j) BY DEF Dialling
  <2>2. job'[Closer] = job[Closer] BY <1>1, <1>6, JobNames
  <2> QED BY <1>1, <2>1, <2>2 DEF LifeInv, ClosedInv
<1>18. LoadInv'
  <2>1. \A l \in Loads : load[l].st # "waiting" BY <1>9 DEF LifeInv, LoadInv, LoadQueued
  <2> QED BY <1>10, <2>1 DEF LifeInv, LoadInv
<1> QED BY <1>6, <1>12, <1>13, <1>14, <1>15, <1>16, <1>17, <1>18 DEF LifeInv

LEMMA DialKeeps == ASSUME LifeInv, NEW j \in Jobs, Dial(j) PROVE LifeInv'
<1>1. ioMu = j /\ job[j].pc = "dial" BY DEF Dial, Holds
<1>2. UNCHANGED <<load, gen, closed, ioMu, bound, active, shown>> BY DEF Dial
<1>3. ASSUME uiq' = IF Stale(job[j].gen) THEN uiq
                    ELSE uiq \cup {[kind |-> "error", gen |-> job[j].gen, o |-> None]},
             Go(j, "unlock"), UNCHANGED <<hstate, meta, owner, own>>
      PROVE  LifeInv'
  BY <1>1, <1>2, <1>3, DialFails
<1>4. ASSUME hstate = NoConn, hstate' = j, meta' = Opened(j), owner' = j, UNCHANGED uiq,
             own' = [own EXCEPT ![j].profile = job[j].profile], Go(j, "check")
      PROVE  LifeInv'
  BY <1>1, <1>2, <1>4, DialOpens
<1> QED BY <1>3, <1>4 DEF Dial

-----------------------------------------
(* The helper's queue and its worker. *)

LEMMA HelperFrame ==
    ASSUME LifeInv, UNCHANGED lifeVars, UNCHANGED hstate,
           meta' \in [Conns -> MetaRecs], load' \in [Loads -> LoadRecs],
           \A s \in Conns : meta'[s].sess = meta[s].sess,
           MetaInv', LoadInv'
    PROVE  LifeInv'
<1>1. UNCHANGED <<gen, closed, ioMu, owner, own, bound, active, shown, modal, job, uiq, spent>> BY DEF lifeVars
<1>2. \A o, pcs : Retiring(o, pcs)' <=> Retiring(o, pcs) BY <1>1 DEF Retiring
<1>3. LifeTypeOK' BY <1>1 DEF LifeInv, LifeTypeOK
<1>4. IoMutexInv' BY <1>1 DEF LifeInv, IoMutexInv
<1>5. HolderInv'
  <2>1. Retiring(hstate, {"commits", "unbind"})' <=> Retiring(hstate, {"commits", "unbind"}) BY <1>1 DEF Retiring
  <2> QED BY <1>1, <2>1 DEF LifeInv, HolderInv
<1>6. OwnInv'
  <2>1. \A o \in Conns : Retiring(o, {"commits"})' <=> Retiring(o, {"commits"}) BY <1>1 DEF Retiring
  <2> QED BY <1>1, <2>1 DEF LifeInv, OwnInv
<1>7. BoundInv'
  <2>1. Retiring(bound, {"commits", "unbind"})' <=> Retiring(bound, {"commits", "unbind"}) BY <1>1 DEF Retiring
  <2> QED BY <1>1, <2>1 DEF LifeInv, BoundInv
<1>8. ClosedInv' BY <1>1 DEF LifeInv, ClosedInv, Dialling
<1> QED BY <1>3, <1>4, <1>5, <1>6, <1>7, <1>8 DEF LifeInv

LEMMA DrainSame ==
    ASSUME UNCHANGED lifeVars
    PROVE  \A o : Retiring(o, {"drain"})' <=> Retiring(o, {"drain"})
BY DEF lifeVars, Retiring

\* A caller's step, which leaves the worker alone.
LEMMA CallerMoves ==
    ASSUME LifeInv, UNCHANGED lifeVars, UNCHANGED hstate,
           NEW l \in Loads, NEW r \in LoadRecs, load' = [load EXCEPT ![l] = r],
           meta' \in [Conns -> MetaRecs],
           \A s \in Conns :
             /\ meta'[s].sess = meta[s].sess /\ meta'[s].open = meta[s].open
             /\ meta'[s].worker = meta[s].worker /\ meta'[s].queue = meta[s].queue
             /\ meta'[s].item = meta[s].item /\ meta'[s].call = meta[s].call
             /\ \A x \in meta'[s].cache : x \in meta[s].cache \/ (x = l /\ r.on = s /\ r.st = "ready"),
           r.st = "sending" => r.on \in Conns,
           r.st = "waiting" => load[l].st = "waiting" /\ r.on = load[l].on,
           r.st \in {"idle", "issued"} => load[l].st \in {"idle", "issued"},
           r.on = load[l].on \/ load[l].st \in {"idle", "issued"}
    PROVE  LifeInv'
<1>1. /\ load \in [Loads -> LoadRecs] /\ load' \in [Loads -> LoadRecs] /\ load'[l] = r
      /\ \A x \in Loads : x # l => load'[x] = load[x]
  BY DEF LifeInv, LifeTypeOK
<1>2. MetaInv'
  <2>1. \A o : Retiring(o, {"drain"})' <=> Retiring(o, {"drain"}) BY DrainSame
  <2> QED BY <2>1 DEF LifeInv, MetaInv
<1>3. \A s \in Conns : meta[s].cache \subseteq Loads /\ meta'[s].cache \subseteq Loads
  BY DEF LifeInv, LifeTypeOK, MetaRecs
<1>4. LoadInv'
  <2>1. ASSUME NEW x \in Loads, load'[x].st \in {"sending", "waiting"}
        PROVE  load'[x].on \in Conns
    BY <1>1, <2>1 DEF LifeInv, LoadInv
  <2>2. ASSUME NEW o \in Conns, NEW x \in Loads, load'[x].st = "waiting", load'[x].on = o
        PROVE  LoadQueued(x, o)' \/ (meta'[o].worker = "busy" /\ meta'[o].item = x)
    <3>1. load[x].st = "waiting" /\ load[x].on = o BY <1>1, <2>2
    <3>2. LoadQueued(x, o) \/ (meta[o].worker = "busy" /\ meta[o].item = x) BY <3>1 DEF LifeInv, LoadInv
    <3>3. LoadQueued(x, o) => LoadQueued(x, o)' BY DEF LoadQueued
    <3> QED BY <3>2, <3>3
  <2>3. ASSUME NEW s \in Conns, NEW x \in meta'[s].cache
        PROVE  load'[x].on = s /\ load'[x].st \notin {"idle", "issued"}
    <3>1. x \in Loads BY <1>3
    <3>2. CASE x \in meta[s].cache
      <4>1. load[x].on = s /\ load[x].st \notin {"idle", "issued"} BY <3>2 DEF LifeInv, LoadInv
      <4> QED BY <1>1, <3>1, <4>1
    <3>3. CASE x \notin meta[s].cache BY <1>1, <3>3
    <3> QED BY <3>2, <3>3
  <2> QED BY <2>1, <2>2, <2>3 DEF LoadInv
<1> QED BY <1>1, <1>2, <1>4, HelperFrame

LEMMA AnswerIs ==
    ASSUME LifeInv, NEW l \in Loads,
           NEW a \in {"canceled", "replaced", "notconnected", "ok", "failed"}, load' = Answer(l, a)
    PROVE  \E r \in LoadRecs : /\ load' = [load EXCEPT ![l] = r] /\ r.st = "answered"
                               /\ r.on = load[l].on
<1>1. load \in [Loads -> LoadRecs] BY DEF LifeInv, LifeTypeOK
<1>2. PICK q \in LoadRecs : q = load[l] BY <1>1
<1>3. PICK r : r = [q EXCEPT !.st = "answered", !.answer = a] OBVIOUS
<1>4. r \in LoadRecs BY <1>3 DEF LoadRecs
<1>5. r.st = "answered" /\ r.on = q.on BY <1>3 DEF LoadRecs
<1>6. load' = [load EXCEPT ![l] = r] BY <1>1, <1>2, <1>3, ZenonT(40) DEF Answer
<1> QED BY <1>2, <1>4, <1>5, <1>6

LEMMA MetaStands ==
    ASSUME LifeInv, meta' = meta
    PROVE  /\ meta' \in [Conns -> MetaRecs]
           /\ \A s \in Conns :
                /\ meta'[s].sess = meta[s].sess /\ meta'[s].open = meta[s].open
                /\ meta'[s].worker = meta[s].worker /\ meta'[s].queue = meta[s].queue
                /\ meta'[s].item = meta[s].item /\ meta'[s].call = meta[s].call
                /\ \A x \in meta'[s].cache : x \in meta[s].cache
BY DEF LifeInv, LifeTypeOK

LEMMA IssueKeeps ==
    ASSUME LifeInv, UNCHANGED lifeVars, NEW l \in Loads, Issue(l) PROVE LifeInv'
<1>1. load \in [Loads -> LoadRecs] /\ hstate \in Conns \cup {NoConn} /\ load[l].st = "idle"
      /\ UNCHANGED <<hstate, meta>>
  BY DEF LifeInv, LifeTypeOK, Issue
<1>2. PICK pinned \in BOOLEAN, warm \in BOOLEAN :
        load' = [load EXCEPT ![l] = [IdleLoad EXCEPT !.st = "issued", !.pinned = pinned,
                                       !.warm = warm, !.on = IF pinned THEN hstate ELSE NoConn]]
  BY DEF Issue
<1>3. PICK o \in Conns \cup {NoConn} : o = IF pinned THEN hstate ELSE NoConn BY <1>1
<1>4. PICK r : r = [IdleLoad EXCEPT !.st = "issued", !.pinned = pinned, !.warm = warm, !.on = o] OBVIOUS
<1>5. r = [st |-> "issued", pinned |-> pinned, warm |-> warm, on |-> o, ctx |-> FALSE,
           answer |-> "none"]
  BY <1>4 DEF IdleLoad
<1>6. r \in LoadRecs /\ r.st = "issued" BY <1>5 DEF LoadRecs
<1>7. load' = [load EXCEPT ![l] = r] BY <1>2, <1>3, <1>4
<1> QED BY <1>1, <1>6, <1>7, MetaStands, CallerMoves

LEMMA SubmitKeeps ==
    ASSUME LifeInv, UNCHANGED lifeVars, NEW l \in Loads, Submit(l) PROVE LifeInv'
<1>1. load \in [Loads -> LoadRecs] /\ hstate \in Conns \cup {NoConn} /\ load[l].st = "issued"
      /\ UNCHANGED <<hstate, meta>>
  BY DEF LifeInv, LifeTypeOK, Submit
<1>2. PICK r \in LoadRecs : /\ load' = [load EXCEPT ![l] = r]
                            /\ r.st = "answered" \/ (r.st = "sending" /\ r.on \in Conns)
  <2>1. CASE \E a \in {"canceled", "replaced", "notconnected"} : load' = Answer(l, a) BY <2>1, AnswerIs
  <2>2. CASE load' = [load EXCEPT ![l].st = "sending", ![l].on = hstate] /\ hstate # NoConn
    <3>1. PICK q \in LoadRecs, h \in Conns : q = load[l] /\ h = hstate BY <1>1, <2>2
    <3>2. PICK r : r = [q EXCEPT !.st = "sending", !.on = h] OBVIOUS
    <3>3. r \in LoadRecs BY <3>2 DEF LoadRecs
    <3>4. r.st = "sending" /\ r.on = h BY <3>2 DEF LoadRecs
    <3>5. load' = [load EXCEPT ![l] = r] BY <1>1, <2>2, <3>1, <3>2
    <3> QED BY <3>3, <3>4, <3>5
  <2> QED BY <2>1, <2>2 DEF Submit
<1> QED BY <1>1, <1>2, MetaStands, CallerMoves

LEMMA AbandonKeeps ==
    ASSUME LifeInv, UNCHANGED lifeVars, NEW l \in Loads, Abandon(l) PROVE LifeInv'
<1>1. load \in [Loads -> LoadRecs] /\ load[l].st \in {"issued", "sending", "waiting"}
      /\ UNCHANGED <<hstate, meta>>
  BY DEF LifeInv, LifeTypeOK, Abandon
<1>2. PICK q \in LoadRecs : q = load[l] BY <1>1
<1>3. PICK st \in {"issued", "answered"} : st = IF q.st = "issued" THEN q.st ELSE "answered" OBVIOUS
<1>4. PICK a : a = IF q.st = "issued" THEN q.answer ELSE "canceled" OBVIOUS
<1>5. PICK r : r = [q EXCEPT !.ctx = TRUE, !.st = st, !.answer = a] OBVIOUS
<1>6. r \in LoadRecs BY <1>3, <1>4, <1>5 DEF LoadRecs
<1>7. r.st = st /\ r.on = q.on BY <1>5 DEF LoadRecs
<1>8. load' = [load EXCEPT ![l] = r] BY <1>1, <1>2, <1>3, <1>4, <1>5 DEF Abandon
<1>9. r.st = "issued" => load[l].st = "issued" BY <1>2, <1>3, <1>7
<1> QED BY <1>1, <1>2, <1>3, <1>6, <1>7, <1>8, <1>9, MetaStands, CallerMoves

\* The state of a load moves on, and nothing else of it.
LEMMA LoadGoes ==
    ASSUME LifeInv, NEW l \in Loads, NEW st \in {"ready", "dropped", "delivered", "waiting"},
           load' = [load EXCEPT ![l].st = st]
    PROVE  \E r \in LoadRecs : load' = [load EXCEPT ![l] = r] /\ r.st = st /\ r.on = load[l].on
<1>1. load \in [Loads -> LoadRecs] BY DEF LifeInv, LifeTypeOK
<1>2. PICK q \in LoadRecs : q = load[l] BY <1>1
<1>3. PICK r : r = [q EXCEPT !.st = st] OBVIOUS
<1>4. r \in LoadRecs BY <1>3 DEF LoadRecs
<1>5. r.st = st /\ r.on = q.on BY <1>3 DEF LoadRecs
<1>6. load' = [load EXCEPT ![l] = r] BY <1>1, <1>2, <1>3
<1> QED BY <1>2, <1>4, <1>5, <1>6

LEMMA DeliverKeeps ==
    ASSUME LifeInv, UNCHANGED lifeVars, NEW l \in Loads, Deliver(l) PROVE LifeInv'
<1>1. UNCHANGED <<hstate, meta>> BY DEF Deliver
<1>2. PICK st \in {"delivered", "dropped"} : load' = [load EXCEPT ![l].st = st] BY DEF Deliver
<1>3. st \in {"ready", "dropped", "delivered", "waiting"} OBVIOUS
<1>4. PICK r \in LoadRecs : load' = [load EXCEPT ![l] = r] /\ r.st = st /\ r.on = load[l].on BY <1>2, <1>3, LoadGoes
<1> QED BY <1>1, <1>4, MetaStands, CallerMoves

LEMMA StoreDetailKeeps ==
    ASSUME LifeInv, UNCHANGED lifeVars, NEW l \in Loads, StoreDetail(l) PROVE LifeInv'
<1>1. /\ meta \in [Conns -> MetaRecs] /\ load[l].st = "answered" /\ UNCHANGED hstate
      /\ load[l].on \in Conns \cup {NoConn}
  BY DEF LifeInv, LifeTypeOK, StoreDetail, LoadRecs
<1>2. PICK st \in {"ready", "dropped"} :
        load' = [load EXCEPT ![l].st = st] /\ (load[l].on = hstate => st = "ready")
  BY DEF StoreDetail
<1>3. st \in {"ready", "dropped", "delivered", "waiting"} OBVIOUS
<1>4. PICK r \in LoadRecs : load' = [load EXCEPT ![l] = r] /\ r.st = st /\ r.on = load[l].on BY <1>2, <1>3, LoadGoes
<1>5. PICK o \in Conns \cup {NoConn} : o = load[l].on BY <1>1
<1>6. /\ meta' \in [Conns -> MetaRecs]
      /\ \A s \in Conns :
           /\ meta'[s].sess = meta[s].sess /\ meta'[s].open = meta[s].open
           /\ meta'[s].worker = meta[s].worker /\ meta'[s].queue = meta[s].queue
           /\ meta'[s].item = meta[s].item /\ meta'[s].call = meta[s].call
           /\ \A x \in meta'[s].cache : x \in meta[s].cache \/ (x = l /\ r.on = s /\ r.st = "ready")
  <2>1. CASE o # hstate \/ o \notin Conns
    <3>1. meta' = IF o = hstate THEN [meta EXCEPT ![o].cache = @ \cup {l}] ELSE meta BY <1>5 DEF StoreDetail
    <3>2. meta' = meta BY <1>1, <2>1, <3>1
    <3> QED BY <3>2, MetaStands
  <2>2. CASE o = hstate /\ o \in Conns
    <3>1. PICK q \in MetaRecs : q = meta[o] BY <1>1, <2>2
    <3>2. PICK r2 : r2 = [q EXCEPT !.cache = @ \cup {l}] OBVIOUS
    <3>3. r2 \in MetaRecs BY <3>2 DEF MetaRecs
    <3>4. /\ r2.sess = q.sess /\ r2.open = q.open /\ r2.worker = q.worker /\ r2.queue = q.queue
          /\ r2.item = q.item /\ r2.call = q.call /\ r2.cache = q.cache \cup {l}
      BY <3>2 DEF MetaRecs
    <3>5. meta' = [meta EXCEPT ![o].cache = @ \cup {l}] BY <1>5, <2>2 DEF StoreDetail
    <3>6. meta' = [meta EXCEPT ![o] = r2] BY <1>1, <2>2, <3>1, <3>2, <3>5
    <3>7. /\ meta' \in [Conns -> MetaRecs] /\ meta'[o] = r2
          /\ \A s \in Conns : s # o => meta'[s] = meta[s]
      BY <1>1, <2>2, <3>3, <3>6
    <3>8. r.on = o /\ r.st = "ready" BY <1>2, <1>4, <1>5, <2>2
    <3>9. ASSUME NEW s \in Conns
          PROVE  /\ meta'[s].sess = meta[s].sess /\ meta'[s].open = meta[s].open
                 /\ meta'[s].worker = meta[s].worker /\ meta'[s].queue = meta[s].queue
                 /\ meta'[s].item = meta[s].item /\ meta'[s].call = meta[s].call
                 /\ \A x \in meta'[s].cache :
                      x \in meta[s].cache \/ (x = l /\ r.on = s /\ r.st = "ready")
      <4>1. CASE s = o BY <3>1, <3>4, <3>7, <3>8, <4>1
      <4>2. CASE s # o BY <3>7, <4>2
      <4> QED BY <4>1, <4>2
    <3> QED BY <3>7, <3>9
  <2> QED BY <2>1, <2>2
<1>7. /\ r.st \notin {"sending", "waiting", "idle", "issued"}
      /\ r.on = load[l].on
  BY <1>2, <1>4
<1> QED BY <1>1, <1>4, <1>6, <1>7, CallerMoves

\* A step on one helper state, its session and its queue's gate as they were.
LEMMA MetaMoves ==
    ASSUME LifeInv, UNCHANGED lifeVars, UNCHANGED hstate,
           NEW s \in Conns, NEW r \in MetaRecs, meta' = [meta EXCEPT ![s] = r],
           r.sess = meta[s].sess, r.open = meta[s].open,
           meta[s].sess = "open" <=> r.worker \in {"idle", "busy"} \/ Retiring(s, {"drain"}),
           r.open => r.worker \in {"idle", "busy"},
           r.worker \in {"none", "exited"} => r.queue = <<>>,
           r.worker = "busy" => r.call = s /\ r.item \in Loads
    PROVE  /\ meta' \in [Conns -> MetaRecs] /\ meta'[s] = r /\ MetaInv'
           /\ \A o \in Conns : o # s => meta'[o] = meta[o]
           /\ \A o \in Conns : meta'[o].sess = meta[o].sess
<1>1. /\ meta' \in [Conns -> MetaRecs] /\ meta'[s] = r
      /\ \A o \in Conns : o # s => meta'[o] = meta[o]
  BY DEF LifeInv, LifeTypeOK
<1>2. \A o : Retiring(o, {"drain"})' <=> Retiring(o, {"drain"}) BY DrainSame
<1>3. MetaInv'
  <2> SUFFICES ASSUME NEW o \in Conns
               PROVE  /\ meta'[o].open <=> hstate = o
                      /\ hstate = o => meta'[o].sess = "open"
                      /\ meta'[o].sess = "open" => hstate = o \/ Retiring(o, {"drain"})
                      /\ meta'[o].sess = "open" <=>
                           meta'[o].worker \in {"idle", "busy"} \/ Retiring(o, {"drain"})
                      /\ meta'[o].open => meta'[o].worker \in {"idle", "busy"}
                      /\ meta'[o].worker \in {"none", "exited"} => meta'[o].queue = <<>>
                      /\ meta'[o].worker = "busy" => meta'[o].call = o /\ meta'[o].item \in Loads
    BY <1>2 DEF MetaInv
  <2>1. CASE o = s BY <1>1, <2>1 DEF LifeInv, MetaInv
  <2>2. CASE o # s BY <1>1, <2>2 DEF LifeInv, MetaInv
  <2> QED BY <2>1, <2>2
<1> QED BY <1>1, <1>3

LEMMA SendKeeps ==
    ASSUME LifeInv, UNCHANGED lifeVars, NEW l \in Loads, Send(l) PROVE LifeInv'
<1>1. /\ meta \in [Conns -> MetaRecs] /\ load \in [Loads -> LoadRecs]
      /\ load[l].st = "sending" /\ UNCHANGED hstate
  BY DEF LifeInv, LifeTypeOK, Send
<1>2. PICK s \in Conns : s = load[l].on BY <1>1 DEF LifeInv, LoadInv
<1>3. ASSUME meta[s].open, meta' = [meta EXCEPT ![s].queue = Append(@, l)],
             load' = [load EXCEPT ![l].st = "waiting"]
      PROVE  LifeInv'
  <2>1. PICK q \in MetaRecs : q = meta[s] BY <1>1
  <2>2. PICK r2 : r2 = [q EXCEPT !.queue = Append(@, l)] OBVIOUS
  <2>3. q.queue \in Seq(Loads) /\ Append(q.queue, l) \in Seq(Loads) BY DEF MetaRecs
  <2>4. r2 \in MetaRecs BY <2>2, <2>3 DEF MetaRecs
  <2>5. /\ r2.sess = q.sess /\ r2.open = q.open /\ r2.worker = q.worker
        /\ r2.queue = Append(q.queue, l)
        /\ r2.item = q.item /\ r2.call = q.call /\ r2.cache = q.cache
    BY <2>2 DEF MetaRecs
  <2>6. meta' = [meta EXCEPT ![s] = r2] BY <1>1, <1>3, <2>1, <2>2
  <2>7. r2.worker \in {"idle", "busy"} BY <1>3, <2>1, <2>5 DEF LifeInv, MetaInv
  <2>8. /\ meta[s].sess = "open" <=> r2.worker \in {"idle", "busy"} \/ Retiring(s, {"drain"})
        /\ r2.worker = "busy" => r2.call = s /\ r2.item \in Loads
    BY <2>1, <2>5 DEF LifeInv, MetaInv
  <2>9. /\ meta' \in [Conns -> MetaRecs] /\ meta'[s] = r2 /\ MetaInv'
        /\ \A o \in Conns : o # s => meta'[o] = meta[o]
        /\ \A o \in Conns : meta'[o].sess = meta[o].sess
    BY <1>1, <2>1, <2>4, <2>5, <2>6, <2>7, <2>8, MetaMoves
  <2>10. PICK r \in LoadRecs : /\ load' = [load EXCEPT ![l] = r] /\ r.st = "waiting"
                               /\ r.on = load[l].on
    <3>1. "waiting" \in {"ready", "dropped", "delivered", "waiting"} OBVIOUS
    <3> QED BY <1>3, <3>1, LoadGoes
  <2>11. /\ load' \in [Loads -> LoadRecs] /\ load'[l] = r
         /\ \A x \in Loads : x # l => load'[x] = load[x]
    BY <1>1, <2>10
  <2>12. LoadInv'
    <3>1. ASSUME NEW x \in Loads, load'[x].st \in {"sending", "waiting"}
          PROVE  load'[x].on \in Conns
      BY <1>2, <2>10, <2>11, <3>1 DEF LifeInv, LoadInv
    <3>2. ASSUME NEW o \in Conns, NEW x \in Loads, load'[x].st = "waiting", load'[x].on = o
          PROVE  LoadQueued(x, o)' \/ (meta'[o].worker = "busy" /\ meta'[o].item = x)
      <4>1. CASE x = l
        <5>1. o = s BY <1>2, <2>10, <2>11, <3>2, <4>1
        <5>2. Len(r2.queue) = Len(q.queue) + 1 /\ r2.queue[Len(q.queue) + 1] = l
              /\ Len(q.queue) \in Nat
          BY <2>3, <2>5
        <5>3. LoadQueued(x, s)' BY <2>9, <4>1, <5>2 DEF LoadQueued
        <5> QED BY <5>1, <5>3
      <4>2. CASE x # l
        <5>1. load[x].st = "waiting" /\ load[x].on = o BY <2>11, <3>2, <4>2
        <5>2. LoadQueued(x, o) \/ (meta[o].worker = "busy" /\ meta[o].item = x) BY <5>1 DEF LifeInv, LoadInv
        <5>3. CASE o # s
          <6>1. LoadQueued(x, o) => LoadQueued(x, o)' BY <2>9, <5>3 DEF LoadQueued
          <6> QED BY <2>9, <5>2, <5>3, <6>1
        <5>4. CASE o = s
          <6>1. ASSUME NEW i \in 1..Len(q.queue), q.queue[i] = x
                PROVE  i \in 1..Len(r2.queue) /\ r2.queue[i] = x
            BY <2>3, <2>5, <6>1
          <6>2. LoadQueued(x, s) => LoadQueued(x, s)' BY <2>1, <2>9, <6>1 DEF LoadQueued
          <6> QED BY <2>1, <2>5, <2>9, <5>2, <5>4, <6>2
        <5> QED BY <5>3, <5>4
      <4> QED BY <4>1, <4>2
    <3>3. ASSUME NEW o \in Conns, NEW x \in meta'[o].cache
          PROVE  load'[x].on = o /\ load'[x].st \notin {"idle", "issued"}
      <4>1. x \in meta[o].cache /\ x \in Loads
        <5>1. meta'[o].cache = meta[o].cache BY <2>1, <2>5, <2>9
        <5> QED BY <1>1, <5>1 DEF MetaRecs
      <4>2. load[x].on = o /\ load[x].st \notin {"idle", "issued"} BY <4>1 DEF LifeInv, LoadInv
      <4> QED BY <2>10, <2>11, <4>1, <4>2
    <3> QED BY <3>1, <3>2, <3>3 DEF LoadInv
  <2> QED BY <1>1, <2>9, <2>11, <2>12, HelperFrame
<1>4. ASSUME load' = Answer(l, "replaced"), UNCHANGED meta
      PROVE  LifeInv'
  <2>1. "replaced" \in {"canceled", "replaced", "notconnected", "ok", "failed"} OBVIOUS
  <2>2. PICK r \in LoadRecs : /\ load' = [load EXCEPT ![l] = r] /\ r.st = "answered"
                              /\ r.on = load[l].on
    BY <1>4, <2>1, AnswerIs
  <2> QED BY <1>1, <1>4, <2>2, MetaStands, CallerMoves
<1> QED BY <1>2, <1>3, <1>4 DEF Send

\* The worker's reply reaches a caller that still waits, and no other.
LEMMA ReplyFacts ==
    ASSUME LifeInv, NEW l \in Loads,
           NEW a \in {"canceled", "replaced", "notconnected", "ok", "failed"},
           load' = Reply(l, a)
    PROVE  /\ load' \in [Loads -> LoadRecs] /\ load'[l].st # "waiting"
           /\ \A x \in Loads : /\ load'[x].on = load[x].on
                               /\ load'[x].st = load[x].st \/ load'[x].st = "answered"
<1>1. load \in [Loads -> LoadRecs] BY DEF LifeInv, LifeTypeOK
<1>2. CASE load[l].st = "waiting"
  <2>1. load' = Answer(l, a) BY <1>2 DEF Reply
  <2>2. PICK r \in LoadRecs : /\ load' = [load EXCEPT ![l] = r] /\ r.st = "answered"
                              /\ r.on = load[l].on
    BY <2>1, AnswerIs
  <2> QED BY <1>1, <2>2
<1>3. CASE load[l].st # "waiting" BY <1>1, <1>3 DEF Reply
<1> QED BY <1>2, <1>3

\* The worker of s steps: those who wait there stay in the queue or become its
\* item, and nobody else notices.
WorkerStep(s, r) ==
    /\ meta' = [meta EXCEPT ![s] = r]
    /\ r.sess = meta[s].sess /\ r.open = meta[s].open /\ r.cache = meta[s].cache
    /\ meta[s].sess = "open" <=> r.worker \in {"idle", "busy"} \/ Retiring(s, {"drain"})
    /\ r.open => r.worker \in {"idle", "busy"}
    /\ r.worker \in {"none", "exited"} => r.queue = <<>>
    /\ r.worker = "busy" => r.call = s /\ r.item \in Loads
    /\ load' \in [Loads -> LoadRecs]
    /\ \A x \in Loads : /\ load'[x].on = load[x].on
                        /\ load'[x].st = load[x].st \/ load'[x].st = "answered"
    /\ \A x \in Loads : load'[x].st = "waiting" /\ load[x].on = s =>
         \/ \E i \in 1..Len(r.queue) : r.queue[i] = x
         \/ r.worker = "busy" /\ r.item = x

LEMMA WorkerMoves ==
    ASSUME LifeInv, UNCHANGED lifeVars, UNCHANGED hstate,
           NEW s \in Conns, NEW r \in MetaRecs, WorkerStep(s, r)
    PROVE  LifeInv'
<1>0. /\ load' \in [Loads -> LoadRecs]
      /\ \A x \in Loads : /\ load'[x].on = load[x].on
                          /\ load'[x].st = load[x].st \/ load'[x].st = "answered"
      /\ \A x \in Loads : load'[x].st = "waiting" /\ load[x].on = s =>
           \/ \E i \in 1..Len(r.queue) : r.queue[i] = x
           \/ r.worker = "busy" /\ r.item = x
      /\ r.cache = meta[s].cache
  BY DEF WorkerStep
<1>1. /\ meta' \in [Conns -> MetaRecs] /\ meta'[s] = r /\ MetaInv'
      /\ \A o \in Conns : o # s => meta'[o] = meta[o]
      /\ \A o \in Conns : meta'[o].sess = meta[o].sess
  BY MetaMoves DEF WorkerStep
<1>2. LoadInv'
  <2>1. ASSUME NEW x \in Loads, load'[x].st \in {"sending", "waiting"}
        PROVE  load'[x].on \in Conns
    BY <1>0, <2>1 DEF LifeInv, LoadInv
  <2>2. ASSUME NEW o \in Conns, NEW x \in Loads, load'[x].st = "waiting", load'[x].on = o
        PROVE  LoadQueued(x, o)' \/ (meta'[o].worker = "busy" /\ meta'[o].item = x)
    <3>1. load[x].st = "waiting" /\ load[x].on = o BY <1>0, <2>2
    <3>2. CASE o = s BY <1>0, <1>1, <2>2, <3>1, <3>2 DEF LoadQueued
    <3>3. CASE o # s
      <4>1. LoadQueued(x, o) \/ (meta[o].worker = "busy" /\ meta[o].item = x) BY <3>1 DEF LifeInv, LoadInv
      <4>2. LoadQueued(x, o) => LoadQueued(x, o)' BY <1>1, <3>3 DEF LoadQueued
      <4> QED BY <1>1, <3>3, <4>1, <4>2
    <3> QED BY <3>2, <3>3
  <2>3. ASSUME NEW o \in Conns, NEW x \in meta'[o].cache
        PROVE  load'[x].on = o /\ load'[x].st \notin {"idle", "issued"}
    <3>1. x \in meta[o].cache /\ x \in Loads
      <4>1. meta'[o].cache = meta[o].cache BY <1>0, <1>1
      <4>2. meta[o].cache \subseteq Loads BY DEF LifeInv, LifeTypeOK, MetaRecs
      <4> QED BY <4>1, <4>2
    <3>2. load[x].on = o /\ load[x].st \notin {"idle", "issued"} BY <3>1 DEF LifeInv, LoadInv
    <3>3. /\ load'[x].on = load[x].on
          /\ load'[x].st = load[x].st \/ load'[x].st = "answered"
      <4>1. \A y \in Loads : /\ load'[y].on = load[y].on
                             /\ load'[y].st = load[y].st \/ load'[y].st = "answered"
        BY DEF WorkerStep
      <4> QED BY <3>1, <4>1, Zenon
    <3> QED BY <3>2, <3>3
  <2> QED BY <2>1, <2>2, <2>3 DEF LoadInv
<1> QED BY <1>0, <1>1, <1>2, HelperFrame

LEMMA TailKeeps ==
    ASSUME NEW q \in Seq(Loads), q # <<>>
    PROVE  /\ Head(q) \in Loads /\ Tail(q) \in Seq(Loads)
           /\ \A x : (\E i \in 1..Len(q) : q[i] = x) =>
                       x = Head(q) \/ \E i \in 1..Len(Tail(q)) : Tail(q)[i] = x
<1>1. Head(q) \in Loads /\ Tail(q) \in Seq(Loads) OBVIOUS
<1>2. ASSUME NEW x, NEW i \in 1..Len(q), q[i] = x, x # Head(q)
      PROVE  \E k \in 1..Len(Tail(q)) : Tail(q)[k] = x
  <2>1. i # 1 BY <1>2
  <2>2. i - 1 \in 1..Len(Tail(q)) /\ Tail(q)[i - 1] = q[i] BY <1>2, <2>1
  <2> QED BY <1>2, <2>2
<1> QED BY <1>1, <1>2

\* An idle worker is behind the current session, or one that is being drained.
LEMMA IdleWorker ==
    ASSUME LifeInv, NEW s \in Conns, meta[s].worker \in {"idle", "busy"}
    PROVE  /\ meta[s].sess = "open"
           /\ hstate = s \/ (hstate = NoConn /\ ~meta[s].open /\ Retiring(s, {"drain"}))
<1>1. meta[s].sess = "open" /\ (hstate = s \/ Retiring(s, {"drain"})) BY DEF LifeInv, MetaInv
<1>2. Retiring(s, {"drain"}) => hstate = NoConn BY DEF LifeInv, HolderInv, Retiring
<1>3. hstate = NoConn => ~meta[s].open BY JobNames DEF LifeInv, MetaInv
<1> QED BY <1>1, <1>2, <1>3

LEMMA WorkerTakeKeeps ==
    ASSUME LifeInv, UNCHANGED lifeVars, NEW s \in Conns, WorkerTake(s) PROVE LifeInv'
<1>1. /\ meta \in [Conns -> MetaRecs] /\ load \in [Loads -> LoadRecs] /\ UNCHANGED hstate
      /\ meta[s].worker = "idle" /\ meta[s].queue # <<>> /\ hstate \in Conns \cup {NoConn}
  BY DEF LifeInv, LifeTypeOK, WorkerTake
<1>2. PICK q \in MetaRecs : q = meta[s] BY <1>1
<1>3. q.queue \in Seq(Loads) /\ q.queue # <<>> BY <1>1, <1>2 DEF MetaRecs
<1>4. /\ Head(q.queue) \in Loads /\ Tail(q.queue) \in Seq(Loads)
      /\ \A x : (\E i \in 1..Len(q.queue) : q.queue[i] = x) =>
                  x = Head(q.queue) \/ \E i \in 1..Len(Tail(q.queue)) : Tail(q.queue)[i] = x
  BY <1>3, TailKeeps
<1>5. PICK l \in Loads : l = Head(meta[s].queue) /\ l = Head(q.queue) BY <1>2, <1>4
<1>6. PICK c : c = SessionFor(l) OBVIOUS
<1>7. /\ meta[s].sess = "open"
      /\ hstate = s \/ (hstate = NoConn /\ ~meta[s].open /\ Retiring(s, {"drain"}))
  BY <1>1, IdleWorker
<1>8. ASSUME NEW x \in Loads, load[x].st = "waiting", load[x].on = s
      PROVE  x = l \/ \E i \in 1..Len(Tail(q.queue)) : Tail(q.queue)[i] = x
  <2>1. LoadQueued(x, s) BY <1>1, <1>8 DEF LifeInv, LoadInv
  <2>2. \E i \in 1..Len(q.queue) : q.queue[i] = x BY <1>2, <2>1 DEF LoadQueued
  <2> QED BY <1>4, <1>5, <2>2
<1>9. ASSUME meta' = [meta EXCEPT ![s].queue = Tail(@)],
             NEW a \in {"canceled", "replaced"}, load' = Reply(l, a)
      PROVE  LifeInv'
  <2>1. PICK r : r = [q EXCEPT !.queue = Tail(@)] OBVIOUS
  <2>2. r \in MetaRecs BY <1>4, <2>1 DEF MetaRecs
  <2>3. /\ r.sess = q.sess /\ r.open = q.open /\ r.worker = q.worker /\ r.queue = Tail(q.queue)
        /\ r.item = q.item /\ r.call = q.call /\ r.cache = q.cache
    BY <2>1 DEF MetaRecs
  <2>4. meta' = [meta EXCEPT ![s] = r] BY <1>1, <1>2, <1>9, <2>1
  <2>5. r.worker = "idle" BY <1>1, <1>2, <2>3
  <2>6. a \in {"canceled", "replaced", "notconnected", "ok", "failed"} OBVIOUS
  <2>7. /\ load' \in [Loads -> LoadRecs] /\ load'[l].st # "waiting"
        /\ \A x \in Loads : /\ load'[x].on = load[x].on
                            /\ load'[x].st = load[x].st \/ load'[x].st = "answered"
    BY <1>9, <2>6, ReplyFacts
  <2>8. \A x \in Loads : load'[x].st = "waiting" /\ load[x].on = s =>
          \E i \in 1..Len(r.queue) : r.queue[i] = x
    <3> SUFFICES ASSUME NEW x \in Loads, load'[x].st = "waiting", load[x].on = s
                 PROVE  \E i \in 1..Len(r.queue) : r.queue[i] = x
      OBVIOUS
    <3>1. load[x].st = "waiting" /\ x # l BY <2>7
    <3> QED BY <1>8, <2>3, <3>1
  <2>9. r.sess = meta[s].sess /\ r.open = meta[s].open /\ r.cache = meta[s].cache BY <1>2, <2>3
  <2>10. /\ meta[s].sess = "open" <=> r.worker \in {"idle", "busy"} \/ Retiring(s, {"drain"})
         /\ r.worker \in {"idle", "busy"} /\ r.worker # "busy"
         /\ r.worker \notin {"none", "exited"}
    BY <1>7, <2>5
  <2>11. WorkerStep(s, r) BY <2>4, <2>7, <2>8, <2>9, <2>10 DEF WorkerStep
  <2> QED BY <1>1, <2>2, <2>11, WorkerMoves
<1>10. ASSUME c # NoConn, UNCHANGED load,
              meta' = [meta EXCEPT ![s].queue = Tail(@), ![s].worker = "busy",
                                   ![s].item = l, ![s].call = c]
       PROVE  LifeInv'
  <2>1. hstate = s /\ c = s BY <1>6, <1>7, <1>10 DEF SessionFor
  <2>2. PICK r : r = [q EXCEPT !.queue = Tail(@), !.worker = "busy", !.item = l, !.call = s] OBVIOUS
  <2>3. r \in MetaRecs BY <1>4, <2>2 DEF MetaRecs
  <2>4. /\ r.sess = q.sess /\ r.open = q.open /\ r.worker = "busy" /\ r.queue = Tail(q.queue)
        /\ r.item = l /\ r.call = s /\ r.cache = q.cache
    BY <2>2 DEF MetaRecs
  <2>5. meta' = [meta EXCEPT ![s] = r] BY <1>1, <1>2, <1>10, <2>1, <2>2
  <2>6. r.sess = meta[s].sess /\ r.open = meta[s].open /\ r.cache = meta[s].cache BY <1>2, <2>4
  <2>7. /\ meta[s].sess = "open" <=> r.worker \in {"idle", "busy"} \/ Retiring(s, {"drain"})
        /\ r.worker \in {"idle", "busy"} /\ r.worker \notin {"none", "exited"}
        /\ r.call = s /\ r.item \in Loads
    BY <1>7, <2>4
  <2>8. \A x \in Loads : load'[x].st = "waiting" /\ load[x].on = s =>
          \/ \E i \in 1..Len(r.queue) : r.queue[i] = x
          \/ r.worker = "busy" /\ r.item = x
    BY <1>8, <1>10, <2>4
  <2>9. /\ load' \in [Loads -> LoadRecs]
        /\ \A x \in Loads : /\ load'[x].on = load[x].on
                            /\ load'[x].st = load[x].st \/ load'[x].st = "answered"
    BY <1>1, <1>10
  <2>10. WorkerStep(s, r) BY <2>5, <2>6, <2>7, <2>8, <2>9 DEF WorkerStep
  <2> QED BY <1>1, <2>3, <2>10, WorkerMoves
<1>11. CASE load[l].ctx \/ c = NoConn
  <2>1. /\ meta' = [meta EXCEPT ![s].queue = Tail(@)]
        /\ load' = Reply(l, IF load[l].ctx THEN "canceled" ELSE "replaced")
    BY <1>5, <1>6, <1>11 DEF WorkerTake
  <2>2. PICK a \in {"canceled", "replaced"} : a = IF load[l].ctx THEN "canceled" ELSE "replaced" OBVIOUS
  <2> QED BY <1>9, <2>1, <2>2
<1>12. CASE ~(load[l].ctx \/ c = NoConn)
  <2>1. /\ meta' = [meta EXCEPT ![s].queue = Tail(@), ![s].worker = "busy",
                                ![s].item = l, ![s].call = c]
        /\ UNCHANGED load
    BY <1>5, <1>6, <1>12 DEF WorkerTake
  <2> QED BY <1>10, <1>12, <2>1
<1> QED BY <1>11, <1>12

LEMMA WorkerReturnKeeps ==
    ASSUME LifeInv, UNCHANGED lifeVars, NEW s \in Conns, WorkerReturn(s) PROVE LifeInv'
<1>1. /\ meta \in [Conns -> MetaRecs] /\ UNCHANGED hstate /\ meta[s].worker = "busy"
  BY DEF LifeInv, LifeTypeOK, WorkerReturn
<1>2. PICK q \in MetaRecs : q = meta[s] BY <1>1
<1>3. PICK l \in Loads : l = meta[s].item BY <1>1 DEF LifeInv, MetaInv
<1>4. PICK a \in {"ok", "failed"} : load' = Reply(l, a) BY <1>3 DEF WorkerReturn
<1>5. a \in {"canceled", "replaced", "notconnected", "ok", "failed"} OBVIOUS
<1>6. /\ load' \in [Loads -> LoadRecs] /\ load'[l].st # "waiting"
      /\ \A x \in Loads : /\ load'[x].on = load[x].on
                          /\ load'[x].st = load[x].st \/ load'[x].st = "answered"
  BY <1>4, <1>5, ReplyFacts
<1>7. meta' = [meta EXCEPT ![s].worker = "idle", ![s].item = 0, ![s].call = NoConn] BY DEF WorkerReturn
<1>8. PICK r : r = [q EXCEPT !.worker = "idle", !.item = 0, !.call = NoConn] OBVIOUS
<1>9. r \in MetaRecs BY <1>8 DEF MetaRecs
<1>10. /\ r.sess = q.sess /\ r.open = q.open /\ r.worker = "idle" /\ r.queue = q.queue
       /\ r.cache = q.cache
  BY <1>8 DEF MetaRecs
<1>11. meta' = [meta EXCEPT ![s] = r] BY <1>1, <1>2, <1>7, <1>8
<1>12. r.sess = meta[s].sess /\ r.open = meta[s].open /\ r.cache = meta[s].cache BY <1>2, <1>10
<1>13. meta[s].sess = "open" BY <1>1, IdleWorker
<1>14. /\ meta[s].sess = "open" <=> r.worker \in {"idle", "busy"} \/ Retiring(s, {"drain"})
       /\ r.worker \in {"idle", "busy"} /\ r.worker # "busy"
       /\ r.worker \notin {"none", "exited"}
  BY <1>10, <1>13
<1>15. \A x \in Loads : load'[x].st = "waiting" /\ load[x].on = s =>
         \E i \in 1..Len(r.queue) : r.queue[i] = x
  <2> SUFFICES ASSUME NEW x \in Loads, load'[x].st = "waiting", load[x].on = s
               PROVE  \E i \in 1..Len(r.queue) : r.queue[i] = x
    OBVIOUS
  <2>1. load[x].st = "waiting" /\ x # l BY <1>6
  <2>2. LoadQueued(x, s) BY <1>3, <2>1 DEF LifeInv, LoadInv
  <2> QED BY <1>2, <1>10, <2>2 DEF LoadQueued
<1>16. WorkerStep(s, r) BY <1>6, <1>11, <1>12, <1>14, <1>15 DEF WorkerStep
<1> QED BY <1>1, <1>9, <1>16, WorkerMoves

LEMMA WorkerExitKeeps ==
    ASSUME LifeInv, UNCHANGED lifeVars, NEW s \in Conns, WorkerExit(s) PROVE LifeInv'
<1>1. /\ meta \in [Conns -> MetaRecs] /\ load \in [Loads -> LoadRecs] /\ UNCHANGED <<hstate, load>>
      /\ meta[s].worker = "idle" /\ ~meta[s].open /\ meta[s].queue = <<>>
  BY DEF LifeInv, LifeTypeOK, WorkerExit
<1>2. PICK q \in MetaRecs : q = meta[s] BY <1>1
<1>3. PICK r : r = [q EXCEPT !.worker = "exited"] OBVIOUS
<1>4. r \in MetaRecs BY <1>3 DEF MetaRecs
<1>5. /\ r.sess = q.sess /\ r.open = q.open /\ r.worker = "exited" /\ r.queue = q.queue
      /\ r.cache = q.cache
  BY <1>3 DEF MetaRecs
<1>6. meta' = [meta EXCEPT ![s] = r] BY <1>1, <1>2, <1>3 DEF WorkerExit
<1>7. /\ r.sess = meta[s].sess /\ r.open = meta[s].open /\ r.cache = meta[s].cache
      /\ ~r.open /\ r.queue = <<>> /\ r.worker \notin {"idle", "busy"}
  BY <1>1, <1>2, <1>5
<1>8. meta[s].sess = "open" /\ hstate # s
  <2>1. meta[s].open <=> hstate = s BY DEF LifeInv, MetaInv
  <2> QED BY <1>1, <2>1, IdleWorker
<1>9. Retiring(s, {"drain"}) BY <1>1, <1>8, IdleWorker
<1>10. \A x \in Loads : load'[x].st = "waiting" => load[x].on # s
  <2> SUFFICES ASSUME NEW x \in Loads, load[x].st = "waiting", load[x].on = s
               PROVE  FALSE
    BY <1>1
  <2>1. LoadQueued(x, s) BY <1>1 DEF LifeInv, LoadInv
  <2> QED BY <1>1, <2>1 DEF LoadQueued
<1>11. /\ load' \in [Loads -> LoadRecs]
       /\ \A x \in Loads : /\ load'[x].on = load[x].on
                           /\ load'[x].st = load[x].st \/ load'[x].st = "answered"
  BY <1>1
<1>12. /\ meta[s].sess = "open" <=> r.worker \in {"idle", "busy"} \/ Retiring(s, {"drain"})
       /\ r.worker # "busy"
  BY <1>5, <1>8, <1>9
<1>13. WorkerStep(s, r) BY <1>6, <1>7, <1>10, <1>11, <1>12 DEF WorkerStep
<1> QED BY <1>1, <1>4, <1>13, WorkerMoves

LEMMA HelperStepKeeps ==
    ASSUME LifeInv, HelperStep, UNCHANGED lifeVars PROVE LifeInv'
<1>1. ASSUME NEW l \in Loads, Issue(l) \/ Submit(l) \/ Send(l) \/ Abandon(l)
                              \/ StoreDetail(l) \/ Deliver(l)
      PROVE  LifeInv'
  BY <1>1, IssueKeeps, SubmitKeeps, SendKeeps, AbandonKeeps, StoreDetailKeeps, DeliverKeeps
<1>2. ASSUME NEW s \in Conns, WorkerTake(s) \/ WorkerReturn(s) \/ WorkerExit(s)
      PROVE  LifeInv'
  BY <1>2, WorkerTakeKeeps, WorkerReturnKeeps, WorkerExitKeeps
<1> QED BY <1>1, <1>2 DEF HelperStep

-----------------------------------------
(* Every step, and the theorems. *)

LEMMA JobStepKeeps == ASSUME LifeInv, NEW j \in AllJobs, JobStep(j) PROVE LifeInv'
<1>1. CASE LockIo(j) BY <1>1, LockIoKeeps
<1>2. CASE UnlockIo(j) BY <1>2, UnlockIoKeeps
<1>3. CASE RetireTake(j) BY <1>3, RetireTakeKeeps
<1>4. CASE RetireSession(j) BY <1>4, RetireSessionKeeps
<1>5. CASE RetireUnbind(j) BY <1>5, RetireUnbindKeeps
<1>6. CASE RetireDrain(j) BY <1>6, RetireDrainKeeps
<1> QED BY <1>1, <1>2, <1>3, <1>4, <1>5, <1>6 DEF JobStep

LEMMA ConnectStepKeeps == ASSUME LifeInv, NEW j \in Jobs, ConnectStep(j) PROVE LifeInv'
<1>1. CASE ConnectAgain(j) BY <1>1, ConnectAgainKeeps
<1>2. CASE Teardown(j) BY <1>2, TeardownKeeps
<1>3. CASE Dial(j) BY <1>3, DialKeeps
<1>4. CASE CheckStale(j) BY <1>4, CheckStaleKeeps
<1>5. CASE Wire(j) BY <1>5, WireKeeps
<1>6. CASE Schedule(j) BY <1>6, ScheduleKeeps
<1> QED BY <1>1, <1>2, <1>3, <1>4, <1>5, <1>6 DEF ConnectStep

LEMMA LifeStepKeeps == ASSUME LifeInv, LifeStep PROVE LifeInv'
<1>1. ASSUME NEW p \in Profiles, StartAttempt(p) PROVE LifeInv' BY <1>1, StartAttemptKeeps
<1>2. CASE Cancel BY <1>2, CancelKeeps
<1>3. CASE Reconnect BY <1>3, ReconnectKeeps
<1>4. CASE DeleteActive BY <1>4, DeleteKeeps
<1>5. CASE StartCommit \/ (\E o \in Conns : CommitEnds(o)) BY <1>5, CommitKeeps
<1>6. ASSUME NEW c \in uiq, Publish(c) PROVE LifeInv' BY <1>6, PublishKeeps
<1>7. ASSUME NEW c \in uiq, PublishError(c) PROVE LifeInv' BY <1>7, PublishErrorKeeps
<1>8. ASSUME NEW j \in Jobs \cup {Closer}, JobStep(j) PROVE LifeInv' BY <1>8, JobStepKeeps DEF AllJobs
<1>9. ASSUME NEW j \in Jobs, ConnectStep(j) PROVE LifeInv' BY <1>9, ConnectStepKeeps
<1>10. CASE CloseBegin BY <1>10, CloseBeginKeeps
<1>11. CASE CloseSession BY <1>11, CloseSessionKeeps
<1>12. CASE CloseUnbind BY <1>12, CloseUnbindKeeps
<1> QED BY <1>1, <1>2, <1>3, <1>4, <1>5, <1>6, <1>7, <1>8, <1>9, <1>10, <1>11, <1>12 DEF LifeStep

LEMMA LifeStutters == ASSUME LifeInv, UNCHANGED connVars PROVE LifeInv'
<1>1. UNCHANGED lifeVars /\ UNCHANGED hstate /\ meta' = meta /\ load' = load BY DEF connVars, lifeVars
<1>2. meta' \in [Conns -> MetaRecs] /\ load' \in [Loads -> LoadRecs] BY <1>1 DEF LifeInv, LifeTypeOK
<1>3. MetaInv' BY <1>1, DrainSame DEF LifeInv, MetaInv
<1>4. LoadInv' BY <1>1 DEF LifeInv, LoadInv, LoadQueued
<1> QED BY <1>1, <1>2, <1>3, <1>4, HelperFrame

LEMMA LifeStarts == ASSUME ConnInit PROVE LifeInv
<1>1. /\ hstate = NoConn /\ meta = [s \in Conns |-> Unborn] /\ load = [l \in Loads |-> IdleLoad]
      /\ gen = 0 /\ closed = FALSE /\ ioMu = Free /\ owner = None /\ own = [o \in Conns |-> NoOwner]
      /\ bound = None /\ active = None /\ shown = NoProfile /\ job = [j \in AllJobs |-> NoJob]
      /\ uiq = {}
  BY DEF ConnInit, HelperInit, AllJobs
<1>2. Unborn \in MetaRecs
  <2>1. <<>> \in Seq(Loads) OBVIOUS
  <2> QED BY <2>1 DEF Unborn, MetaRecs
<1>3. IdleLoad \in LoadRecs BY DEF IdleLoad, LoadRecs
<1>4. NoOwner \in OwnRecs BY DEF NoOwner, OwnRecs
<1>5. NoJob \in JobRecs BY DEF NoJob, JobRecs
<1>6. LifeTypeOK
  <2>1. meta \in [Conns -> MetaRecs] /\ load \in [Loads -> LoadRecs] BY <1>1, <1>2, <1>3
  <2>2. own \in [Conns -> OwnRecs] /\ job \in [AllJobs -> JobRecs] BY <1>1, <1>4, <1>5
  <2>3. /\ hstate \in Conns \cup {NoConn} /\ owner \in Conns \cup {None}
        /\ bound \in Conns \cup {None} /\ active \in Conns \cup {None}
        /\ shown \in Profiles \cup {NoProfile} /\ ioMu \in AllJobs \cup {Free}
    BY <1>1, JobNames
  <2>4. gen \in Int /\ uiq \in SUBSET ClosureRecs BY <1>1
  <2>5. \A c \in uiq : c.kind = "publish" => c.o \in Conns BY <1>1
  <2>6. closed \in BOOLEAN BY <1>1, Zenon
  <2> QED BY <2>1, <2>2, <2>3, <2>4, <2>5, <2>6 DEF LifeTypeOK
<1>7. /\ \A s \in Conns : meta[s] = Unborn
      /\ \A l \in Loads : load[l] = IdleLoad
      /\ \A o \in Conns : own[o] = NoOwner
      /\ \A j \in AllJobs : job[j] = NoJob
  BY <1>1
<1>8. /\ NoJob.pc = "none" /\ NoJob.kind = "none" /\ NoJob.want = None
      /\ NoOwner.sess = "none" /\ NoOwner.commit = FALSE /\ IdleLoad.st = "idle"
      /\ Unborn.sess = "none" /\ Unborn.open = FALSE /\ Unborn.worker = "none"
      /\ Unborn.queue = <<>> /\ Unborn.cache = {}
  BY DEF NoJob, NoOwner, IdleLoad, Unborn
<1>9. \A o, pcs : ~Retiring(o, pcs) BY <1>1, JobNames DEF Retiring
<1>10. IoMutexInv
  <2>1. "none" \notin MutexPcs /\ "none" \notin RetirePcs BY DEF MutexPcs, RetirePcs
  <2> QED BY <1>1, <1>7, <1>8, <2>1, JobNames DEF IoMutexInv
<1>11. HolderInv BY <1>1, <1>7, <1>8, JobNames DEF HolderInv
<1>12. MetaInv BY <1>1, <1>7, <1>8, <1>9, JobNames DEF MetaInv
<1>13. OwnInv BY <1>7, <1>8 DEF OwnInv
<1>14. BoundInv BY <1>1 DEF BoundInv
<1>15. ClosedInv BY <1>7, <1>8, JobNames DEF ClosedInv
<1>16. LoadInv BY <1>7, <1>8 DEF LoadInv
<1> QED BY <1>6, <1>10, <1>11, <1>12, <1>13, <1>14, <1>15, <1>16 DEF LifeInv

\* The invariant of every reachable state: one job is past ioMu, the helper's
\* session is the owner's or in the hand of the job that retires it, and the
\* sessions, the binding and the queued loads follow (connectionLife,
\* retireConnectionLocked, ConnectHelper).
THEOREM LifeInvariant == ConnSpec => []LifeInv
<1>1. LifeInv /\ [ConnNext]_connVars => LifeInv' BY LifeStepKeeps, HelperStepKeeps, LifeStutters DEF ConnNext
<1> QED BY <1>1, LifeStarts, PTL DEF ConnSpec

LEMMA InvImpliesOwned == ASSUME LifeInv PROVE ConnectionsOwned
<1>1. ASSUME NEW o \in Conns, own[o].sess = "open" \/ meta[o].sess = "open"
      PROVE  InHand(o)
  <2>1. owner = o \/ Retiring(o, {"commits", "unbind", "drain"})
    <3>1. CASE own[o].sess = "open" BY <3>1 DEF LifeInv, OwnInv, Retiring
    <3>2. CASE meta[o].sess = "open"
      <4>1. hstate = o \/ Retiring(o, {"drain"}) BY <3>2 DEF LifeInv, MetaInv
      <4>2. CASE hstate = o
        <5>1. owner = o \/ Retiring(o, {"commits", "unbind"}) BY <4>2, JobNames DEF LifeInv, HolderInv
        <5> QED BY <5>1 DEF Retiring
      <4> QED BY <4>1, <4>2 DEF Retiring
    <3> QED BY <1>1, <3>1, <3>2
  <2> QED BY <2>1 DEF InHand, Retiring, AllJobs
<1>2. ASSUME job[Closer].pc = "end", NEW o \in Conns
      PROVE  own[o].sess # "open" /\ meta[o].sess # "open"
  <2>1. /\ owner = None /\ hstate = NoConn /\ ioMu # Closer
        /\ \A j \in AllJobs : ~Dialling(j) /\ job[j].pc # "drain"
    <3>1. job[Closer].pc \notin MutexPcs BY <1>2 DEF MutexPcs, RetirePcs
    <3> QED BY <1>2, <3>1, JobNames DEF LifeInv, ClosedInv, IoMutexInv
  <2>2. ~Retiring(o, {"drain"}) BY <2>1 DEF Retiring
  <2>3. meta[o].sess # "open" BY <2>1, <2>2, JobNames DEF LifeInv, MetaInv
  <2>4. ASSUME Retiring(o, {"commits"}) PROVE FALSE
    <3>1. PICK j \in AllJobs : job[j].victim = o /\ job[j].pc = "commits" BY <2>4 DEF Retiring
    <3>2. job[j].victim = hstate BY <3>1 DEF LifeInv, HolderInv
    <3> QED BY <2>1, <3>1, <3>2, JobNames
  <2> QED BY <2>1, <2>3, <2>4, JobNames DEF LifeInv, OwnInv
<1>3. OwnedOrDisposed BY <1>1, <1>2 DEF OwnedOrDisposed
<1>4. ASSUME bound # None
      PROVE  \/ own[bound].published /\ owner = bound
             \/ \E j \in Jobs \cup {Closer} :
                  ioMu = j /\ job[j].victim = bound /\ job[j].pc \in {"commits", "unbind"}
  BY <1>4 DEF LifeInv, BoundInv, Retiring, AllJobs
<1>5. ASSUME NEW o \in Conns, own[o].commit
      PROVE  meta[o].sess = "open"
  <2>1. owner = o \/ Retiring(o, {"commits"}) BY <1>5 DEF LifeInv, OwnInv
  <2>2. hstate = o BY <2>1, JobNames DEF LifeInv, HolderInv, Retiring
  <2> QED BY <2>2 DEF LifeInv, MetaInv
<1>6. BoundWhileOwned BY <1>4, <1>5 DEF BoundWhileOwned
<1>7. ASSUME NEW s \in Conns, meta[s].worker = "busy"
      PROVE  meta[s].call = s /\ meta[s].sess = "open"
  BY <1>7, IdleWorker DEF LifeInv, MetaInv
<1>8. ASSUME NEW l \in Loads, load[l].st = "waiting"
      PROVE  meta[load[l].on].worker # "exited"
  <2>1. PICK s \in Conns : s = load[l].on BY <1>8 DEF LifeInv, LoadInv
  <2>2. LoadQueued(l, s) \/ meta[s].worker = "busy" BY <1>8, <2>1 DEF LifeInv, LoadInv
  <2>3. LoadQueued(l, s) => meta[s].queue # <<>> BY DEF LoadQueued
  <2>4. meta[s].worker = "exited" => meta[s].queue = <<>> BY DEF LifeInv, MetaInv
  <2> QED BY <2>1, <2>2, <2>3, <2>4
<1>9. \A s \in Conns : \A l \in meta[s].cache : load[l].on = s BY DEF LifeInv, LoadInv
<1>10. LoadsServed BY <1>7, <1>8, <1>9 DEF LoadsServed
<1> QED BY <1>3, <1>6, <1>10 DEF ConnectionsOwned

\* No connection leaks and none is used after it was closed: what was opened
\* belongs to the owner or to a job that disposes of it, nothing is open once
\* Close has returned, the runner is bound to an owned session, a commit keeps
\* its connection, and a load is served by the session it was queued on
\* (connectWithGen, retireConnectionLocked, Gui.Close, ConnectHelper).
THEOREM ConnectionsOwnedTheorem == ConnSpec => []ConnectionsOwned
<1>1. LifeInv => ConnectionsOwned BY InvImpliesOwned
<1> QED BY <1>1, LifeInvariant, PTL

-----------------------------------------
(* Transactions. *)

TxStatus == {"none", "active", "aborted", "committed", "rolledback"}
TxServer == [st : {"I", "T", "E", "X", "P"}, sps : Seq(TxNames)]
TxRecords == [status : TxStatus, sps : SUBSET TxNames, dead : BOOLEAN]
TxCallOps == {"commit", "rollback", "savepoint", "release", "rollbackto"}
TxCallRecords ==
    [op : TxCallOps \cup {"none", "begin", "wrap"}, h : TxHandles \cup {NoTx},
     pc : {"idle", "called", "sent", "publish", "begun", "wrapped", "status", "terminate",
           "loading", "release", "closed"}]

TxTypeOK ==
    /\ txSrv \in TxServer
    /\ txOwner \in TxHandles \cup {NoTx}
    /\ txActive \in TxHandles \cup {NoTx}
    /\ txHandle \in [TxHandles -> TxRecords]
    /\ txCall \in [Callers -> TxCallRecords]
    /\ txStmt \in [pc : {"idle", "sent", "refused", "observe"}, seen : TxHandles \cup {NoTx}]
    /\ txChoice \in TxHandles \cup {NoTx}

\* What each position of a caller goes with.
ShapeInv ==
    \A p \in Callers :
        /\ txCall[p].pc = "called" => txCall[p].op \in TxCallOps
        /\ txCall[p].pc = "sent" => txCall[p].op \in TxCallOps \cup {"begin"}
        /\ txCall[p].pc = "publish" <=> txCall[p].op = "begin" /\ txCall[p].pc # "sent"
        /\ txCall[p].pc \in {"begun", "wrapped"} <=> txCall[p].op = "wrap"
        /\ txCall[p].pc \in {"status", "terminate"} => Ends(p)
        /\ txCall[p].pc \in {"idle", "loading", "release", "closed"} <=> txCall[p].op = "none"
        /\ txCall[p].op # "none" => txCall[p].h \in TxHandles
        /\ p # "closer" => txCall[p].pc \notin {"loading", "release", "closed"}

\* A handle that ended its transaction is closed for pgx too, one that was never
\* handed out is not, and what anyone refers to was handed out.
Known(h) == h \in TxHandles /\ txHandle[h].status # "none"
HandlesInv ==
    /\ \A h \in TxHandles :
        /\ txHandle[h].status = "none" => ~txHandle[h].dead
        /\ txHandle[h].status \in {"committed", "rolledback"} => txHandle[h].dead
    /\ txActive # NoTx => Known(txActive)
    /\ txChoice # NoTx => Known(txChoice)
    /\ txStmt.pc = "observe" => Known(txStmt.seen)
    /\ \A p \in Callers : txCall[p].op \in TxCallOps \cup {"wrap"} => Known(txCall[p].h)

\* One call or statement is on the wire; no other handle than a call's own can send
\* then, and after its answer the handle is closed.
WireInv ==
    /\ \A p, q \in Callers : At(p, "sent") /\ At(q, "sent") => p = q
    /\ txStmt.pc = "sent" => \A p \in Callers : ~At(p, "sent")
    /\ \A p \in Callers :
        /\ At(p, "sent") /\ txCall[p].op # "begin" =>
             /\ \A q \in Callers : txCall[q].op # "begin"
             /\ \A g \in TxHandles : LiveTx(g) => g = txCall[p].h
        /\ txCall[p].pc \in {"status", "terminate"} => txHandle[txCall[p].h].dead

\* While a Begin is under way nobody else begins and no statement runs; before its
\* answer no handle can send, after it only the new one, which nobody refers to.
BeginInv ==
    \A p \in Callers : txCall[p].op = "begin" =>
        /\ p # "closer" /\ txStmt.pc = "idle"
        /\ \A q \in Callers : txCall[q].op = "begin" => q = p
        /\ txActive # NoTx => txHandle[txActive].status # "active"
        /\ At(p, "sent") => txHandle[txCall[p].h].status = "none" /\ \A g \in TxHandles : ~LiveTx(g)
        /\ At(p, "publish") =>
             /\ Known(txCall[p].h) /\ txSrv.st # "I"
             /\ txActive # txCall[p].h /\ txChoice # txCall[p].h
             /\ \A g \in TxHandles : LiveTx(g) => g = txCall[p].h
             /\ \A q \in Callers : q # p /\ txCall[q].op # "none" => txCall[q].h # txCall[p].h

\* Handles that can send, and the transaction on the server that one opened.
LiveInv ==
    /\ \A h \in TxHandles : LiveTx(h) =>
         txActive = h \/ \E p \in Callers : At(p, "publish") /\ txCall[p].h = h
    /\ \A g, h \in TxHandles : LiveTx(g) /\ LiveTx(h) => g = h
    /\ txOwner # NoTx => LiveTx(txOwner) /\ txSrv.st \in {"T", "E"}

\* A handle that CurrentTransaction would return and that can still send.
Usable(h) == txHandle[h].status = "active" /\ ~txHandle[h].dead

\* The closer: while it rolls a handle back no other can send and none is being
\* begun; when it gives the connection up, a handle that could still commit has its
\* transaction open, for which the pool destroys the connection.
CloserInv ==
    /\ txCall["closer"].op \in {"none", "rollback"}
    /\ txCall["closer"].op = "rollback" =>
        /\ \A p \in Callers : txCall[p].op # "begin"
        /\ \A g \in TxHandles : LiveTx(g) => g = txCall["closer"].h
    /\ At("closer", "release") =>
        \A h \in TxHandles : Usable(h) => txSrv.st # "I" /\ txStmt.pc # "sent"
    /\ txSrv.st = "P" => \A h \in TxHandles : ~Usable(h)
    /\ At("closer", "closed") => ~Connected

TxInv == TxTypeOK /\ ShapeInv /\ HandlesInv /\ WireInv /\ BeginInv /\ LiveInv /\ CloserInv
-----------------------------------------
\* A caller's record is replaced.
LEMMA CallSet ==
    ASSUME TxTypeOK, NEW p \in Callers, NEW r \in TxCallRecords, txCall' = [txCall EXCEPT ![p] = r]
    PROVE  /\ txCall' \in [Callers -> TxCallRecords]
           /\ txCall'[p] = r
           /\ \A q \in Callers : q # p => txCall'[q] = txCall[q]
BY DEF TxTypeOK

\* A handle's record is replaced.
LEMMA HandleSet ==
    ASSUME TxTypeOK, NEW h \in TxHandles, NEW r \in TxRecords, txHandle' = [txHandle EXCEPT ![h] = r]
    PROVE  /\ txHandle' \in [TxHandles -> TxRecords]
           /\ txHandle'[h] = r
           /\ \A g \in TxHandles : g # h => txHandle'[g] = txHandle[g]
BY DEF TxTypeOK

\* What a call returns to.
Settled(p) == IF p = "closer" THEN [NoCall EXCEPT !.pc = "release"] ELSE NoCall
LEMMA SettledFacts ==
    ASSUME NEW p \in Callers
    PROVE  /\ Settled(p) \in TxCallRecords /\ Settled(p).op = "none" /\ Settled(p).h = NoTx
           /\ Settled(p).pc = IF p = "closer" THEN "release" ELSE "idle"
BY DEF Settled, NoCall, TxCallRecords

\* The session's handle, when there is one, is not the one a Begin will publish.
LEMMA CurrentFacts ==
    ASSUME TxInv, Current # NoTx
    PROVE  /\ Current \in TxHandles /\ Current = txActive /\ Known(Current)
           /\ \A q \in Callers : txCall[q].op # "begin"
<1>1. /\ Current \in TxHandles /\ Current = txActive /\ txHandle[Current].status = "active"
  BY DEF TxInv, TxTypeOK, Current
<1> QED BY <1>1 DEF TxInv, BeginInv, Known

\* A handle that can send belongs to no Begin under way once anyone refers to it.
LEMMA LiveFacts ==
    ASSUME TxInv, NEW p \in Callers, txCall[p].op \in TxCallOps \cup {"wrap"}, ~txHandle[txCall[p].h].dead
    PROVE  /\ txCall[p].h \in TxHandles /\ LiveTx(txCall[p].h)
           /\ \A q \in Callers : txCall[q].op # "begin"
           /\ \A g \in TxHandles : LiveTx(g) => g = txCall[p].h
<1> DEFINE h == txCall[p].h
<1>1. h \in TxHandles /\ txHandle[h].status # "none" BY DEF TxInv, HandlesInv, Known
<1>2. LiveTx(h) BY <1>1 DEF TxInv, HandlesInv, TxTypeOK, TxRecords, TxStatus, LiveTx, Unsettled
<1>3. \A q \in Callers : txCall[q].op # "begin"
  <2> SUFFICES ASSUME NEW q \in Callers, txCall[q].op = "begin" PROVE FALSE OBVIOUS
  <2>1. At(q, "publish") BY <1>1, <1>2 DEF TxInv, BeginInv, ShapeInv, At
  <2>2. txCall[q].h = h BY <1>1, <1>2, <2>1 DEF TxInv, BeginInv
  <2>3. q # p /\ txCall[p].op # "none" BY <2>1 DEF TxCallOps, TxInv, ShapeInv, At
  <2> QED BY <2>1, <2>2, <2>3 DEF TxInv, BeginInv
<1>4. \A g \in TxHandles : LiveTx(g) => g = h BY <1>1, <1>2 DEF TxInv, LiveInv
<1> QED BY <1>1, <1>2, <1>3, <1>4

\* Calls that start, return or move without touching handles and server.
LEMMA CallKeeps ==
    ASSUME TxInv, NEW p \in Callers, NEW r \in TxCallRecords,
           txCall' = [txCall EXCEPT ![p] = r], txCall[p].op # "begin",
           UNCHANGED <<txSrv, txOwner, txActive, txHandle, txStmt>>,
           txChoice' \in {txChoice, NoTx, Current},
           \/ r.op \in TxCallOps /\ r.pc = "called"
           \/ r.op = "wrap" /\ r.pc \in {"begun", "wrapped"}
           \/ r.op = "none" /\ r.pc \in {"idle", "loading", "release"},
           r.op # "none" => Known(r.h) /\ \A q \in Callers : At(q, "publish") => r.h # txCall[q].h,
           p # "closer" => r.pc \notin {"loading", "release"},
           p = "closer" =>
             \/ r.pc \in {"idle", "loading"}
             \/ /\ r.op = "rollback" /\ \A q \in Callers : txCall[q].op # "begin"
                /\ \A g \in TxHandles : LiveTx(g) => g = r.h
             \/ /\ r.pc = "release"
                /\ \A h \in TxHandles : Usable(h) => txSrv.st # "I" /\ txStmt.pc # "sent"
    PROVE  TxInv'
<1>0. NoTx \notin TxHandles BY TransactionAssumption DEF NoTx
<1>1. /\ txCall' \in [Callers -> TxCallRecords] /\ txCall'[p] = r
      /\ \A q \in Callers : q # p => txCall'[q] = txCall[q]
  BY CallSet DEF TxInv
<1>2. /\ txChoice' \in TxHandles \cup {NoTx} /\ (txChoice' # NoTx => Known(txChoice'))
      /\ \A q \in Callers : At(q, "publish") => txChoice' # txCall[q].h
  <2>1. CASE txChoice' = txChoice BY <2>1 DEF TxInv, TxTypeOK, HandlesInv, BeginInv, ShapeInv, At
  <2>2. CASE txChoice' = NoTx BY <1>0, <2>2 DEF TxInv, ShapeInv, BeginInv, At, Known
  <2>3. CASE txChoice' = Current /\ Current # NoTx BY <2>3, CurrentFacts DEF TxInv, ShapeInv, At
  <2> QED BY <2>1, <2>2, <2>3
<1>3. /\ \A g : (LiveTx(g)' <=> LiveTx(g)) /\ (Usable(g)' <=> Usable(g)) /\ (Known(g)' <=> Known(g))
      /\ Connected' <=> Connected
  BY DEF LiveTx, Known, Unsettled, Usable, Connected
<1>4. TxTypeOK' BY <1>1, <1>2 DEF TxInv, TxTypeOK
<1>5. ShapeInv' BY <1>1 DEF TxInv, ShapeInv, Ends, Known, TxCallOps
<1>6. HandlesInv' BY <1>1, <1>2, <1>3 DEF TxInv, HandlesInv, Known, TxCallOps
<1>7. WireInv' BY <1>1, <1>3 DEF TxInv, WireInv, At, TxCallOps
<1>8. BeginInv'
  <2>1. \A q \in Callers : txCall'[q].op = "begin" => q # p /\ txCall'[q] = txCall[q] BY <1>1 DEF TxCallOps
  <2> SUFFICES ASSUME NEW q \in Callers, txCall'[q].op = "begin"
               PROVE  BeginInv!(q)'
    BY DEF BeginInv
  <2> QED BY <1>1, <1>2, <1>3, <2>1 DEF TxInv, BeginInv, At
<1>9. LiveInv' BY <1>1, <1>3 DEF TxInv, LiveInv, At, ShapeInv
<1>10. CloserInv' BY <1>1, <1>3 DEF TxInv, CloserInv, At, TxCallOps, ShapeInv
<1> QED BY <1>4, <1>5, <1>6, <1>7, <1>8, <1>9, <1>10 DEF TxInv

\* Begin.
LEMMA BeginKeeps ==
    ASSUME TxInv, NEW p \in Callers, p # "closer", NEW h \in TxHandles, Begin(p, h)
    PROVE  TxInv'
<1> DEFINE r == [op |-> "begin", h |-> h, pc |-> "sent"]
<1>0. NoTx \notin TxHandles BY TransactionAssumption DEF NoTx
<1>1. /\ txCall' = [txCall EXCEPT ![p] = r]
      /\ UNCHANGED <<txSrv, txOwner, txActive, txHandle, txStmt, txChoice>>
      /\ txHandle[h].status = "none" /\ txSrv.st = "I" /\ txStmt.pc = "idle"
      /\ txActive # NoTx => ~Unsettled(txActive)
      /\ txCall[p].pc = "idle" /\ txCall["closer"].pc = "idle"
  BY DEF Begin, BeginOn, QueueFree, Commanding, Retired, At
<1>2. \A q \in Callers : txCall[q].op # "begin" /\ ~At(q, "sent") BY DEF Begin, BeginOn, QueueFree, Busy, At
<1>3. r \in TxCallRecords BY DEF TxCallRecords
<1>4. /\ txCall' \in [Callers -> TxCallRecords] /\ txCall'[p] = r
      /\ \A q \in Callers : q # p => txCall'[q] = txCall[q]
  BY <1>1, <1>3, CallSet DEF TxInv
<1>5. \A g \in TxHandles : ~LiveTx(g) BY <1>0, <1>1, <1>2 DEF TxInv, LiveInv, ShapeInv, At, LiveTx
<1>6. /\ \A g : (LiveTx(g)' <=> LiveTx(g)) /\ (Usable(g)' <=> Usable(g)) /\ (Known(g)' <=> Known(g))
      /\ Connected' <=> Connected
  BY <1>1 DEF LiveTx, Known, Unsettled, Usable, Connected
<1> HIDE DEF r
<1>7. r.op = "begin" /\ r.h = h /\ r.pc = "sent" BY DEF r
<1>8. TxTypeOK' BY <1>1, <1>4 DEF TxInv, TxTypeOK
<1>9. ShapeInv' BY <1>1, <1>4, <1>7 DEF TxInv, ShapeInv, Ends
<1>10. HandlesInv' BY <1>1, <1>4, <1>6, <1>7 DEF TxInv, HandlesInv, TxCallOps
<1>11. WireInv' BY <1>1, <1>2, <1>4, <1>5, <1>6, <1>7 DEF TxInv, WireInv, At
<1>12. BeginInv' BY <1>1, <1>2, <1>4, <1>5, <1>6, <1>7 DEF TxInv, BeginInv, At, Unsettled
<1>13. LiveInv' BY <1>1, <1>2, <1>4, <1>5, <1>6, <1>7 DEF TxInv, LiveInv, At
<1>14. CloserInv'
  <2>1. "closer" \in Callers BY DEF Callers
  <2>2. txCall'["closer"] = txCall["closer"] BY <1>4, <2>1
  <2> QED BY <1>1, <1>5, <1>6, <2>1, <2>2 DEF TxInv, CloserInv, At, ShapeInv
<1> QED BY <1>8, <1>9, <1>10, <1>11, <1>12, <1>13, <1>14 DEF TxInv

\* A handle is closed: by the answer of its COMMIT or ROLLBACK, or by the attempt to
\* send it. Its transaction is over.
LEMMA ClosedKeeps ==
    ASSUME TxInv, NEW p \in Callers, NEW r \in TxCallRecords, txCall[p].op \in TxCallOps,
           txCall' = [txCall EXCEPT ![p] = r],
           txHandle' = [txHandle EXCEPT ![txCall[p].h].dead = TRUE],
           txSrv' \in {txSrv, IdleTx, Gone}, txOwner' = NoTx,
           UNCHANGED <<txActive, txStmt, txChoice>>,
           \/ r = Settled(p)
           \/ r.op = txCall[p].op /\ r.op \in {"commit", "rollback"} /\ r.h = txCall[p].h /\ r.pc = "status",
           At(p, "sent") \/ ~txHandle[txCall[p].h].dead, At("closer", "closed") => txSrv' # IdleTx
    PROVE  TxInv'
<1> DEFINE h == txCall[p].h
           s == [txHandle[h] EXCEPT !.dead = TRUE]
<1>0. NoTx \notin TxHandles /\ "closer" \in Callers BY TransactionAssumption DEF NoTx, Callers
<1>1. /\ txCall' \in [Callers -> TxCallRecords] /\ txCall'[p] = r
      /\ \A q \in Callers : q # p => txCall'[q] = txCall[q]
  BY CallSet DEF TxInv
<1>2. h \in TxHandles /\ txHandle[h].status # "none" /\ h # NoTx BY <1>0 DEF TxInv, HandlesInv, Known
<1>3. s \in TxRecords /\ s.dead /\ s.status = txHandle[h].status BY <1>2 DEF TxInv, TxTypeOK, TxRecords
<1>4. /\ txHandle' \in [TxHandles -> TxRecords] /\ txHandle'[h].dead
      /\ txHandle'[h].status = txHandle[h].status
      /\ \A g \in TxHandles : g # h => txHandle'[g] = txHandle[g]
  BY <1>2, <1>3, HandleSet DEF TxInv
<1>5. /\ \A q \in Callers : txCall[q].op # "begin"
      /\ \A g \in TxHandles : LiveTx(g) => g = h
  BY LiveFacts DEF TxInv, WireInv, TxCallOps
<1>6. \A g \in TxHandles : ~LiveTx(g)' /\ ~Usable(g)' /\ (Known(g)' <=> Known(g))
  BY <1>4, <1>5 DEF LiveTx, Known, Unsettled, Usable, TxInv, HandlesInv
<1>7. txSrv' \in TxServer
  <2>1. IdleTx \in TxServer /\ Gone \in TxServer BY DEF IdleTx, Gone, TxServer
  <2> QED BY <2>1 DEF TxInv, TxTypeOK
<1>8. /\ r.op = "none" \/ (r.op = txCall[p].op /\ r.op \in {"commit", "rollback"} /\ r.h = h /\ r.pc = "status")
      /\ r.op = "none" => r.pc = IF p = "closer" THEN "release" ELSE "idle"
      /\ r.op # "begin" /\ r.pc \notin {"sent", "publish"}
  BY SettledFacts DEF TxCallOps
<1> HIDE DEF h, s
<1>9. TxTypeOK' BY <1>0, <1>1, <1>4, <1>7 DEF TxInv, TxTypeOK
<1>10. ShapeInv' BY <1>1, <1>2, <1>8 DEF TxInv, ShapeInv, Ends, TxCallOps
<1>11. HandlesInv'
  <2>1. \A g : Known(g) => Known(g)' BY <1>6 DEF Known
  <2>2. \A q \in Callers : (txCall[q].op \in TxCallOps \cup {"wrap"} => Known(txCall[q].h))'
    BY <1>1, <1>2, <1>8, <2>1 DEF TxInv, HandlesInv, TxCallOps, h
  <2>3. \A g \in TxHandles : /\ txHandle'[g].status = "none" => ~txHandle'[g].dead
                             /\ txHandle'[g].status \in {"committed", "rolledback"} => txHandle'[g].dead
    BY <1>2, <1>4 DEF TxInv, HandlesInv
  <2> QED BY <2>1, <2>2, <2>3 DEF TxInv, HandlesInv
<1>12. WireInv' BY <1>1, <1>2, <1>4, <1>5, <1>6, <1>8 DEF TxInv, WireInv, At, h, ShapeInv, HandlesInv, Known
<1>13. BeginInv' BY <1>1, <1>5, <1>8 DEF BeginInv
<1>14. LiveInv' BY <1>6 DEF LiveInv
<1>15. CloserInv'
  <2>1. CASE p = "closer" BY <1>0, <1>1, <1>5, <1>6, <1>8, <2>1 DEF TxInv, CloserInv, At
  <2>2. CASE p # "closer"
    <3>1. txCall'["closer"] = txCall["closer"] BY <1>0, <1>1, <2>2
    <3>2. At("closer", "closed") => ~Connected' BY DEF TxInv, CloserInv, Connected, Gone
    <3> QED BY <1>0, <1>1, <1>5, <1>6, <1>8, <3>1, <3>2 DEF TxInv, CloserInv, At
  <2> QED BY <2>1, <2>2
<1> QED BY <1>9, <1>10, <1>11, <1>12, <1>13, <1>14, <1>15 DEF TxInv

\* A savepoint's answer returns the call and changes what the handle tracks, and the server
\* without ending or opening a transaction; a statement of the launcher's may do that, with no handle.
LEMMA ServerKeeps ==
    ASSUME TxInv, UNCHANGED <<txActive, txChoice>>, txSrv' \in TxServer,
           \/ txCall' = txCall
           \/ \E p \in Callers \ {"closer"} : txCall[p].op \in TxCallOps /\ txCall' = [txCall EXCEPT ![p] = NoCall],
           \/ txHandle' = txHandle
           \/ \E h \in TxHandles, s \in SUBSET TxNames : txHandle' = [txHandle EXCEPT ![h].sps = s],
           \/ txStmt' = txStmt \/ (txStmt' \in [pc : {"idle", "refused"}, seen : {NoTx}] /\ txStmt.pc = "sent"),
           \/ txOwner' = txOwner /\ (txSrv'.st = txSrv.st \/ (txSrv.st \in {"T", "E"} /\ txSrv'.st \in {"T", "E"}))
           \/ /\ txOwner' = NoTx /\ txStmt.pc = "sent"
              /\ txSrv.st \in {"I", "T", "E"} /\ txSrv'.st \in {"I", "T"}
    PROVE  TxInv'
<1>0. NoTx \notin TxHandles /\ "closer" \in Callers BY TransactionAssumption DEF NoTx, Callers
<1>1. /\ txHandle' \in [TxHandles -> TxRecords]
      /\ \A g \in TxHandles : /\ txHandle'[g].status = txHandle[g].status
                              /\ txHandle'[g].dead = txHandle[g].dead
  <2>1. CASE txHandle' = txHandle BY <2>1 DEF TxInv, TxTypeOK
  <2>2. ASSUME NEW h \in TxHandles, NEW s \in SUBSET TxNames,
               txHandle' = [txHandle EXCEPT ![h].sps = s]
        PROVE  <1>1!1 /\ <1>1!2
    <3>1. txHandle[h] \in TxRecords BY DEF TxInv, TxTypeOK
    <3> QED BY <2>2, <3>1 DEF TxInv, TxTypeOK, TxRecords
  <2> QED BY <2>1, <2>2
<1>2. \A g \in TxHandles : (LiveTx(g)' <=> LiveTx(g)) /\ (Usable(g)' <=> Usable(g))
  BY <1>1 DEF LiveTx, Unsettled, Usable
<1>3. \A g : Known(g)' <=> Known(g) BY <1>1 DEF Known
<1>a. /\ txCall' \in [Callers -> TxCallRecords]
      /\ \A q \in Callers : txCall'[q] # txCall[q] =>
            txCall'[q].op = "none" /\ txCall'[q].pc = "idle" /\ txCall[q].op \in TxCallOps /\ q # "closer"
  <2>1. CASE txCall' = txCall BY <2>1 DEF TxInv, TxTypeOK
  <2>2. ASSUME NEW p \in Callers \ {"closer"}, txCall[p].op \in TxCallOps, txCall' = [txCall EXCEPT ![p] = NoCall]
        PROVE  <1>a!1 /\ <1>a!2
    <3>1. NoCall \in TxCallRecords /\ NoCall.op = "none" /\ NoCall.pc = "idle" BY DEF NoCall, TxCallRecords
    <3> QED BY <2>2, <3>1, CallSet DEF TxInv
  <2> QED BY <2>1, <2>2
<1>b. /\ \A q \in Callers : txCall'[q].op # "none" => txCall'[q] = txCall[q]
      /\ \A q \in Callers : txCall'[q].op = "begin" <=> txCall[q].op = "begin"
      /\ txCall'["closer"] = txCall["closer"]
  BY <1>0, <1>a DEF TxCallOps
<1>4. TxTypeOK' BY <1>1, <1>a DEF TxInv, TxTypeOK
<1>5. ShapeInv' BY <1>a DEF TxInv, ShapeInv, Ends
<1>6. HandlesInv' BY <1>1, <1>3, <1>b DEF TxInv, HandlesInv, TxCallOps
<1>7. WireInv'
  <2>1. txStmt'.pc = "sent" => txStmt.pc = "sent" OBVIOUS
  <2>2. \A q \in Callers : txCall[q].pc \in {"status", "terminate"} => txCall[q].h \in TxHandles
    BY DEF TxInv, ShapeInv, Ends
  <2>3. \A q \in Callers : txCall'[q].pc \in {"sent", "status", "terminate"} => txCall'[q] = txCall[q] BY <1>a
  <2> QED BY <1>1, <1>2, <1>b, <2>1, <2>2, <2>3 DEF TxInv, WireInv, At
<1>8. BeginInv'
  <2>1. txSrv'.st = "I" => txSrv.st = "I" \/ txStmt.pc = "sent" OBVIOUS
  <2> SUFFICES ASSUME NEW q \in Callers, txCall'[q].op = "begin" PROVE BeginInv!(q)' BY DEF BeginInv
  <2>4. txCall'[q] = txCall[q] /\ txCall[q].op = "begin" BY <1>b
  <2>2. txStmt' = txStmt /\ txCall[q].h \in TxHandles BY <2>4 DEF TxInv, BeginInv, ShapeInv
  <2>3. txActive # NoTx => txActive \in TxHandles BY DEF TxInv, TxTypeOK
  <2> QED BY <1>1, <1>2, <1>3, <1>b, <2>1, <2>2, <2>3, <2>4 DEF TxInv, BeginInv, At
<1>9. LiveInv'
  <2>1. txOwner' # NoTx => txOwner' = txOwner /\ txOwner \in TxHandles /\ (txSrv'.st = txSrv.st \/ txSrv'.st \in {"T", "E"})
    BY DEF TxInv, TxTypeOK
  <2>2. \A q \in Callers : At(q, "publish") => At(q, "publish")' /\ txCall'[q] = txCall[q]
    BY <1>a DEF At, TxInv, ShapeInv, TxCallOps
  <2> QED BY <1>2, <2>1, <2>2 DEF TxInv, LiveInv
<1>10. CloserInv'
  <2>1. \A h \in TxHandles : At("closer", "release") /\ Usable(h) => txSrv'.st # "I" /\ txStmt'.pc # "sent"
    BY DEF TxInv, CloserInv
  <2>2. txSrv'.st = "P" => txSrv.st = "P" OBVIOUS
  <2>3. ~Connected => ~Connected' BY DEF Connected
  <2> QED BY <1>0, <1>2, <1>b, <2>1, <2>2, <2>3 DEF TxInv, CloserInv, At
<1> QED BY <1>4, <1>5, <1>6, <1>7, <1>8, <1>9, <1>10 DEF TxInv
\* What the server makes of the savepoint statements.
LEMMA ServerType ==
    ASSUME TxInv, NEW n \in TxNames
    PROVE  /\ SrvSavepoint(n) \in TxServer
           /\ SrvRelease(n) \in TxServer
           /\ SrvRollbackTo(n) \in TxServer
<1>1. txSrv \in TxServer /\ txSrv.sps \in Seq(TxNames) BY DEF TxInv, TxTypeOK, TxServer
<1>2. SrvSavepoint(n) \in TxServer
  <2>1. Append(txSrv.sps, n) \in Seq(TxNames) BY <1>1
  <2> QED BY <1>1, <2>1 DEF SrvSavepoint, TxServer
<1>3. \A i \in Positions(n) : /\ SubSeq(txSrv.sps, 1, i) \in Seq(TxNames)
                              /\ SubSeq(txSrv.sps, 1, i - 1) \in Seq(TxNames)
  <2> SUFFICES ASSUME NEW i \in Positions(n)
               PROVE  /\ SubSeq(txSrv.sps, 1, i) \in Seq(TxNames)
                      /\ SubSeq(txSrv.sps, 1, i - 1) \in Seq(TxNames)
    OBVIOUS
  <2>1. i \in 1..Len(txSrv.sps) /\ i - 1 \in 0..Len(txSrv.sps) BY <1>1 DEF Positions
  <2>2. \A j \in 1..Len(txSrv.sps) : txSrv.sps[j] \in TxNames BY <1>1
  <2> QED BY <1>1, <2>1, <2>2
<1>4. ASSUME Positions(n) # {} PROVE Latest(n) \in Positions(n)
  <2> DEFINE len == Len(txSrv.sps)
             S == {len - i : i \in Positions(n)}
  <2>1. len \in Nat /\ Positions(n) \subseteq 1..len BY <1>1 DEF Positions
  <2>2. S \in SUBSET Nat /\ S # {} BY <1>4, <2>1
  <2>3. PICK p \in S : \A q \in S : ~(<<q, p>> \in OpToRel(<, Nat)) BY <2>2, NatLessThanWellFounded, WFMin
  <2>4. \A q \in S : ~(q < p) BY <2>2, <2>3 DEF OpToRel
  <2>5. PICK i \in Positions(n) : p = len - i BY <2>3
  <2>6. \A j \in Positions(n) : j <= i
    <3> SUFFICES ASSUME NEW j \in Positions(n) PROVE j <= i OBVIOUS
    <3>1. len - j \in S OBVIOUS
    <3>2. ~(len - j < len - i) BY <2>4, <2>5, <3>1
    <3> HIDE DEF S, len
    <3>3. i \in Nat /\ j \in Nat /\ len \in Nat BY <2>1, <2>5
    <3> QED BY <3>2, <3>3
  <2> QED BY <2>6 DEF Latest
<1> QED BY <1>1, <1>2, <1>3, <1>4 DEF SrvRelease, SrvRollbackTo, TxServer


\* BEGIN is answered.
LEMMA AnswerKeeps ==
    ASSUME TxInv, NEW p \in Callers, p # "closer", BeginAnswer(p)
    PROVE  TxInv'
<1>0. NoTx \notin TxHandles /\ "closer" \in Callers BY TransactionAssumption DEF NoTx, Callers
<1>1. /\ txCall[p].pc = "sent" /\ txCall[p].op = "begin"
      /\ UNCHANGED <<txActive, txStmt, txChoice>>
  BY DEF BeginAnswer, At
<1> PICK h \in TxHandles : h = txCall[p].h BY <1>1 DEF TxInv, ShapeInv
<1> DEFINE r == [txCall[p] EXCEPT !.pc = "publish"]
           s == [txHandle[h] EXCEPT !.status = "active"]
<1>2. /\ txHandle[h].status = "none" /\ ~txHandle[h].dead
      /\ \A g \in TxHandles : ~LiveTx(g)
      /\ \A q \in Callers : txCall[q].op = "begin" => q = p
      /\ \A q \in Callers : ~At(q, "publish") /\ (At(q, "sent") => q = p)
      /\ txActive # NoTx => txHandle[txActive].status # "active"
      /\ txStmt.pc = "idle"
  BY <1>0, <1>1 DEF TxInv, BeginInv, WireInv, ShapeInv, HandlesInv, At
<1>3. CASE txSrv' = Gone /\ txOwner' = NoTx /\ UNCHANGED txHandle /\ Returns(p, FALSE)
  <2> DEFINE e == Settled(p)
  <2>1. e \in TxCallRecords /\ txCall' = [txCall EXCEPT ![p] = e] /\ e.op = "none" /\ e.pc = "idle"
    BY <1>3, SettledFacts DEF Returns, Settled
  <2> HIDE DEF e
  <2>2. /\ txCall' \in [Callers -> TxCallRecords] /\ txCall'[p] = e
        /\ \A q \in Callers : q # p => txCall'[q] = txCall[q]
    BY <2>1, CallSet DEF TxInv
  <2>3. /\ \A g : (LiveTx(g)' <=> LiveTx(g)) /\ (Usable(g)' <=> Usable(g)) /\ (Known(g)' <=> Known(g))
        /\ ~Connected' /\ txSrv'.st = "X"
    BY <1>3 DEF LiveTx, Known, Unsettled, Usable, Connected, Gone
  <2>4. Gone \in TxServer BY DEF Gone, TxServer
  <2>5. TxTypeOK' BY <1>0, <1>1, <1>3, <2>2, <2>4 DEF TxInv, TxTypeOK
  <2>6. ShapeInv' BY <2>1, <2>2 DEF TxInv, ShapeInv, Ends
  <2>7. HandlesInv' BY <1>1, <1>3, <2>1, <2>2, <2>3 DEF TxInv, HandlesInv, TxCallOps
  <2>8. WireInv' BY <1>1, <1>2, <1>3, <2>1, <2>2, <2>3 DEF TxInv, WireInv, At
  <2>9. BeginInv' BY <1>2, <2>1, <2>2 DEF BeginInv
  <2>10. LiveInv' BY <1>2, <1>3, <2>3 DEF LiveInv
  <2>11. CloserInv' BY <1>0, <1>1, <1>2, <2>1, <2>2, <2>3 DEF TxInv, CloserInv, At
  <2> QED BY <2>5, <2>6, <2>7, <2>8, <2>9, <2>10, <2>11 DEF TxInv
<1>4. ASSUME Connected, txSrv' = [st |-> "T", sps |-> <<>>], txOwner' = h,
             txHandle' = [txHandle EXCEPT ![h].status = "active"], TxGoto(p, "publish")
      PROVE  TxInv'
  <2>1. r \in TxCallRecords /\ txCall' = [txCall EXCEPT ![p] = r]
        /\ r.op = "begin" /\ r.pc = "publish" /\ r.h = h
    BY <1>1, <1>4 DEF TxGoto, TxInv, TxTypeOK, TxCallRecords
  <2>2. s \in TxRecords /\ txHandle' = [txHandle EXCEPT ![h] = s] /\ s.status = "active" /\ ~s.dead
    BY <1>2, <1>4 DEF TxInv, TxTypeOK, TxRecords, TxStatus
  <2>3. txSrv' \in TxServer /\ txSrv'.st = "T" BY <1>4 DEF TxServer
  <2> HIDE DEF r, s
  <2>4. /\ txCall' \in [Callers -> TxCallRecords] /\ txCall'[p] = r
        /\ \A q \in Callers : q # p => txCall'[q] = txCall[q]
    BY <2>1, CallSet DEF TxInv
  <2>5. /\ txHandle' \in [TxHandles -> TxRecords] /\ txHandle'[h] = s
        /\ \A g \in TxHandles : g # h => txHandle'[g] = txHandle[g]
    BY <1>2, <2>2, HandleSet DEF TxInv
  <2>6. /\ \A g \in TxHandles : (LiveTx(g)' => g = h) /\ (Usable(g)' => g = h)
        /\ LiveTx(h)' /\ Known(h)' /\ ~Known(h)
        /\ \A g : Known(g) => Known(g)' /\ g # h
    BY <1>2, <2>2, <2>5 DEF LiveTx, Known, Unsettled, Usable
  <2>7. \A q \in Callers : q # p /\ txCall[q].op # "none" => txCall[q].h # h
    BY <1>2, <2>6 DEF TxInv, HandlesInv, TxTypeOK, TxCallRecords
  <2>8. TxTypeOK' BY <1>1, <1>2, <1>4, <2>3, <2>4, <2>5 DEF TxInv, TxTypeOK
  <2>9. ShapeInv' BY <1>2, <2>1, <2>4 DEF TxInv, ShapeInv, Ends
  <2>10. HandlesInv'
    <3>1. \A g \in TxHandles : /\ txHandle'[g].status = "none" => ~txHandle'[g].dead
                               /\ txHandle'[g].status \in {"committed", "rolledback"} => txHandle'[g].dead
      BY <2>2, <2>5 DEF TxInv, HandlesInv
    <3>2. \A q \in Callers : (txCall[q].op \in TxCallOps \cup {"wrap"} => Known(txCall[q].h))'
      BY <2>1, <2>4, <2>6 DEF TxInv, HandlesInv, TxCallOps
    <3> QED BY <1>1, <2>6, <3>1, <3>2 DEF TxInv, HandlesInv
  <2>11. WireInv'
    <3>1. \A q \in Callers : ~At(q, "sent")' BY <1>2, <2>1, <2>4 DEF At
    <3>2. \A q \in Callers : (txCall[q].pc \in {"status", "terminate"} => txHandle[txCall[q].h].dead)'
      BY <2>1, <2>4, <2>5, <2>7 DEF TxInv, WireInv, ShapeInv, Ends
    <3> QED BY <3>1, <3>2 DEF WireInv
  <2>12. BeginInv'
    <3>1. \A q \in Callers : txCall'[q].op = "begin" => q = p BY <1>2, <2>4
    <3>2. txActive # NoTx => txActive # h /\ txHandle'[txActive].status # "active"
      BY <1>2, <2>5, <2>6 DEF TxInv, TxTypeOK, HandlesInv
    <3>3. txActive # h /\ txChoice # h BY <1>0, <1>2, <2>6, <3>2 DEF TxInv, HandlesInv
    <3> QED BY <1>1, <1>2, <2>1, <2>3, <2>4, <2>6, <2>7, <3>1, <3>2, <3>3 DEF BeginInv, At
  <2>13. LiveInv' BY <1>4, <2>1, <2>3, <2>4, <2>6 DEF LiveInv, At
  <2>14. CloserInv'
    <3>1. txCall'["closer"] = txCall["closer"] /\ txCall["closer"].op # "rollback"
      BY <1>0, <1>1, <2>4 DEF TxInv, CloserInv
    <3>2. ~At("closer", "closed") BY <1>4 DEF TxInv, CloserInv
    <3> QED BY <1>1, <1>2, <2>3, <3>1, <3>2 DEF TxInv, CloserInv, At
  <2> QED BY <2>8, <2>9, <2>10, <2>11, <2>12, <2>13, <2>14 DEF TxInv
<1> QED BY <1>3, <1>4 DEF BeginAnswer

\* The session's transaction is set.
LEMMA TxPublishKeeps ==
    ASSUME TxInv, NEW p \in Callers, p # "closer", BeginPublish(p)
    PROVE  TxInv'
<1> DEFINE h == txCall[p].h
           w == [txCall[p] EXCEPT !.op = "wrap", !.pc = "begun"]
<1>0. NoTx \notin TxHandles /\ "closer" \in Callers BY TransactionAssumption DEF NoTx, Callers
<1>1. /\ txCall[p].pc = "publish" /\ txActive' = h
      /\ UNCHANGED <<txSrv, txOwner, txHandle, txStmt, txChoice>>
  BY DEF BeginPublish, At
<1>2. txCall[p].op = "begin" BY <1>1 DEF TxInv, ShapeInv
<1>3. /\ Known(h) /\ txSrv.st # "I"
      /\ \A g \in TxHandles : LiveTx(g) => g = h
      /\ \A q \in Callers : txCall[q].op = "begin" => q = p
      /\ \A q \in Callers : q # p /\ txCall[q].op # "none" => txCall[q].h # h
      /\ txStmt.pc = "idle"
  BY <1>1, <1>2 DEF TxInv, BeginInv, At
<1>4. PICK r \in TxCallRecords : /\ txCall' = [txCall EXCEPT ![p] = r]
                                 /\ \/ r.op = "none" /\ r.pc = "idle"
                                    \/ r.op = "wrap" /\ r.pc = "begun" /\ r.h = h
  <2>1. CASE Returns(p, TRUE) BY <2>1, SettledFacts DEF Returns, Settled
  <2>2. CASE txCall' = [txCall EXCEPT ![p].op = "wrap", ![p].pc = "begun"]
    <3>1. w \in TxCallRecords /\ w.op = "wrap" /\ w.pc = "begun" /\ w.h = h BY DEF TxInv, TxTypeOK, TxCallRecords
    <3>2. txCall' = [txCall EXCEPT ![p] = w] BY <2>2 DEF TxInv, TxTypeOK, TxCallRecords
    <3> QED BY <3>1, <3>2
  <2> QED BY <2>1, <2>2 DEF BeginPublish
<1>5. /\ txCall' \in [Callers -> TxCallRecords] /\ txCall'[p] = r
      /\ \A q \in Callers : q # p => txCall'[q] = txCall[q]
  BY <1>4, CallSet DEF TxInv
<1> HIDE DEF h, w
<1>6. \A g : (LiveTx(g)' <=> LiveTx(g)) /\ (Usable(g)' <=> Usable(g)) /\ (Known(g)' <=> Known(g))
  BY <1>1 DEF LiveTx, Known, Unsettled, Usable
<1>7. TxTypeOK' BY <1>1, <1>3, <1>5 DEF TxInv, TxTypeOK, Known
<1>8. ShapeInv' BY <1>3, <1>4, <1>5 DEF TxInv, ShapeInv, Ends, Known
<1>9. HandlesInv' BY <1>1, <1>3, <1>4, <1>5, <1>6 DEF TxInv, HandlesInv, TxCallOps
<1>10. WireInv' BY <1>1, <1>3, <1>4, <1>5, <1>6 DEF TxInv, WireInv, At
<1>11. BeginInv' BY <1>3, <1>4, <1>5 DEF BeginInv
<1>12. LiveInv' BY <1>1, <1>3, <1>6 DEF TxInv, LiveInv
<1>13. CloserInv'
  <2>1. txCall'["closer"] = txCall["closer"] BY <1>0, <1>5
  <2> QED BY <1>1, <1>2, <1>3, <1>6, <2>1 DEF TxInv, CloserInv, At, Connected
<1> QED BY <1>7, <1>8, <1>9, <1>10, <1>11, <1>12, <1>13 DEF TxInv

\* A call goes on the wire.
LEMMA SentKeeps ==
    ASSUME TxInv, NEW p \in Callers, txCall[p].op \in TxCallOps, ~Busy,
           ~txHandle[txCall[p].h].dead, TxGoto(p, "sent"),
           UNCHANGED <<txSrv, txOwner, txActive, txHandle, txStmt, txChoice>>
    PROVE  TxInv'
<1> DEFINE r == [txCall[p] EXCEPT !.pc = "sent"]
<1>1. /\ r \in TxCallRecords /\ txCall' = [txCall EXCEPT ![p] = r]
      /\ r.op = txCall[p].op /\ r.h = txCall[p].h /\ r.pc = "sent"
  BY DEF TxGoto, TxInv, TxTypeOK, TxCallRecords
<1>2. /\ txStmt.pc # "sent" /\ \A q \in Callers : txCall[q].pc # "sent" BY DEF Busy
<1> HIDE DEF r
<1>3. /\ txCall' \in [Callers -> TxCallRecords] /\ txCall'[p] = r
      /\ \A q \in Callers : q # p => txCall'[q] = txCall[q]
  BY <1>1, CallSet DEF TxInv
<1>4. /\ \A q \in Callers : txCall[q].op # "begin"
      /\ \A g \in TxHandles : LiveTx(g) => g = txCall[p].h
  BY LiveFacts
<1>5. /\ \A g : (LiveTx(g)' <=> LiveTx(g)) /\ (Usable(g)' <=> Usable(g)) /\ (Known(g)' <=> Known(g))
      /\ Connected' <=> Connected
  BY DEF LiveTx, Known, Unsettled, Usable, Connected
<1>6. TxTypeOK' BY <1>3 DEF TxInv, TxTypeOK
<1>7. ShapeInv' BY <1>1, <1>3 DEF TxInv, ShapeInv, Ends, TxCallOps
<1>8. HandlesInv' BY <1>1, <1>3, <1>5 DEF TxInv, HandlesInv
<1>9. WireInv' BY <1>1, <1>2, <1>3, <1>4, <1>5 DEF TxInv, WireInv, At
<1>10. BeginInv' BY <1>1, <1>3, <1>4 DEF BeginInv, TxCallOps
<1>11. LiveInv'
  <2>1. \A q \in Callers : txCall[q].pc # "publish" BY <1>4 DEF TxInv, ShapeInv
  <2> QED BY <1>5, <2>1 DEF TxInv, LiveInv, At
<1>12. CloserInv'
  <2>1. "closer" \in Callers BY DEF Callers
  <2> QED BY <1>1, <1>3, <1>4, <1>5, <2>1 DEF TxInv, CloserInv, At, TxCallOps
<1> QED BY <1>6, <1>7, <1>8, <1>9, <1>10, <1>11, <1>12 DEF TxInv

\* A handle's status is replaced by that of a call that ended it, or by ObserveError.
LEMMA StatusKeeps ==
    ASSUME TxInv, NEW h \in TxHandles, NEW status \in TxStatus \ {"none", "active"}, Known(h),
           txHandle' = [txHandle EXCEPT ![h].status = status],
           txHandle[h].dead \/ status = "aborted",
           UNCHANGED <<txSrv, txOwner, txActive, txChoice>>,
           \/ txStmt' = txStmt
           \/ txStmt.pc # "sent" /\ txStmt' = NoStmt,
           \/ txCall' = txCall
           \/ \E p \in Callers : txCall[p].pc = "status" /\ TxGoto(p, "terminate")
    PROVE  TxInv'
<1> DEFINE s == [txHandle[h] EXCEPT !.status = status]
<1>1. s \in TxRecords /\ txHandle' = [txHandle EXCEPT ![h] = s] /\ s.status = status /\ s.dead = txHandle[h].dead
  BY DEF TxInv, TxTypeOK, TxRecords
<1> HIDE DEF s
<1>2. /\ txHandle' \in [TxHandles -> TxRecords] /\ txHandle'[h] = s
      /\ \A g \in TxHandles : g # h => txHandle'[g] = txHandle[g]
  BY <1>1, HandleSet DEF TxInv
<1>3. /\ \A g \in TxHandles : (LiveTx(g)' <=> LiveTx(g)) /\ (Usable(g)' => Usable(g))
      /\ \A g : Known(g)' <=> Known(g)
  <2>1. ~txHandle[h].dead => txHandle[h].status \in {"active", "aborted"}
    BY DEF TxInv, HandlesInv, TxTypeOK, TxRecords, TxStatus, Known
  <2>2. (LiveTx(h)' <=> LiveTx(h)) /\ (Usable(h)' => Usable(h)) BY <1>1, <1>2, <2>1 DEF LiveTx, Unsettled, Usable
  <2>3. \A g \in TxHandles : g # h => (LiveTx(g)' <=> LiveTx(g)) /\ (Usable(g)' => Usable(g))
    BY <1>2 DEF LiveTx, Unsettled, Usable
  <2>4. \A g : Known(g)' <=> Known(g) BY <1>1, <1>2 DEF Known
  <2> QED BY <2>2, <2>3, <2>4
<1>4. /\ txCall' \in [Callers -> TxCallRecords]
      /\ \A q \in Callers :
           /\ txCall'[q].op = txCall[q].op /\ txCall'[q].h = txCall[q].h
           /\ txCall'[q].pc = txCall[q].pc \/ (txCall[q].pc = "status" /\ txCall'[q].pc = "terminate")
  <2>1. CASE txCall' = txCall BY <2>1 DEF TxInv, TxTypeOK
  <2>2. ASSUME NEW p \in Callers, txCall[p].pc = "status", TxGoto(p, "terminate")
        PROVE  <1>4!1 /\ <1>4!2
    <3> DEFINE r == [txCall[p] EXCEPT !.pc = "terminate"]
    <3>1. r \in TxCallRecords /\ txCall' = [txCall EXCEPT ![p] = r]
          /\ r.op = txCall[p].op /\ r.h = txCall[p].h /\ r.pc = "terminate"
      BY <2>2 DEF TxGoto, TxInv, TxTypeOK, TxCallRecords
    <3> HIDE DEF r
    <3> QED BY <2>2, <3>1, CallSet DEF TxInv
  <2> QED BY <2>1, <2>2
<1>5. /\ txStmt' \in [pc : {"idle", "sent", "refused", "observe"}, seen : TxHandles \cup {NoTx}]
      /\ txStmt'.pc = txStmt.pc \/ (txStmt'.pc = "idle" /\ txStmt.pc # "sent")
      /\ txStmt'.pc = "observe" => txStmt' = txStmt
  BY DEF TxInv, TxTypeOK, NoStmt
<1>6. TxTypeOK' BY <1>2, <1>4, <1>5 DEF TxInv, TxTypeOK
<1>7. ShapeInv' BY <1>4 DEF TxInv, ShapeInv, Ends
<1>8. HandlesInv'
  <2>1. \A g \in TxHandles : /\ txHandle'[g].status = "none" => ~txHandle'[g].dead
                             /\ txHandle'[g].status \in {"committed", "rolledback"} => txHandle'[g].dead
    BY <1>1, <1>2 DEF TxInv, HandlesInv
  <2> QED BY <1>3, <1>4, <1>5, <2>1 DEF TxInv, HandlesInv
<1>9. \A g \in TxHandles : txHandle'[g].dead = txHandle[g].dead BY <1>1, <1>2
<1>10. WireInv'
  <2>1. \A q \in Callers : txCall[q].pc \in {"status", "terminate"} => txCall[q].h \in TxHandles
    BY DEF TxInv, ShapeInv, Ends
  <2>2. txStmt'.pc = "sent" => txStmt.pc = "sent" BY <1>5
  <2> QED BY <1>3, <1>4, <1>9, <2>1, <2>2 DEF TxInv, WireInv, At
<1>11. BeginInv'
  <2>1. \A q \in Callers : txCall[q].op = "begin" => txCall[q].h \in TxHandles /\ txCall'[q] = txCall[q]
    <3> SUFFICES ASSUME NEW q \in Callers, txCall[q].op = "begin"
                 PROVE  txCall[q].h \in TxHandles /\ txCall'[q] = txCall[q]
      OBVIOUS
    <3>1. txCall[q].pc # "status" BY DEF TxInv, ShapeInv, Ends
    <3>2. txCall'[q].pc = txCall[q].pc BY <1>4, <3>1
    <3> QED BY <1>4, <3>2 DEF TxInv, TxTypeOK, TxCallRecords, ShapeInv
  <2>2. txActive # NoTx /\ txHandle[txActive].status # "active" => txHandle'[txActive].status # "active"
    BY <1>1, <1>2 DEF TxInv, TxTypeOK
  <2>3. \A q \in Callers : At(q, "publish")' <=> At(q, "publish") BY <1>4 DEF At
  <2>4. \A g \in TxHandles : txHandle[g].status = "none" => txHandle'[g].status = "none" BY <1>2 DEF Known
  <2> QED BY <1>3, <1>4, <1>5, <2>1, <2>2, <2>3, <2>4 DEF TxInv, BeginInv, At
<1>12. LiveInv' BY <1>3, <1>4 DEF TxInv, LiveInv, TxTypeOK, At
<1>13. CloserInv'
  <2>1. "closer" \in Callers BY DEF Callers
  <2> QED BY <1>3, <1>4, <1>5, <2>1 DEF TxInv, CloserInv, At, Connected
<1> QED BY <1>6, <1>7, <1>8, <1>10, <1>11, <1>12, <1>13 DEF TxInv

\* onTerminate clears the session's transaction when it is the closed handle.
LEMMA TerminateKeeps ==
    ASSUME TxInv, NEW p \in Callers, onTerminate(p)
    PROVE  TxInv'
<1> DEFINE r == Settled(p)
<1>0. NoTx \notin TxHandles /\ "closer" \in Callers BY TransactionAssumption DEF NoTx, Callers
<1>1. /\ txCall[p].pc = "terminate" /\ txCall' = [txCall EXCEPT ![p] = r]
      /\ txActive' \in {NoTx, txActive} /\ (txActive' # txActive => txActive = txCall[p].h)
      /\ UNCHANGED <<txSrv, txOwner, txHandle, txStmt, txChoice>>
  BY DEF onTerminate, At, Returns, Settled
<1>2. /\ txCall[p].op \in {"commit", "rollback"} /\ txCall[p].h \in TxHandles /\ txHandle[txCall[p].h].dead
  BY <1>1 DEF TxInv, ShapeInv, WireInv, Ends
<1>3. r \in TxCallRecords /\ r.op = "none" /\ r.pc = IF p = "closer" THEN "release" ELSE "idle" BY SettledFacts
<1> HIDE DEF r
<1>4. /\ txCall' \in [Callers -> TxCallRecords] /\ txCall'[p] = r
      /\ \A q \in Callers : q # p => txCall'[q] = txCall[q]
  BY <1>1, <1>3, CallSet DEF TxInv
<1>5. \A g : (LiveTx(g)' <=> LiveTx(g)) /\ (Usable(g)' <=> Usable(g)) /\ (Known(g)' <=> Known(g))
  BY <1>1 DEF LiveTx, Known, Unsettled, Usable
<1>6. TxTypeOK' BY <1>1, <1>4 DEF TxInv, TxTypeOK
<1>7. ShapeInv' BY <1>3, <1>4 DEF TxInv, ShapeInv, Ends
<1>8. HandlesInv' BY <1>1, <1>3, <1>4, <1>5 DEF TxInv, HandlesInv, TxCallOps
<1>9. WireInv' BY <1>1, <1>3, <1>4, <1>5 DEF TxInv, WireInv, At
<1>10. BeginInv'
  <2>1. \A q \in Callers : txCall'[q].op = "begin" => txCall'[q] = txCall[q] /\ q # p BY <1>3, <1>4
  <2>2. \A q \in Callers : txCall[q].op = "begin" => txCall[q].h \in TxHandles BY DEF TxInv, ShapeInv
  <2> QED BY <1>0, <1>1, <1>3, <1>4, <1>5, <2>1, <2>2 DEF TxInv, BeginInv, At
<1>11. LiveInv'
  <2>1. ~LiveTx(txCall[p].h) BY <1>2 DEF LiveTx
  <2>2. \A q \in Callers : At(q, "publish") => At(q, "publish")' /\ txCall'[q] = txCall[q] BY <1>1, <1>4 DEF At
  <2> QED BY <1>1, <1>5, <2>1, <2>2 DEF TxInv, LiveInv
<1>12. CloserInv'
  <2>1. CASE p # "closer"
    <3>1. txCall'["closer"] = txCall["closer"] BY <1>0, <1>4, <2>1
    <3> QED BY <1>1, <1>3, <1>4, <1>5, <3>1 DEF TxInv, CloserInv, At, Connected
  <2>2. CASE p = "closer"
    <3>1. \A g \in TxHandles : ~LiveTx(g) BY <1>2, <2>2 DEF TxInv, CloserInv, LiveTx
    <3>2. \A g \in TxHandles : ~Usable(g) BY <3>1 DEF LiveTx, Usable, Unsettled
    <3> QED BY <1>1, <1>3, <1>4, <1>5, <2>2, <3>2 DEF TxInv, CloserInv, At
  <2> QED BY <2>1, <2>2
<1> QED BY <1>6, <1>7, <1>8, <1>9, <1>10, <1>11, <1>12 DEF TxInv

\* A statement is sent, or its end has looked the transaction up.
LEMMA StatementKeeps ==
    ASSUME TxInv, Statement \/ onFinish
    PROVE  TxInv'
<1>1. UNCHANGED <<txSrv, txOwner, txActive, txHandle, txCall, txChoice>> BY DEF Statement, onFinish
<1>2. /\ txStmt' \in [pc : {"idle", "sent", "observe"}, seen : TxHandles \cup {NoTx}]
      /\ txStmt'.pc = "observe" => Known(txStmt'.seen)
      /\ txStmt'.pc = "sent" => /\ \A q \in Callers : txCall[q].op # "begin" /\ ~At(q, "sent")
                               /\ txCall["closer"].pc = "idle"
      /\ txStmt'.pc # "idle" => \A q \in Callers : txCall[q].op # "begin"
  <2>1. CASE Statement BY <2>1 DEF Statement, NoStmt, QueueFree, Busy, At, Retired, NoTx
  <2>2. CASE onFinish BY <2>2, CurrentFacts DEF onFinish, NoStmt, NoTx
  <2> QED BY <2>1, <2>2
<1>3. /\ \A g : (LiveTx(g)' <=> LiveTx(g)) /\ (Usable(g)' <=> Usable(g)) /\ (Known(g)' <=> Known(g))
      /\ Connected' <=> Connected /\ \A q \in Callers, s \in STRING : At(q, s)' <=> At(q, s)
  BY <1>1 DEF LiveTx, Known, Unsettled, Usable, Connected, At
<1>4. TxTypeOK' BY <1>1, <1>2 DEF TxInv, TxTypeOK
<1>5. ShapeInv' BY <1>1 DEF TxInv, ShapeInv, Ends
<1>6. HandlesInv' BY <1>1, <1>2 DEF TxInv, HandlesInv, Known
<1>7. WireInv' BY <1>1, <1>2, <1>3 DEF TxInv, WireInv, At
<1>8. BeginInv' BY <1>1, <1>2, <1>3 DEF TxInv, BeginInv, At
<1>9. LiveInv' BY <1>1, <1>3 DEF TxInv, LiveInv, At
<1>10. CloserInv'
  <2>1. txStmt'.pc = "sent" => ~At("closer", "release") BY <1>2 DEF At
  <2> QED BY <1>1, <1>3, <2>1 DEF TxInv, CloserInv, At
<1> QED BY <1>4, <1>5, <1>6, <1>7, <1>8, <1>9, <1>10 DEF TxInv

\* The connection leaves the session.
LEMMA CloseInnerKeeps ==
    ASSUME TxInv, CloseInner
    PROVE  TxInv'
<1> DEFINE r == [txCall["closer"] EXCEPT !.pc = "closed"]
<1>0. "closer" \in Callers BY DEF Callers
<1>1. /\ txCall["closer"].pc = "release" /\ r \in TxCallRecords /\ txCall' = [txCall EXCEPT !["closer"] = r]
      /\ r.op = txCall["closer"].op /\ r.pc = "closed"
      /\ txOwner' = NoTx /\ UNCHANGED <<txActive, txHandle, txStmt, txChoice>>
  BY <1>0 DEF CloseInner, TxGoto, At, TxInv, TxTypeOK, TxCallRecords
<1>2. r.op = "none" BY <1>0, <1>1 DEF TxInv, ShapeInv
<1> HIDE DEF r
<1>3. /\ txCall' \in [Callers -> TxCallRecords] /\ txCall'["closer"] = r
      /\ \A q \in Callers : q # "closer" => txCall'[q] = txCall[q]
  BY <1>0, <1>1, CallSet DEF TxInv
<1>4. /\ txSrv' \in TxServer /\ txSrv'.st \in {"X", "P"}
      /\ txSrv'.st = "P" => \A h \in TxHandles : ~Usable(h)
  <2>1. Gone \in TxServer /\ [st |-> "P", sps |-> <<>>] \in TxServer BY DEF Gone, TxServer
  <2>2. CASE txSrv.st = "I" /\ ~Busy BY <1>1, <2>1, <2>2 DEF CloseInner, TxInv, CloserInv, At
  <2>3. CASE ~(txSrv.st = "I" /\ ~Busy)
    <3>1. txSrv' = Gone BY <2>3 DEF CloseInner
    <3> QED BY <2>1, <3>1 DEF Gone
  <2> QED BY <2>2, <2>3
<1>5. \A g : (LiveTx(g)' <=> LiveTx(g)) /\ (Usable(g)' <=> Usable(g)) /\ (Known(g)' <=> Known(g))
  BY <1>1 DEF LiveTx, Known, Unsettled, Usable
<1>6. TxTypeOK' BY <1>1, <1>3, <1>4 DEF TxInv, TxTypeOK
<1>7. ShapeInv' BY <1>0, <1>1, <1>2, <1>3 DEF TxInv, ShapeInv, Ends
<1>8. HandlesInv' BY <1>0, <1>1, <1>2, <1>3, <1>5 DEF TxInv, HandlesInv, TxCallOps
<1>9. WireInv' BY <1>0, <1>1, <1>2, <1>3, <1>5 DEF TxInv, WireInv, At
<1>10. BeginInv'
  <2>1. \A q \in Callers : txCall'[q].op = "begin" => txCall'[q] = txCall[q] /\ txCall[q].op = "begin" BY <1>2, <1>3
  <2>2. \A q \in Callers : txCall'[q].op # "none" => txCall'[q] = txCall[q] BY <1>2, <1>3
  <2>3. \A q \in Callers : txCall'[q].op = "begin" <=> txCall[q].op = "begin" BY <1>1, <1>3
  <2>4. txSrv'.st # "I" BY <1>4
  <2> SUFFICES ASSUME NEW q \in Callers, txCall'[q].op = "begin" PROVE BeginInv!(q)' BY DEF BeginInv
  <2> QED BY <1>1, <1>3, <1>5, <2>1, <2>2, <2>3, <2>4 DEF TxInv, BeginInv, At
<1>11. LiveInv' BY <1>1, <1>3, <1>5 DEF TxInv, LiveInv, At
<1>12. CloserInv'
  <2>1. ~Connected' BY <1>4 DEF Connected
  <2> QED BY <1>1, <1>2, <1>3, <1>4, <1>5, <2>1 DEF TxInv, CloserInv, At
<1> QED BY <1>6, <1>7, <1>8, <1>9, <1>10, <1>11, <1>12 DEF TxInv

-----------------------------------------
(* The theorem. *)

\* No transaction, no handle.
LEMMA TxInitHolds == TxInit => TxInv
<1> SUFFICES ASSUME TxInit PROVE TxInv OBVIOUS
<1>0. NoTx \notin TxHandles BY TransactionAssumption DEF NoTx
<1>1. IdleTx \in TxServer /\ OffHandle \in TxRecords /\ NoCall \in TxCallRecords
  BY DEF IdleTx, OffHandle, NoCall, TxServer, TxRecords, TxStatus, TxCallRecords
<1>2. TxTypeOK BY <1>1 DEF TxInit, TxTypeOK, NoStmt
<1>3. /\ \A p \in Callers : txCall[p].op = "none" /\ txCall[p].pc = "idle"
      /\ \A h \in TxHandles : txHandle[h].status = "none" /\ ~txHandle[h].dead
      /\ txStmt.pc = "idle" /\ txActive = NoTx /\ txChoice = NoTx /\ txOwner = NoTx /\ txSrv.st = "I"
      /\ "closer" \in Callers
  BY DEF TxInit, NoCall, OffHandle, NoStmt, IdleTx, Callers
<1>4. ShapeInv BY <1>3 DEF ShapeInv, TxCallOps
<1>5. HandlesInv BY <1>3 DEF HandlesInv, TxCallOps
<1>6. WireInv /\ BeginInv BY <1>3 DEF WireInv, BeginInv, At
<1>7. LiveInv /\ CloserInv BY <1>3 DEF LiveInv, CloserInv, At, LiveTx, Unsettled, Usable
<1> QED BY <1>2, <1>4, <1>5, <1>6, <1>7 DEF TxInv

\* A command, the launcher or the closer calls with a handle that was handed out.
LEMMA StartKeeps ==
    ASSUME TxInv, NEW p \in Callers, NEW op \in TxCallOps, NEW h \in TxHandles,
           txCall[p].op \in {"none", "wrap"}, TxCalls(p, op, h),
           Known(h), \A q \in Callers : At(q, "publish") => h # txCall[q].h,
           p = "closer" => op = "rollback" /\ Current = h,
           UNCHANGED <<txSrv, txOwner, txActive, txHandle, txStmt>>, txChoice' \in {txChoice, NoTx}
    PROVE  TxInv'
<1> DEFINE r == [op |-> op, h |-> h, pc |-> "called"]
<1>1. r \in TxCallRecords /\ txCall' = [txCall EXCEPT ![p] = r] /\ r.op = op /\ r.h = h /\ r.pc = "called"
  BY DEF TxCalls, TxCallRecords, TxCallOps
<1> HIDE DEF r
<1>2. p = "closer" => /\ \A q \in Callers : txCall[q].op # "begin"
                     /\ \A g \in TxHandles : LiveTx(g) => g = r.h
  <2> SUFFICES ASSUME p = "closer" PROVE <1>2!2 OBVIOUS
  <2>0. h # NoTx BY TransactionAssumption DEF NoTx
  <2>1. /\ \A q \in Callers : txCall[q].op # "begin"
        /\ h = txActive
    BY <2>0, CurrentFacts
  <2> QED BY <1>1, <2>1 DEF TxInv, LiveInv, ShapeInv, At
<1> QED BY <1>1, <1>2, CallKeeps DEF TxCallOps

\* The commands.
LEMMA CommandKeeps ==
    ASSUME TxInv,
           \/ handleCommit \/ handleRollback \/ handleSavepoint
           \/ handleReleaseSavepoint \/ handleRollbackToSavepoint
           \/ rollbackExplain \/ commitAndQuit \/ rollbackAndQuit \/ CloseRollback
    PROVE  TxInv'
<1>0. /\ {"ui", "launcher", "closer"} \subseteq Callers
      /\ {"commit", "rollback", "savepoint", "release", "rollbackto"} \subseteq TxCallOps
  BY DEF Callers, TxCallOps
<1>1. \A p \in Callers : txCall[p].pc \in {"idle", "loading"} => txCall[p].op = "none" BY DEF TxInv, ShapeInv
<1>2. \A q \in Callers : At(q, "publish") => txCall[q].op = "begin" BY DEF TxInv, ShapeInv, At
<1>3. ASSUME NEW p \in Callers, NEW op \in TxCallOps, txCall[p].pc \in {"idle", "loading"}, Current # NoTx,
             TxCalls(p, op, Current), p = "closer" => op = "rollback",
             UNCHANGED <<txSrv, txOwner, txActive, txHandle, txStmt, txChoice>>
      PROVE  TxInv'
  BY <1>1, <1>2, <1>3, CurrentFacts, StartKeeps
<1>4. CASE handleCommit BY <1>0, <1>3, <1>4 DEF handleCommit, Commanding, At
<1>5. CASE handleRollback BY <1>0, <1>3, <1>5 DEF handleRollback, Commanding, At
<1>6. CASE handleSavepoint BY <1>0, <1>3, <1>6 DEF handleSavepoint, Commanding, At
<1>7. CASE handleReleaseSavepoint \/ handleRollbackToSavepoint
  <2>1. PICK op \in TxCallOps : TxCalls("ui", op, txChoice)
    BY <1>0, <1>7 DEF handleReleaseSavepoint, handleRollbackToSavepoint
  <2>2. /\ At("ui", "idle") /\ txChoice # NoTx /\ txChoice' = NoTx
        /\ UNCHANGED <<txSrv, txOwner, txActive, txHandle, txStmt>>
    BY <1>7 DEF handleReleaseSavepoint, handleRollbackToSavepoint
  <2>3. /\ txChoice \in TxHandles /\ Known(txChoice)
        /\ \A q \in Callers : At(q, "publish") => txChoice # txCall[q].h
    BY <1>2, <2>2 DEF TxInv, TxTypeOK, HandlesInv, BeginInv
  <2> QED BY <1>0, <1>1, <2>1, <2>2, <2>3, StartKeeps DEF At
<1>8. CASE rollbackExplain
  <2> DEFINE h == txCall["launcher"].h
  <2>1. /\ txCall["launcher"].op = "wrap" /\ TxCalls("launcher", "rollback", h)
        /\ UNCHANGED <<txSrv, txOwner, txActive, txHandle, txStmt, txChoice>>
    BY <1>0, <1>8 DEF rollbackExplain, TxInv, ShapeInv, At
  <2>2. h \in TxHandles /\ Known(h) BY <1>0, <2>1 DEF TxInv, HandlesInv, Known
  <2>3. \A q \in Callers : At(q, "publish") => h # txCall[q].h BY <1>0, <1>2, <2>1 DEF TxInv, BeginInv
  <2> HIDE DEF h
  <2> QED BY <1>0, <2>1, <2>2, <2>3, StartKeeps
<1>9. ASSUME NEW op \in TxCallOps, NEW during, NEW left, Ending(op, during, left) PROVE TxInv'
  <2>1. CASE TxCalls("ui", op, Current) /\ Current # NoTx BY <1>0, <1>3, <1>9, <2>1 DEF Ending, At
  <2>2. CASE txCall' = txCall
    <3>1. UNCHANGED <<txSrv, txOwner, txActive, txHandle, txStmt, txChoice, txCall>> BY <1>9, <2>2 DEF Ending
    <3> QED BY <3>1 DEF TxInv, TxTypeOK, ShapeInv, HandlesInv, WireInv, BeginInv, LiveInv, CloserInv,
                        Ends, Known, LiveTx, Unsettled, Usable, Connected, At
  <2> QED BY <1>9, <2>1, <2>2 DEF Ending
<1>10. CASE commitAndQuit BY <1>0, <1>9, <1>10 DEF commitAndQuit
<1>11. CASE rollbackAndQuit BY <1>0, <1>9, <1>11 DEF rollbackAndQuit
<1>12. CASE CloseRollback
  <2>1. CASE Current # NoTx BY <1>0, <1>3, <1>12, <2>1 DEF CloseRollback, At
  <2>2. CASE Current = NoTx
    <3> DEFINE r == [txCall["closer"] EXCEPT !.pc = "release"]
    <3>1. /\ r \in TxCallRecords /\ txCall' = [txCall EXCEPT !["closer"] = r]
          /\ r.op = "none" /\ r.pc = "release" /\ txCall["closer"].op = "none"
          /\ UNCHANGED <<txSrv, txOwner, txActive, txHandle, txStmt, txChoice>>
      BY <1>0, <1>1, <1>12, <2>2 DEF CloseRollback, TxGoto, At, TxInv, TxTypeOK, TxCallRecords
    <3> HIDE DEF r
    <3>2. ASSUME NEW h \in TxHandles, Usable(h) PROVE txSrv.st # "I" /\ txStmt.pc # "sent"
      <4>1. LiveTx(h) /\ txActive # h BY <2>2, <3>2, TransactionAssumption DEF Usable, LiveTx, Unsettled, Current, NoTx
      <4>2. PICK q \in Callers : At(q, "publish") BY <4>1 DEF TxInv, LiveInv
      <4> QED BY <1>2, <4>2 DEF TxInv, BeginInv
    <3> QED BY <1>0, <3>1, <3>2, CallKeeps
  <2> QED BY <2>1, <2>2
<1> QED BY <1>4, <1>5, <1>6, <1>7, <1>8, <1>10, <1>11, <1>12

\* The steps of a call on its way out.
LEMMA TxSendKeeps ==
    ASSUME TxInv, NEW p \in Callers, txSend(p)
    PROVE  TxInv'
<1> DEFINE h == txCall[p].h
           op == txCall[p].op
           refuses == \/ op = "commit" /\ txHandle[h].status # "active"
                      \/ op = "rollback" /\ ~Unsettled(h)
                      \/ txHandle[h].dead
           r == Settled(p)
<1>0. /\ txCall[p].pc = "called" /\ UNCHANGED <<txActive, txStmt, txChoice>> BY DEF txSend, At
<1>1. op \in TxCallOps /\ h \in TxHandles /\ Known(h) BY <1>0 DEF TxInv, ShapeInv, HandlesInv, TxCallOps
<1>2. /\ r \in TxCallRecords /\ r.op = "none" /\ r.pc = IF p = "closer" THEN "release" ELSE "idle"
      /\ Returns(p, FALSE) => txCall' = [txCall EXCEPT ![p] = r]
  BY SettledFacts DEF Returns, Settled
<1>3. CASE refuses /\ Returns(p, FALSE) /\ UNCHANGED <<txSrv, txOwner, txHandle>>
  <2>1. ASSUME p = "closer", NEW g \in TxHandles, Usable(g) PROVE FALSE
    <3>1. op = "rollback" BY <1>1, <2>1 DEF TxInv, CloserInv, TxCallOps
    <3>2. LiveTx(g) BY <2>1 DEF Usable, LiveTx, Unsettled
    <3>3. g = h BY <2>1, <3>1, <3>2 DEF TxInv, CloserInv
    <3> QED BY <1>3, <3>1, <3>2, <3>3 DEF LiveTx
  <2> HIDE DEF refuses, r
  <2>2. op # "begin" BY <1>1 DEF TxCallOps
  <2>3. txChoice' = txChoice /\ UNCHANGED <<txSrv, txOwner, txActive, txHandle, txStmt>> BY <1>0, <1>3
  <2> QED BY <1>2, <1>3, <2>1, <2>2, <2>3, CallKeeps
<1>4. CASE ~refuses /\ ~Busy /\ TxGoto(p, "sent") /\ UNCHANGED <<txSrv, txOwner, txHandle>>
  BY <1>0, <1>1, <1>4, SentKeeps
<1>5. ASSUME ~refuses, Ends(p), txHandle' = [txHandle EXCEPT ![h].dead = TRUE], Returns(p, FALSE),
             \/ txSrv' = Gone /\ txOwner' = NoTx
             \/ ~(Connected /\ (op = "rollback" \/ (op = "commit" /\ txSrv.st # "I"))) /\ UNCHANGED <<txSrv, txOwner>>
      PROVE  TxInv'
  <2>1. txOwner' = NoTx /\ txSrv' \in {txSrv, IdleTx, Gone} BY <1>5 DEF TxInv, LiveInv, Connected, Ends
  <2>2. At("closer", "closed") => txSrv' # IdleTx BY <1>5 DEF TxInv, CloserInv, Connected, IdleTx, Gone
  <2> QED BY <1>0, <1>1, <1>2, <1>5, <2>1, <2>2, ClosedKeeps
<1>6. ASSUME ~refuses, ~Ends(p), txHandle' = txHandle, Returns(p, FALSE), UNCHANGED <<txSrv, txOwner>>
      PROVE  TxInv'
  <2>1. p # "closer" BY <1>1, <1>6 DEF TxInv, CloserInv, Ends, TxCallOps
  <2>2. op # "begin" BY <1>1 DEF TxCallOps
  <2> HIDE DEF refuses, r
  <2> QED BY <1>0, <1>2, <1>6, <2>1, <2>2, CallKeeps
<1>7. Ends(p) <=> op \in {"commit", "rollback"} BY DEF Ends
<1>8. CASE /\ ~refuses
           /\ txHandle' = IF Ends(p) THEN [txHandle EXCEPT ![h].dead = TRUE] ELSE txHandle
           /\ IF Connected /\ (op = "rollback" \/ (op = "commit" /\ txSrv.st # "I"))
                THEN txSrv' = Gone /\ txOwner' = NoTx ELSE UNCHANGED <<txSrv, txOwner>>
           /\ Returns(p, FALSE)
  <2> HIDE DEF refuses, r, h, op
  <2> QED BY <1>5, <1>6, <1>7, <1>8
<1> QED BY <1>3, <1>4, <1>8 DEF txSend

\* The answers on the way back.
LEMMA AnswersKeep ==
    ASSUME TxInv, NEW p \in Callers, EndAnswer(p) \/ StoreStatus(p) \/ SavepointAnswer(p)
    PROVE  TxInv'
<1> DEFINE h == txCall[p].h
           op == txCall[p].op
           r == Settled(p)
<1>2. /\ r \in TxCallRecords /\ r.op = "none" /\ r.pc = IF p = "closer" THEN "release" ELSE "idle"
      /\ \A ok : Returns(p, ok) => txCall' = [txCall EXCEPT ![p] = r]
  BY SettledFacts DEF Returns, Settled
<1>3. CASE EndAnswer(p)
  <2>1. /\ txCall[p].pc = "sent" /\ op \in {"commit", "rollback"} /\ op \in TxCallOps
        /\ txHandle' = [txHandle EXCEPT ![h].dead = TRUE] /\ txOwner' = NoTx
        /\ UNCHANGED <<txActive, txStmt, txChoice>> /\ txSrv' \in {txSrv, IdleTx, Gone}
        /\ txSrv' = IdleTx => Connected \/ txSrv' = Gone
    BY <1>3 DEF EndAnswer, At, Ends, TxCallOps
  <2>2. At("closer", "closed") => txSrv' # IdleTx BY <2>1 DEF TxInv, CloserInv, IdleTx, Gone
  <2>3. CASE TxGoto(p, "status")
    <3> DEFINE t == [txCall[p] EXCEPT !.pc = "status"]
    <3>1. /\ t \in TxCallRecords /\ txCall' = [txCall EXCEPT ![p] = t]
          /\ t.op = op /\ t.h = h /\ t.pc = "status"
      BY <2>3 DEF TxGoto, TxInv, TxTypeOK, TxCallRecords
    <3> HIDE DEF t
    <3> QED BY <2>1, <2>2, <3>1, ClosedKeeps DEF At
  <2>4. CASE Returns(p, FALSE) BY <1>2, <2>1, <2>2, <2>4, ClosedKeeps DEF At
  <2> QED BY <1>3, <2>3, <2>4 DEF EndAnswer
<1>4. CASE StoreStatus(p)
  <2> DEFINE status == IF op = "commit" THEN "committed" ELSE "rolledback"
  <2>1. /\ txCall[p].pc = "status" /\ txHandle' = [txHandle EXCEPT ![h].status = status]
        /\ TxGoto(p, "terminate") /\ UNCHANGED <<txSrv, txOwner, txActive, txStmt, txChoice>>
    BY <1>4 DEF StoreStatus, At
  <2>2. op \in {"commit", "rollback"} /\ Known(h) /\ txHandle[h].dead
    BY <2>1 DEF TxInv, ShapeInv, HandlesInv, WireInv, Ends, TxCallOps
  <2>3. status \in TxStatus \ {"none", "active"} /\ h \in TxHandles BY <2>2 DEF TxStatus, Known
  <2> HIDE DEF status, h
  <2> QED BY <2>1, <2>2, <2>3, StatusKeeps
<1>5. CASE SavepointAnswer(p)
  <2>1. /\ txCall[p].pc = "sent" /\ op \in {"savepoint", "release", "rollbackto"} /\ op \in TxCallOps
        /\ UNCHANGED <<txOwner, txActive, txStmt, txChoice>>
        /\ txCall' = [txCall EXCEPT ![p] = r]
    BY <1>2, <1>5 DEF SavepointAnswer, At, TxCallOps
  <2>2. h \in TxHandles /\ txHandle[h].sps \in SUBSET TxNames BY <2>1 DEF TxInv, ShapeInv, TxTypeOK, TxRecords
  <2>3. PICK n \in TxNames :
          /\ txSrv' = IF ~Connected THEN txSrv
                      ELSE CASE op = "savepoint" -> SrvSavepoint(n)
                             [] op = "release" -> SrvRelease(n)
                             [] OTHER -> SrvRollbackTo(n)
          /\ txHandle' \in {txHandle, [txHandle EXCEPT ![h].sps = @ \cup {n}], [txHandle EXCEPT ![h].sps = @ \ {n}]}
    BY <1>5, <2>2 DEF SavepointAnswer
  <2>4. txSrv' = txSrv \/ (Connected /\ txSrv' \in {SrvSavepoint(n), SrvRelease(n), SrvRollbackTo(n)}) BY <2>1, <2>3
  <2>5. txSrv' \in TxServer BY <2>4, ServerType DEF TxInv, TxTypeOK
  <2>6. txSrv'.st = txSrv.st \/ (txSrv.st \in {"T", "E"} /\ txSrv'.st \in {"T", "E"})
    BY <2>4 DEF SrvSavepoint, SrvRelease, SrvRollbackTo, Connected, TxInv, TxTypeOK, TxServer
  <2>7. \E s \in SUBSET TxNames : txHandle' = [txHandle EXCEPT ![h].sps = s] \/ txHandle' = txHandle
    <3>1. txHandle[h].sps \cup {n} \in SUBSET TxNames /\ txHandle[h].sps \ {n} \in SUBSET TxNames BY <2>2
    <3> QED BY <2>3, <3>1
  <2>8. p # "closer" BY <2>1 DEF TxInv, CloserInv
  <2>9. r = NoCall BY <2>8 DEF Settled
  <2>10. txHandle' = txHandle \/ \E g \in TxHandles, s \in SUBSET TxNames : txHandle' = [txHandle EXCEPT ![g].sps = s]
    BY <2>2, <2>7
  <2> HIDE DEF h, op, r
  <2>11. \E q \in Callers \ {"closer"} : txCall[q].op \in TxCallOps /\ txCall' = [txCall EXCEPT ![q] = NoCall]
    BY <2>1, <2>8, <2>9 DEF op
  <2> QED BY <2>1, <2>5, <2>6, <2>10, <2>11, ServerKeeps
<1> QED BY <1>3, <1>4, <1>5

\* A step of the statement's, or of the program's end, that leaves the calls alone.
LEMMA TxStepKeeps == TxInv /\ [TxNext]_txVars => TxInv'
<1> SUFFICES ASSUME TxInv, [TxNext]_txVars PROVE TxInv' OBVIOUS
<1>0. {"ui", "launcher", "closer"} \subseteq Callers BY DEF Callers
<1>1. ASSUME UNCHANGED <<txSrv, txOwner, txActive, txHandle, txCall, txStmt>>, txChoice' \in {txChoice, NoTx, Current}
      PROVE  TxInv'
  <2> DEFINE r == NoCall
  <2>1. CASE Current = NoTx \/ txChoice' # Current
    BY <1>1, <2>1, TransactionAssumption
    DEF TxInv, TxTypeOK, ShapeInv, HandlesInv, WireInv, BeginInv, LiveInv, CloserInv,
        Ends, Known, LiveTx, Unsettled, Usable, Connected, At, NoTx
  <2>2. CASE Current # NoTx /\ txChoice' = Current
    BY <1>1, <2>2, CurrentFacts
    DEF TxInv, TxTypeOK, ShapeInv, HandlesInv, WireInv, BeginInv, LiveInv, CloserInv,
        Ends, Known, LiveTx, Unsettled, Usable, Connected, At
  <2> QED BY <2>1, <2>2
<1>2. CASE UNCHANGED txVars BY <1>1, <1>2 DEF txVars
<1>3. CASE txChoose \/ txDismiss \/ Quit \/ quitAborted BY <1>1, <1>3 DEF txChoose, txDismiss, Quit, quitAborted
<1>4. CASE markWrap
  <2> DEFINE r == [txCall["launcher"] EXCEPT !.pc = "wrapped"]
  <2>1. /\ r \in TxCallRecords /\ txCall' = [txCall EXCEPT !["launcher"] = r]
        /\ r.op = "wrap" /\ r.pc = "wrapped" /\ r.h = txCall["launcher"].h /\ txCall["launcher"].op = "wrap"
        /\ UNCHANGED <<txSrv, txOwner, txActive, txHandle, txStmt, txChoice>>
    BY <1>0, <1>4 DEF markWrap, TxGoto, At, TxInv, TxTypeOK, TxCallRecords, ShapeInv
  <2> HIDE DEF r
  <2>2. Known(r.h) BY <1>0, <2>1 DEF TxInv, HandlesInv
  <2>3. \A q \in Callers : At(q, "publish") => r.h # txCall[q].h BY <1>0, <2>1 DEF TxInv, BeginInv, ShapeInv, At
  <2> QED BY <1>0, <2>1, <2>2, <2>3, CallKeeps
<1>5. CASE txClose
  <2> DEFINE r == [txCall["closer"] EXCEPT !.pc = "loading"]
  <2>1. /\ r \in TxCallRecords /\ txCall' = [txCall EXCEPT !["closer"] = r]
        /\ r.op = "none" /\ r.pc = "loading" /\ txCall["closer"].op = "none"
        /\ UNCHANGED <<txSrv, txOwner, txActive, txHandle, txStmt, txChoice>>
    BY <1>0, <1>5 DEF txClose, TxGoto, At, TxInv, TxTypeOK, TxCallRecords, ShapeInv
  <2> HIDE DEF r
  <2> QED BY <1>0, <2>1, CallKeeps
<1>6. CASE RawSQL
  <2>1. /\ UNCHANGED <<txActive, txCall, txHandle, txChoice>> /\ txStmt.pc = "sent"
        /\ txStmt' \in [pc : {"idle", "refused"}, seen : {NoTx}]
    BY <1>6 DEF RawSQL, NoStmt
  <2>2. /\ txSrv' \in TxServer
        /\ \/ txOwner' = txOwner /\ (txSrv'.st = txSrv.st \/ (txSrv.st \in {"T", "E"} /\ txSrv'.st \in {"T", "E"}))
           \/ txOwner' = NoTx /\ txSrv.st \in {"I", "T", "E"} /\ txSrv'.st \in {"I", "T"}
    <3>1. txSrv \in TxServer /\ [st |-> "T", sps |-> <<>>] \in TxServer /\ IdleTx \in TxServer
      BY DEF TxInv, TxTypeOK, TxServer, IdleTx
    <3>2. [txSrv EXCEPT !.st = "E"] \in TxServer /\ [txSrv EXCEPT !.st = "E"].st = "E" BY <3>1 DEF TxServer
    <3>3. txSrv' \in TxServer BY <1>6, <3>1, <3>2 DEF RawSQL
    <3>4. IdleTx.st = "I" /\ [st |-> "T", sps |-> <<>>].st = "T" BY DEF IdleTx
    <3>5. /\ txSrv'.st = txSrv.st \/ txSrv' \in {IdleTx, [st |-> "T", sps |-> <<>>], [txSrv EXCEPT !.st = "E"]}
          /\ txOwner' = txOwner \/ (txOwner' = NoTx /\ txSrv.st \in {"I", "T", "E"} /\ txSrv' \in {IdleTx, [st |-> "T", sps |-> <<>>]})
          /\ txOwner' = txOwner => txSrv' = txSrv \/ (txSrv.st = "T" /\ txSrv' = [txSrv EXCEPT !.st = "E"])
                                   \/ (txOwner' = NoTx /\ txSrv.st \in {"I", "T", "E"} /\ txSrv' \in {IdleTx, [st |-> "T", sps |-> <<>>]})
      BY <1>6 DEF RawSQL
    <3> QED BY <3>2, <3>3, <3>4, <3>5
  <2> QED BY <2>1, <2>2, ServerKeeps
<1>7. CASE ObserveError
  <2>1. /\ txStmt.pc = "observe" /\ txHandle' = [txHandle EXCEPT ![txStmt.seen].status = "aborted"]
        /\ txStmt' = NoStmt /\ UNCHANGED <<txSrv, txOwner, txActive, txCall, txChoice>>
    BY <1>7 DEF ObserveError
  <2>2. txStmt.seen \in TxHandles /\ Known(txStmt.seen) BY <2>1 DEF TxInv, HandlesInv, Known
  <2>3. "aborted" \in TxStatus \ {"none", "active"} BY DEF TxStatus
  <2> QED BY <2>1, <2>2, <2>3, StatusKeeps
<1>8. ASSUME NEW p \in Callers
      PROVE  /\ p # "closer" /\ (BeginAnswer(p) \/ BeginPublish(p) \/ \E h \in TxHandles : Begin(p, h)) => TxInv'
             /\ txSend(p) \/ EndAnswer(p) \/ StoreStatus(p) \/ onTerminate(p) \/ SavepointAnswer(p) => TxInv'
  BY <1>8, BeginKeeps, AnswerKeeps, TxPublishKeeps, TxSendKeeps, AnswersKeep, TerminateKeeps
<1> QED BY <1>2, <1>3, <1>4, <1>5, <1>6, <1>7, <1>8, CommandKeeps, StatementKeeps, CloseInnerKeeps DEF TxNext

\* TxInv of every reachable state: the invariant that OneHandleEnds rests on (Begin,
\* Commit, Rollback, ObserveError and Close of the session and its driver).
THEOREM TxInvariant == TxSpec => []TxInv
<1> QED BY TxInitHolds, TxStepKeeps, PTL DEF TxSpec

\* The invariant gives the property.
LEMMA OneHandle == TxInv => OneHandleEnds
<1> SUFFICES ASSUME TxInv PROVE OneHandleEnds OBVIOUS
<1> DEFINE S == {h \in TxHandles : LiveTx(h)}
<1>1. Cardinality(S) <= 1
  <2>1. CASE S = {} BY <2>1, FS_EmptySet
  <2>2. CASE S # {}
    <3>1. PICK h \in S : TRUE BY <2>2
    <3>2. S = {h} BY <3>1 DEF TxInv, LiveInv
    <3> HIDE DEF S
    <3>3. Cardinality(S) = 1 BY <3>2, FS_Singleton
    <3> QED BY <3>3
  <2> QED BY <2>1, <2>2
<1>2. ASSUME NEW p \in Callers, At(p, "sent") PROVE txOwner \in {NoTx, txCall[p].h}
  <2>1. txOwner # NoTx => txOwner \in TxHandles /\ LiveTx(txOwner) BY DEF TxInv, LiveInv, TxTypeOK
  <2> QED BY <1>2, <2>1 DEF TxInv, WireInv, BeginInv
<1>3. \A h \in TxHandles : LiveTx(h) => txActive = h \/ \E p \in Callers : At(p, "publish") /\ txCall[p].h = h
  BY DEF TxInv, LiveInv
<1>4. txOwner # NoTx => LiveTx(txOwner) BY DEF TxInv, LiveInv
<1>5. txSrv.st = "P" => \A h \in TxHandles : txHandle[h].status = "active" => txHandle[h].dead
  BY DEF TxInv, CloserInv, Usable
<1> HIDE DEF S
<1> QED BY <1>1, <1>2, <1>3, <1>4, <1>5 DEF OneHandleEnds, S

\* One live handle, known to whoever may settle it (the session's transaction,
\* pkg/drivers/pg/transaction.go and session.go).
THEOREM OneHandleTheorem == TxSpec => []OneHandleEnds
<1> QED BY TxInvariant, OneHandle, PTL

-----------------------------------------
(* The query history. *)

HyCalls == {"idle", "full", "evicted", "returned"}

HistoryTypeOK ==
    /\ hyCall \in [HyEntries -> HyCalls]
    /\ hyCh \in Seq(HyEntries) /\ hyBatch \in Seq(HyEntries)
    /\ hyWriter \in {"select", "drain", "done"}
    /\ hyStop \subseteq HyEntries
    /\ hyClose \in {"idle", "waiting", "returned"}

Distinct(s) == \A i, j \in 1..Len(s) : s[i] = s[j] => i = j

\* An entry whose Record has returned is in one place, and no other entry is in any.
PlacesInv ==
    /\ Distinct(hyCh) /\ Distinct(hyBatch) /\ HyRange(hyCh) \cap HyRange(hyBatch) = {}
    /\ Queued \cap (hyDb \cup hyLost) = {} /\ hyDb \cap hyLost = {}
    /\ \A e \in HyEntries : hyCall[e] = "returned" <=> e \in Queued \cup hyDb \cup hyLost

\* What was recorded before Close is gone from the queue when the writer ends.
DrainInv ==
    /\ \A e \in hyStop : hyCall[e] = "returned"
    /\ hyWriter # "select" => hyClose # "idle"
    /\ hyWriter = "done" => hyStop \cap Queued = {}
    /\ hyClose = "returned" => hyWriter = "done"

HyInv == HistoryTypeOK /\ PlacesInv /\ DrainInv

\* A sequence of distinct entries.
LEMMA RangeOfDistinct ==
    ASSUME NEW S, NEW s \in Seq(S), Distinct(s)
    PROVE  IsFiniteSet(HyRange(s)) /\ Cardinality(HyRange(s)) = Len(s)
<1>1. Len(s) \in Nat /\ DOMAIN s = 1..Len(s) /\ s \in [1..Len(s) -> S] BY LenProperties
<1>2. s \in Bijection(1..Len(s), HyRange(s))
  BY <1>1 DEF Bijection, Injection, Surjection, IsInjective, Distinct, HyRange
<1>3. ExistsBijection(1..Len(s), HyRange(s)) BY <1>2 DEF ExistsBijection
<1>4. IsFiniteSet(1..Len(s)) /\ Cardinality(1..Len(s)) = Len(s) BY <1>1, FS_Interval
<1> QED BY <1>3, <1>4, FS_Bijection

LEMMA RangeOfAppend ==
    ASSUME NEW S, NEW s \in Seq(S), NEW e \in S
    PROVE  /\ Append(s, e) \in Seq(S)
           /\ HyRange(Append(s, e)) = HyRange(s) \cup {e}
           /\ Distinct(s) /\ e \notin HyRange(s) => Distinct(Append(s, e))
<1> DEFINE u == Append(s, e)
<1>1. /\ Len(s) \in Nat /\ DOMAIN s = 1..Len(s)
      /\ u \in Seq(S) /\ Len(u) = Len(s) + 1 /\ DOMAIN u = 1..Len(u)
      /\ \A i \in 1..Len(s) : u[i] = s[i]
      /\ u[Len(u)] = e
  BY LenProperties, AppendProperties
<1> HIDE DEF u
<1>2. HyRange(u) = HyRange(s) \cup {e}
  <2>1. \A x : x \in HyRange(u) => x \in HyRange(s) \cup {e} BY <1>1 DEF HyRange
  <2>2. \A x \in HyRange(s) : x \in HyRange(u) BY <1>1 DEF HyRange
  <2>3. e \in HyRange(u) BY <1>1 DEF HyRange
  <2> QED BY <2>1, <2>2, <2>3
<1>3. Distinct(s) /\ e \notin HyRange(s) => Distinct(u)
  <2> SUFFICES ASSUME Distinct(s), e \notin HyRange(s), NEW i \in 1..Len(u), NEW j \in 1..Len(u),
                      u[i] = u[j]
               PROVE  i = j
    BY DEF Distinct
  <2>1. \A k \in 1..Len(s) : u[k] # e BY <1>1 DEF HyRange
  <2> QED BY <1>1, <2>1 DEF Distinct
<1> QED BY <1>1, <1>2, <1>3 DEF u

LEMMA RangeOfTail ==
    ASSUME NEW S, NEW s \in Seq(S), s # <<>>, Distinct(s)
    PROVE  /\ Head(s) \in S /\ Head(s) \in HyRange(s)
           /\ Tail(s) \in Seq(S) /\ Distinct(Tail(s))
           /\ HyRange(Tail(s)) = HyRange(s) \ {Head(s)}
<1> DEFINE u == Tail(s)
<1>1. /\ Len(s) \in Nat \ {0} /\ DOMAIN s = 1..Len(s)
      /\ u \in Seq(S) /\ Len(u) = Len(s) - 1 /\ DOMAIN u = 1..Len(u)
      /\ \A i \in 1..Len(u) : u[i] = s[i + 1]
      /\ Head(s) = s[1] /\ Head(s) \in S
  BY LenProperties, HeadTailProperties, EmptySeq
<1> HIDE DEF u
<1>2. Distinct(u) BY <1>1 DEF Distinct
<1>3. \A x : x \in HyRange(u) => x \in HyRange(s) \ {Head(s)} BY <1>1 DEF HyRange, Distinct
<1>4. ASSUME NEW x \in HyRange(s), x # Head(s)
      PROVE  x \in HyRange(u)
  <2>1. PICK i \in 1..Len(s) : x = s[i] BY <1>1 DEF HyRange
  <2>2. i - 1 \in 1..Len(u) /\ u[i - 1] = x BY <1>1, <1>4, <2>1
  <2> QED BY <1>1, <2>2 DEF HyRange
<1>5. Head(s) \in HyRange(s) BY <1>1 DEF HyRange
<1>6. HyRange(u) = HyRange(s) \ {Head(s)} BY <1>3, <1>4
<1> QED BY <1>1, <1>2, <1>5, <1>6 DEF u

LEMMA HistoryStart == HistoryInit => HyInv
<1> SUFFICES ASSUME HistoryInit PROVE HyInv OBVIOUS
<1>1. HyRange(<<>>) = {} BY DEF HyRange
<1>2. Distinct(<<>>) BY DEF Distinct
<1> QED BY <1>1, <1>2 DEF HistoryInit, HyInv, HistoryTypeOK, HyCalls, PlacesInv, DrainInv, Queued

\* Writing a batch, or losing it, moves its entries and nothing else.
LEMMA FlushMoves ==
    ASSUME NEW batch, hyFlush(batch)
    PROVE  /\ hyBatch' = <<>>
           /\ \/ hyDb' = hyDb \cup HyRange(batch) /\ hyLost' = hyLost
              \/ hyDb' = hyDb /\ hyLost' = hyLost \cup HyRange(batch)
BY DEF hyFlush

\* What an operation takes out of queue or batch it puts into the table or among
\* the lost.
LEMMA HistoryStep == HyInv /\ [HistoryNext]_historyVars => HyInv'
<1> SUFFICES ASSUME HyInv, [HistoryNext]_historyVars PROVE HyInv' OBVIOUS
<1> USE DEF HyInv
<1>0. /\ HyRange(<<>>) = {} /\ Distinct(<<>>) /\ <<>> \in Seq(HyEntries) BY DEF HyRange, Distinct
<1>t. HistoryTypeOK /\ PlacesInv /\ DrainInv OBVIOUS
<1>1. ASSUME NEW e \in HyEntries, enqueue(e) PROVE HyInv'
  <2>1. hyCall[e] = "idle" /\ e \notin Queued \cup hyDb \cup hyLost BY <1>1, <1>t DEF enqueue, PlacesInv
  <2>2. CASE Len(hyCh) < HyCap
    <3>1. /\ hyCh' = Append(hyCh, e) /\ hyCall' = [hyCall EXCEPT ![e] = "returned"]
          /\ UNCHANGED <<hyBatch, hyWriter, hyStop, hyClose, hyDb, hyLost>>
      BY <1>1, <2>2 DEF enqueue
    <3>2. /\ hyCh' \in Seq(HyEntries) /\ HyRange(hyCh') = HyRange(hyCh) \cup {e} /\ Distinct(hyCh')
      BY <1>t, <2>1, <3>1, RangeOfAppend DEF HistoryTypeOK, PlacesInv, Queued
    <3>3. /\ hyCall' \in [HyEntries -> HyCalls]
          /\ \A d \in HyEntries : hyCall'[d] = IF d = e THEN "returned" ELSE hyCall[d]
      BY <1>t, <3>1 DEF HistoryTypeOK, HyCalls
    <3>4. HistoryTypeOK' BY <1>t, <3>1, <3>2, <3>3 DEF HistoryTypeOK
    <3>5. PlacesInv' BY <1>t, <2>1, <3>1, <3>2, <3>3 DEF PlacesInv, Queued
    <3>6. DrainInv' BY <1>t, <2>1, <3>1, <3>2, <3>3 DEF DrainInv, Queued, HistoryTypeOK
    <3> QED BY <3>4, <3>5, <3>6
  <2>3. CASE ~(Len(hyCh) < HyCap)
    <3>1. /\ hyCall' = [hyCall EXCEPT ![e] = "full"]
          /\ UNCHANGED <<hyCh, hyBatch, hyWriter, hyStop, hyClose, hyDb, hyLost>>
      BY <1>1, <2>3 DEF enqueue
    <3>2. /\ hyCall' \in [HyEntries -> HyCalls]
          /\ \A d \in HyEntries : hyCall'[d] = "returned" <=> hyCall[d] = "returned"
      BY <1>t, <2>1, <3>1 DEF HistoryTypeOK, HyCalls
    <3> QED BY <1>t, <3>1, <3>2 DEF HistoryTypeOK, PlacesInv, DrainInv, Queued
  <2> QED BY <2>2, <2>3
<1>2. ASSUME NEW e \in HyEntries, dropOldest(e) PROVE HyInv'
  <2>1. /\ hyCall[e] = "full" /\ hyCall' = [hyCall EXCEPT ![e] = "evicted"]
        /\ UNCHANGED <<hyBatch, hyWriter, hyStop, hyClose, hyDb>>
    BY <1>2 DEF dropOldest
  <2>2. /\ hyCall' \in [HyEntries -> HyCalls]
        /\ \A d \in HyEntries : hyCall'[d] = "returned" <=> hyCall[d] = "returned"
    BY <1>t, <2>1 DEF HistoryTypeOK, HyCalls
  <2>3. CASE hyCh = <<>>
    <3>1. hyCh' = hyCh /\ hyLost' = hyLost BY <1>2, <2>3 DEF dropOldest
    <3> QED BY <1>t, <2>1, <2>2, <3>1 DEF HistoryTypeOK, PlacesInv, DrainInv, Queued
  <2>4. CASE hyCh # <<>>
    <3>1. hyCh' = Tail(hyCh) /\ hyLost' = hyLost \cup {Head(hyCh)} BY <1>2, <2>4 DEF dropOldest
    <3>2. /\ Head(hyCh) \in HyRange(hyCh) /\ hyCh' \in Seq(HyEntries) /\ Distinct(hyCh')
          /\ HyRange(hyCh') = HyRange(hyCh) \ {Head(hyCh)}
      BY <1>t, <2>4, <3>1, RangeOfTail DEF HistoryTypeOK, PlacesInv
    <3>3. HistoryTypeOK' /\ DrainInv' BY <1>t, <2>1, <2>2, <3>2 DEF HistoryTypeOK, DrainInv, Queued
    <3>4. PlacesInv' BY <1>t, <2>1, <2>2, <3>1, <3>2 DEF PlacesInv, Queued
    <3> QED BY <3>3, <3>4
  <2> QED BY <2>3, <2>4
<1>3. ASSUME NEW e \in HyEntries, andEnqueue(e) PROVE HyInv'
  <2>1. /\ hyCall[e] = "evicted" /\ e \notin Queued \cup hyDb \cup hyLost
        /\ hyCall' = [hyCall EXCEPT ![e] = "returned"]
        /\ UNCHANGED <<hyBatch, hyWriter, hyStop, hyClose, hyDb>>
    BY <1>3, <1>t DEF andEnqueue, PlacesInv
  <2>2. /\ hyCall' \in [HyEntries -> HyCalls]
        /\ \A d \in HyEntries : hyCall'[d] = IF d = e THEN "returned" ELSE hyCall[d]
    BY <1>t, <2>1 DEF HistoryTypeOK, HyCalls
  <2>3. CASE Len(hyCh) < HyCap
    <3>1. hyCh' = Append(hyCh, e) /\ hyLost' = hyLost BY <1>3, <2>3 DEF andEnqueue
    <3>2. /\ hyCh' \in Seq(HyEntries) /\ HyRange(hyCh') = HyRange(hyCh) \cup {e} /\ Distinct(hyCh')
      BY <1>t, <2>1, <3>1, RangeOfAppend DEF HistoryTypeOK, PlacesInv, Queued
    <3>3. HistoryTypeOK' BY <1>t, <2>1, <2>2, <3>1, <3>2 DEF HistoryTypeOK
    <3>4. PlacesInv' BY <1>t, <2>1, <2>2, <3>1, <3>2 DEF PlacesInv, Queued
    <3>5. DrainInv' BY <1>t, <2>1, <2>2, <3>1, <3>2 DEF DrainInv, Queued, HistoryTypeOK
    <3> QED BY <3>3, <3>4, <3>5
  <2>4. CASE ~(Len(hyCh) < HyCap)
    <3>1. hyCh' = hyCh /\ hyLost' = hyLost \cup {e} BY <1>3, <2>4 DEF andEnqueue
    <3>2. HistoryTypeOK' /\ DrainInv' BY <1>t, <2>1, <2>2, <3>1 DEF HistoryTypeOK, DrainInv, Queued
    <3>3. PlacesInv' BY <1>t, <2>1, <2>2, <3>1 DEF PlacesInv, Queued
    <3> QED BY <3>2, <3>3
  <2> QED BY <2>3, <2>4
<1>4. ASSUME NEW a \in HyAppends, AppendHistory(a) PROVE HyInv'
  <2>1. /\ a \notin hyDb \cup hyLost /\ a \notin HyEntries
        /\ \/ hyDb' = hyDb \cup {a} /\ hyLost' = hyLost
           \/ hyLost' = hyLost \cup {a} /\ hyDb' = hyDb
        /\ UNCHANGED <<hyCall, hyCh, hyBatch, hyWriter, hyStop, hyClose>>
    BY <1>4, HistoryAssumption DEF AppendHistory
  <2>2. Queued \subseteq HyEntries BY <1>t, LenProperties DEF HistoryTypeOK, Queued, HyRange
  <2>3. HistoryTypeOK' /\ DrainInv' BY <1>t, <2>1 DEF HistoryTypeOK, DrainInv, Queued
  <2>4. PlacesInv' BY <1>t, <2>1, <2>2 DEF PlacesInv, Queued
  <2> QED BY <2>3, <2>4
<1>5. CASE hyTake
  <2> DEFINE h == Head(hyCh)
             batch == Append(hyBatch, h)
  <2>1. /\ hyCh # <<>> /\ hyCh' = Tail(hyCh)
        /\ UNCHANGED <<hyCall, hyWriter, hyStop, hyClose>>
        /\ \/ hyFlush(batch)
           \/ hyBatch' = batch /\ hyDb' = hyDb /\ hyLost' = hyLost
    BY <1>5 DEF hyTake
  <2>2. /\ h \in HyEntries /\ h \in HyRange(hyCh) /\ hyCh' \in Seq(HyEntries) /\ Distinct(hyCh')
        /\ HyRange(hyCh') = HyRange(hyCh) \ {h}
    BY <1>t, <2>1, RangeOfTail DEF HistoryTypeOK, PlacesInv
  <2>3. h \notin HyRange(hyBatch) BY <1>t, <2>2 DEF PlacesInv
  <2>4. batch \in Seq(HyEntries) /\ HyRange(batch) = HyRange(hyBatch) \cup {h} /\ Distinct(batch)
    BY <1>t, <2>2, <2>3, RangeOfAppend DEF HistoryTypeOK, PlacesInv
  <2> HIDE DEF batch, h
  <2>5. \/ /\ hyBatch' = <<>>
           /\ \/ hyDb' = hyDb \cup HyRange(batch) /\ hyLost' = hyLost
              \/ hyDb' = hyDb /\ hyLost' = hyLost \cup HyRange(batch)
        \/ hyBatch' = batch /\ hyDb' = hyDb /\ hyLost' = hyLost
    BY <2>1, FlushMoves
  <2>6. HistoryTypeOK' BY <1>t, <1>0, <2>1, <2>2, <2>4, <2>5 DEF HistoryTypeOK
  <2>7. CASE hyBatch' = batch /\ hyDb' = hyDb /\ hyLost' = hyLost
    <3>1. Queued' = Queued BY <2>2, <2>4, <2>7 DEF Queued
    <3>2. HyRange(hyBatch') = HyRange(hyBatch) \cup {h} /\ Distinct(hyBatch') BY <2>4, <2>7
    <3>3. PlacesInv' BY <1>t, <2>1, <2>2, <2>7, <3>1, <3>2 DEF PlacesInv
    <3>4. DrainInv' BY <1>t, <2>1, <3>1 DEF DrainInv
    <3> QED BY <2>6, <3>3, <3>4
  <2>8. CASE /\ hyBatch' = <<>>
             /\ \/ hyDb' = hyDb \cup HyRange(batch) /\ hyLost' = hyLost
                \/ hyDb' = hyDb /\ hyLost' = hyLost \cup HyRange(batch)
    <3>1. HyRange(hyBatch') = {} /\ Distinct(hyBatch') BY <1>0, <2>8
    <3>2. Queued' = Queued \ HyRange(batch) /\ HyRange(batch) \subseteq Queued
      BY <1>t, <2>2, <2>4, <3>1 DEF Queued, PlacesInv
    <3>3. PlacesInv' BY <1>t, <2>1, <2>2, <2>8, <3>1, <3>2 DEF PlacesInv
    <3>4. DrainInv' BY <1>t, <2>1, <3>2 DEF DrainInv
    <3> QED BY <2>6, <3>3, <3>4
  <2> QED BY <2>5, <2>7, <2>8
<1>6. CASE hyTick \/ drainAndFlush
  <2>1. /\ hyBatch' = <<>> /\ hyCh' = hyCh
        /\ UNCHANGED <<hyCall, hyStop, hyClose>>
        /\ \/ hyDb' = hyDb \cup HyRange(hyBatch) /\ hyLost' = hyLost
           \/ hyDb' = hyDb /\ hyLost' = hyLost \cup HyRange(hyBatch)
        /\ \/ hyWriter' = hyWriter
           \/ hyWriter = "drain" /\ hyWriter' = "done" /\ hyCh = <<>>
    BY <1>6, FlushMoves DEF hyTick, drainAndFlush
  <2>2. HyRange(hyBatch') = {} /\ Distinct(hyBatch') BY <1>0, <2>1
  <2>3. Queued' = Queued \ HyRange(hyBatch) /\ HyRange(hyBatch) \subseteq Queued
    BY <1>t, <2>1, <2>2 DEF Queued, PlacesInv
  <2>4. HistoryTypeOK' BY <1>t, <1>0, <2>1 DEF HistoryTypeOK
  <2>5. PlacesInv' BY <1>t, <2>1, <2>2, <2>3 DEF PlacesInv
  <2>6. hyCh = <<>> => Queued' = {} BY <1>0, <2>1, <2>2 DEF Queued
  <2>7. DrainInv' BY <1>t, <2>1, <2>3, <2>6 DEF DrainInv
  <2> QED BY <2>4, <2>5, <2>7
<1>7. CASE hySeesStop \/ hyCloseReturn
  BY <1>7, <1>t DEF hySeesStop, hyCloseReturn, HistoryTypeOK, PlacesInv, DrainInv, Queued
<1>8. CASE hyCloseCall
  <2>1. /\ hyStop' = {e \in HyEntries : hyCall[e] = "returned"} /\ hyClose = "idle" /\ hyClose' = "waiting"
        /\ UNCHANGED <<hyCall, hyCh, hyBatch, hyWriter, hyDb, hyLost>>
    BY <1>8 DEF hyCloseCall
  <2> QED BY <1>t, <2>1 DEF HistoryTypeOK, PlacesInv, DrainInv, Queued
<1>9. CASE UNCHANGED historyVars BY <1>9, <1>t DEF historyVars, HistoryTypeOK, PlacesInv, DrainInv, Queued
<1> QED BY <1>1, <1>2, <1>3, <1>4, <1>5, <1>6, <1>7, <1>8, <1>9 DEF HistoryNext

LEMMA HistoryFollows == HyInv => HistoryAccounted
<1> SUFFICES ASSUME HyInv PROVE HistoryAccounted OBVIOUS
<1> USE DEF HyInv
<1>1. /\ IsFiniteSet(HyRange(hyCh)) /\ Cardinality(HyRange(hyCh)) = Len(hyCh)
      /\ IsFiniteSet(HyRange(hyBatch)) /\ Cardinality(HyRange(hyBatch)) = Len(hyBatch)
  BY RangeOfDistinct DEF HistoryTypeOK, PlacesInv
<1>2. Cardinality(Queued) = Len(hyCh) + Len(hyBatch) - Cardinality({}) BY <1>1, FS_Union DEF Queued, PlacesInv
<1>3. Len(hyCh) \in Nat /\ Len(hyBatch) \in Nat /\ Cardinality({}) = 0 BY LenProperties, FS_EmptySet DEF HistoryTypeOK
<1>4. Len(hyCh) + Len(hyBatch) = Cardinality(Queued) BY <1>2, <1>3
<1> QED BY <1>4 DEF HistoryAccounted, PlacesInv, DrainInv

-----------------------------------------
(* The schema warmer. *)

WmPositions == {"idle", "columns", "fks", "publish", "done"}
Warming(w) == wmWarm[w].at \in {"columns", "fks", "publish"}
Columns == [conn : Int, shape : Int]
KeyStates == [present : BOOLEAN, born : Nat, inflight : BOOLEAN, cool : BOOLEAN, gen : Nat]
WarmRecs == [at : WmPositions, table : WmTables \cup {""}, born : Nat, gen : Nat, cols : Columns]

WarmerTypeOK ==
    /\ wmConn \in Int /\ wmShape \in Int /\ wmEpoch \in Nat
    /\ wmState \in [WmTables -> KeyStates]
    /\ wmWarm \in [WmWarms -> WarmRecs]
    /\ \A w \in WmWarms : Warming(w) => wmWarm[w].table \in WmTables

\* A warm of the present epoch holds its table's key, and no other does; a key
\* in flight has such a warm.
HoldsKey(w, t) == Warming(w) /\ wmWarm[w].table = t /\ wmWarm[w].born = wmEpoch

KeyInv ==
    /\ \A t \in WmTables : wmState[t].present => wmState[t].born = wmEpoch
    /\ \A t \in WmTables : wmState[t].inflight =>
         wmState[t].present /\ \E w \in WmWarms : HoldsKey(w, t)
    /\ \A w \in WmWarms : Warming(w) => wmWarm[w].born <= wmEpoch
    /\ \A t \in WmTables, w \in WmWarms : HoldsKey(w, t) =>
         /\ wmState[t].inflight
         /\ \A v \in WmWarms : HoldsKey(v, t) => v = w

WmInv == WarmerTypeOK /\ KeyInv

LEMMA Blanks ==
    /\ NoKey \in KeyStates /\ ~NoKey.present /\ ~NoKey.inflight
    /\ IdleWarm \in WarmRecs /\ IdleWarm.at = "idle"
    /\ [IdleWarm EXCEPT !.at = "done"] \in WarmRecs
    /\ [IdleWarm EXCEPT !.at = "done"].at = "done"
<1>1. Unloaded \in Columns BY DEF Unloaded, Columns
<1>2. IdleWarm \in WarmRecs /\ IdleWarm.at = "idle" BY <1>1 DEF IdleWarm, WarmRecs, WmPositions
<1>3. [IdleWarm EXCEPT !.at = "done"] \in WarmRecs /\ [IdleWarm EXCEPT !.at = "done"].at = "done"
  BY <1>2 DEF WarmRecs, WmPositions
<1>4. NoKey \in KeyStates /\ ~NoKey.present /\ ~NoKey.inflight BY DEF NoKey, KeyStates
<1> QED BY <1>2, <1>3, <1>4

LEMMA WarmerStart == WarmerInit => WmInv
<1> SUFFICES ASSUME WarmerInit PROVE WmInv OBVIOUS
<1>1. WarmerTypeOK BY Blanks DEF WarmerInit, WarmerTypeOK, Warming
<1>2. \A w \in WmWarms : ~Warming(w) BY Blanks DEF WarmerInit, Warming
<1>3. KeyInv BY <1>2, Blanks DEF WarmerInit, KeyInv, HoldsKey
<1> QED BY <1>1, <1>3 DEF WmInv

\* A warm is claimed while another is idle, and takes the first of the idle ones.
LEMMA NextWarmIdle ==
    ASSUME IdleWarms # {}
    PROVE  wmNextWarm \in WmWarms /\ wmWarm[wmNextWarm].at = "idle"
<1>1. IdleWarms \subseteq Nat BY WarmerAssumption DEF IdleWarms
<1>2. PICK w \in IdleWarms : \A v \in IdleWarms : ~(<<v, w>> \in OpToRel(<, Nat)) BY <1>1, NatLessThanWellFounded, WFMin
<1>3. \A v \in IdleWarms : w <= v
  <2> SUFFICES ASSUME NEW v \in IdleWarms PROVE w <= v OBVIOUS
  <2>1. v \in Nat /\ w \in Nat /\ ~(v < w) BY <1>1, <1>2 DEF OpToRel
  <2> QED BY <2>1
<1>4. wmNextWarm \in IdleWarms BY <1>3 DEF wmNextWarm
<1> QED BY <1>4 DEF IdleWarms

\* A warm that ends gives back the claim it holds, and no other one.
LEMMA EndedWarm ==
    ASSUME WmInv, NEW w \in WmWarms, NEW failed \in BOOLEAN, Warming(w),
           wmState' = clearInflight(w, failed),
           wmWarm' = [wmWarm EXCEPT ![w] = [IdleWarm EXCEPT !.at = "done"]],
           UNCHANGED <<wmShape, wmConn, wmEpoch>>
    PROVE  WmInv'
<1> DEFINE tab == wmWarm[w].table
<1>t. /\ WarmerTypeOK /\ KeyInv
      /\ tab \in WmTables /\ w \in WmWarms
      /\ wmState[tab] \in KeyStates /\ wmWarm[w] \in WarmRecs
  BY DEF WmInv, WarmerTypeOK
<1>1. /\ wmWarm' \in [WmWarms -> WarmRecs]
      /\ \A v \in WmWarms : v # w => wmWarm'[v] = wmWarm[v]
      /\ wmWarm'[w].at = "done"
  <2> DEFINE ended == [IdleWarm EXCEPT !.at = "done"]
  <2>1. ended \in WarmRecs /\ ended.at = "done" BY Blanks
  <2> HIDE DEF ended
  <2>2. wmWarm' = [wmWarm EXCEPT ![w] = ended] /\ wmWarm \in [WmWarms -> WarmRecs] BY <1>t DEF ended, WarmerTypeOK
  <2> QED BY <2>1, <2>2
<1>2. /\ wmState' \in [WmTables -> KeyStates]
      /\ \A t \in WmTables : t # tab => wmState'[t] = wmState[t]
      /\ wmState'[tab].present => wmState[tab].present /\ wmState'[tab].born = wmState[tab].born
      /\ IF SameKey(w) THEN ~wmState'[tab].inflight ELSE wmState'[tab] = wmState[tab]
  <2>1. CASE WarmLive(w)
    <3>1. wmState' = [wmState EXCEPT ![tab] =
              IF failed THEN [wmState[tab] EXCEPT !.inflight = FALSE, !.cool = TRUE] ELSE NoKey]
      BY <2>1 DEF clearInflight
    <3>2. SameKey(w) BY <2>1 DEF WarmLive, SameKey
    <3> DEFINE new == IF failed THEN [wmState[tab] EXCEPT !.inflight = FALSE, !.cool = TRUE] ELSE NoKey
    <3>3. /\ new \in KeyStates /\ ~new.inflight
          /\ new.present => wmState[tab].present /\ new.born = wmState[tab].born
      <4>1. CASE failed BY <1>t, <4>1 DEF KeyStates
      <4>2. CASE ~failed BY <4>2, Blanks
      <4> QED BY <4>1, <4>2
    <3>4. wmState' = [wmState EXCEPT ![tab] = new] /\ wmState \in [WmTables -> KeyStates] BY <1>t, <3>1 DEF WarmerTypeOK
    <3> HIDE DEF new
    <3> QED BY <1>t, <3>2, <3>3, <3>4
  <2>2. CASE ~WarmLive(w) /\ SameKey(w)
    <3>1. wmState' = [wmState EXCEPT ![tab] = [wmState[tab] EXCEPT !.inflight = FALSE]] BY <2>2 DEF clearInflight
    <3> QED BY <1>t, <2>2, <3>1 DEF WarmerTypeOK, KeyStates
  <2>3. CASE ~WarmLive(w) /\ ~SameKey(w) BY <1>t, <2>3 DEF clearInflight, WarmerTypeOK
  <2> QED BY <2>1, <2>2, <2>3
<1> HIDE DEF tab
<1>3. WarmerTypeOK' BY <1>t, <1>1, <1>2 DEF WarmerTypeOK, Warming
<1>4. \A v \in WmWarms, t \in WmTables : HoldsKey(v, t)' <=> v # w /\ HoldsKey(v, t) BY <1>1 DEF HoldsKey, Warming
<1>5. ASSUME NEW t \in WmTables, wmState'[t].inflight
      PROVE  wmState'[t].present /\ \E v \in WmWarms : HoldsKey(v, t)'
  <2>1. wmState'[t] = wmState[t] /\ (t = tab => ~SameKey(w)) BY <1>2, <1>5
  <2>2. PICK v \in WmWarms : HoldsKey(v, t) BY <1>t, <1>5, <2>1 DEF KeyInv
  <2>3. v # w BY <1>t, <1>5, <2>1, <2>2 DEF HoldsKey, KeyInv, SameKey, tab
  <2> QED BY <1>t, <1>4, <1>5, <2>1, <2>2, <2>3 DEF KeyInv
<1>6. ASSUME NEW t \in WmTables, NEW v \in WmWarms, HoldsKey(v, t)'
      PROVE  /\ wmState'[t].inflight
             /\ \A u \in WmWarms : HoldsKey(u, t)' => u = v
  <2>1. v # w /\ HoldsKey(v, t) /\ wmState[t].inflight BY <1>t, <1>4, <1>6 DEF KeyInv
  <2>2. t = tab => ~SameKey(w) BY <1>t, <2>1 DEF HoldsKey, KeyInv, SameKey, tab
  <2> QED BY <1>t, <1>2, <1>4, <2>1, <2>2 DEF KeyInv
<1>7. \A t \in WmTables : wmState'[t].present => wmState'[t].born = wmEpoch' BY <1>t, <1>2 DEF KeyInv
<1>8. \A v \in WmWarms : Warming(v)' => wmWarm'[v].born <= wmEpoch' BY <1>t, <1>1 DEF KeyInv, Warming
<1>9. KeyInv' BY <1>5, <1>6, <1>7, <1>8 DEF KeyInv
<1> QED BY <1>3, <1>9 DEF WmInv

\* Nobody's claim is touched: the keys keep their claims and epochs, and the warms
\* their tables.
LEMMA UntouchedClaims ==
    ASSUME WmInv, WarmerTypeOK', wmEpoch' = wmEpoch,
           \A t \in WmTables : /\ wmState'[t].inflight <=> wmState[t].inflight
                               /\ wmState'[t].present => wmState[t].present
                               /\ wmState[t].inflight => wmState'[t].present
                               /\ wmState'[t].present => wmState'[t].born = wmState[t].born,
           \A w \in WmWarms : /\ Warming(w)' <=> Warming(w)
                              /\ Warming(w) => wmWarm'[w].table = wmWarm[w].table
                              /\ Warming(w) => wmWarm'[w].born = wmWarm[w].born
    PROVE  WmInv'
<1>1. \A t \in WmTables, w \in WmWarms : HoldsKey(w, t)' <=> HoldsKey(w, t) BY DEF HoldsKey
<1>2. KeyInv' BY <1>1 DEF WmInv, KeyInv
<1> QED BY <1>2 DEF WmInv

LEMMA WarmerStep == WmInv /\ [WarmerNext]_warmerVars => WmInv'
<1> SUFFICES ASSUME WmInv, [WarmerNext]_warmerVars PROVE WmInv' OBVIOUS
<1>t. WarmerTypeOK /\ KeyInv BY DEF WmInv
<1>1. ASSUME NEW t \in WmTables, claim(t) PROVE WmInv'
  <2> DEFINE n == wmNextWarm
             st == IF wmState[t].present THEN wmState[t]
                   ELSE [NoKey EXCEPT !.present = TRUE, !.born = wmEpoch]
             new == [st EXCEPT !.inflight = TRUE]
             mine == [IdleWarm EXCEPT !.at = "columns", !.table = t, !.born = wmEpoch, !.gen = st.gen]
  <2>1. /\ n \in WmWarms /\ wmWarm[n].at = "idle" BY <1>1, NextWarmIdle DEF claim
  <2>2. /\ ~wmState[t].inflight
        /\ wmState' = [wmState EXCEPT ![t] = new] /\ wmWarm' = [wmWarm EXCEPT ![n] = mine]
        /\ UNCHANGED <<wmShape, wmConn, wmEpoch>>
    BY <1>1 DEF claim
  <2>3. st \in KeyStates /\ st.present /\ st.born = wmEpoch
    <3>1. CASE wmState[t].present BY <1>t, <3>1 DEF WarmerTypeOK, KeyInv
    <3>2. CASE ~wmState[t].present BY <1>t, <3>2, Blanks DEF WarmerTypeOK, KeyStates
    <3> QED BY <3>1, <3>2
  <2> HIDE DEF st
  <2>4. new \in KeyStates /\ new.present /\ new.born = wmEpoch /\ new.inflight BY <2>3 DEF KeyStates
  <2>5. /\ mine \in WarmRecs /\ mine.at = "columns" /\ mine.table = t /\ mine.born = wmEpoch
    BY <1>t, <2>3, Blanks DEF WarmRecs, WmPositions, WarmerTypeOK, KeyStates
  <2> HIDE DEF n, new, mine
  <2>6. /\ wmState' \in [WmTables -> KeyStates] /\ wmState'[t] = new
        /\ \A u \in WmTables : u # t => wmState'[u] = wmState[u]
        /\ wmWarm' \in [WmWarms -> WarmRecs] /\ wmWarm'[n] = mine
        /\ \A w \in WmWarms : w # n => wmWarm'[w] = wmWarm[w]
    BY <1>t, <2>1, <2>2, <2>4, <2>5 DEF WarmerTypeOK
  <2>7. WarmerTypeOK' BY <1>t, <2>2, <2>5, <2>6 DEF WarmerTypeOK, Warming
  <2>8. \A w \in WmWarms : ~HoldsKey(w, t) BY <1>t, <2>2 DEF KeyInv
  <2>9. \A w \in WmWarms, u \in WmTables :
          HoldsKey(w, u)' <=> IF w = n THEN u = t ELSE HoldsKey(w, u)
    BY <2>2, <2>5, <2>6 DEF HoldsKey, Warming
  <2>10. \A w \in WmWarms : Warming(w)' => wmWarm'[w].born <= wmEpoch'
    BY <1>t, <2>2, <2>5, <2>6 DEF Warming, KeyInv, WarmerTypeOK
  <2>11. \A u \in WmTables, w \in WmWarms : HoldsKey(w, u)' =>
          wmState'[u].inflight /\ \A v \in WmWarms : HoldsKey(v, u)' => v = w
    BY <1>t, <2>4, <2>6, <2>8, <2>9 DEF KeyInv
  <2>12. \A u \in WmTables : wmState'[u].inflight =>
           wmState'[u].present /\ \E w \in WmWarms : HoldsKey(w, u)'
    <3> SUFFICES ASSUME NEW u \in WmTables, wmState'[u].inflight
                 PROVE  wmState'[u].present /\ \E w \in WmWarms : HoldsKey(w, u)'
      OBVIOUS
    <3>1. CASE u = t BY <2>1, <2>4, <2>6, <2>9, <3>1
    <3>2. CASE u # t
      <4>1. wmState[u].inflight BY <2>6, <3>2
      <4>2. PICK w \in WmWarms : HoldsKey(w, u) BY <1>t, <4>1 DEF KeyInv
      <4>3. w # n BY <2>1, <4>2 DEF HoldsKey, Warming, n
      <4> QED BY <1>t, <2>6, <2>9, <3>2, <4>1, <4>2, <4>3 DEF KeyInv
    <3> QED BY <3>1, <3>2
  <2>13. \A u \in WmTables : wmState'[u].present => wmState'[u].born = wmEpoch' BY <1>t, <2>2, <2>4, <2>6 DEF KeyInv
  <2> QED BY <2>7, <2>10, <2>11, <2>12, <2>13 DEF WmInv, KeyInv
<1>2. ASSUME NEW t \in WmTables, wmCooled(t) PROVE WmInv'
  <2>1. /\ wmState' = [wmState EXCEPT ![t].cool = FALSE]
        /\ UNCHANGED <<wmShape, wmConn, wmEpoch, wmWarm>>
    BY <1>2 DEF wmCooled
  <2>2. /\ wmState' \in [WmTables -> KeyStates]
        /\ \A u \in WmTables : /\ wmState'[u].inflight = wmState[u].inflight
                               /\ wmState'[u].present = wmState[u].present
                               /\ wmState'[u].born = wmState[u].born
    BY <1>t, <2>1 DEF WarmerTypeOK, KeyStates
  <2>3. WarmerTypeOK' BY <1>t, <2>1, <2>2 DEF WarmerTypeOK, Warming
  <2>4. \A w \in WmWarms : Warming(w)' <=> Warming(w) BY <2>1 DEF Warming
  <2>5. \A u \in WmTables : wmState[u].inflight => wmState[u].present BY <1>t DEF KeyInv
  <2> QED BY <2>1, <2>2, <2>3, <2>4, <2>5, UntouchedClaims
<1>3. ASSUME NEW w \in WmWarms, runWarm(w) PROVE WmInv'
  <2>1. Warming(w) /\ UNCHANGED <<wmShape, wmConn, wmEpoch>> BY <1>3 DEF runWarm, Warming
  <2>2. CASE /\ wmState' = clearInflight(w, TRUE)
             /\ wmWarm' = [wmWarm EXCEPT ![w] = [IdleWarm EXCEPT !.at = "done"]]
    BY <2>1, <2>2, EndedWarm
  <2>3. CASE /\ wmState' = wmState
             /\ wmWarm' = [wmWarm EXCEPT ![w].at = IF @ = "columns" THEN "fks" ELSE "publish",
                                         ![w].cols = IF wmWarm[w].at = "columns" THEN Now ELSE @]
    <3> DEFINE at == IF wmWarm[w].at = "columns" THEN "fks" ELSE "publish"
    <3>1. Now \in Columns BY <1>t DEF Now, Columns, WarmerTypeOK
    <3>2. /\ wmWarm' \in [WmWarms -> WarmRecs] /\ wmWarm'[w].at = at
          /\ wmWarm'[w].table = wmWarm[w].table /\ wmWarm'[w].born = wmWarm[w].born
          /\ \A v \in WmWarms : v # w => wmWarm'[v] = wmWarm[v]
      BY <1>t, <2>3, <3>1 DEF WarmerTypeOK, WarmRecs, WmPositions
    <3>3. \A v \in WmWarms : Warming(v)' <=> Warming(v) BY <2>1, <3>2 DEF Warming
    <3>4. WarmerTypeOK' BY <1>t, <2>1, <2>3, <3>2, <3>3 DEF WarmerTypeOK
    <3>5. \A u \in WmTables : wmState[u].inflight => wmState[u].present BY <1>t DEF KeyInv
    <3> QED BY <2>1, <2>3, <3>2, <3>3, <3>4, <3>5, UntouchedClaims
  <2> QED BY <1>3, <2>2, <2>3 DEF runWarm
<1>4. ASSUME NEW w \in WmWarms, wmPublish(w) PROVE WmInv'
  <2>1. /\ Warming(w) /\ UNCHANGED <<wmShape, wmConn, wmEpoch>>
        /\ wmState' = clearInflight(w, FALSE)
        /\ wmWarm' = [wmWarm EXCEPT ![w] = [IdleWarm EXCEPT !.at = "done"]]
    BY <1>4 DEF wmPublish, Warming
  <2> QED BY <2>1, EndedWarm
<1>5. ASSUME NEW i \in WmInvals, wmInvalKeys(i) PROVE WmInv'
  <2>1. /\ wmState' = [t \in WmTables |-> IF t \in wmInval[i].tables THEN superseded(wmState[t])
                                          ELSE wmState[t]]
        /\ UNCHANGED <<wmShape, wmConn, wmEpoch, wmWarm>>
    BY <1>5 DEF wmInvalKeys
  <2>2. ASSUME NEW t \in WmTables
        PROVE  /\ superseded(wmState[t]) \in KeyStates
               /\ superseded(wmState[t]).inflight <=> wmState[t].inflight
               /\ superseded(wmState[t]).present => wmState[t].present
               /\ wmState[t].inflight => superseded(wmState[t]).present
               /\ superseded(wmState[t]).present => superseded(wmState[t]).born = wmState[t].born
    <3>1. wmState[t] \in KeyStates /\ (wmState[t].inflight => wmState[t].present) BY <1>t DEF WarmerTypeOK, KeyInv
    <3>2. CASE wmState[t].inflight
      <4> DEFINE newer == [wmState[t] EXCEPT !.gen = @ + 1]
      <4>1. superseded(wmState[t]) = [newer EXCEPT !.cool = FALSE] BY <3>2 DEF superseded
      <4>a. /\ newer \in KeyStates /\ newer.inflight = wmState[t].inflight
            /\ newer.present = wmState[t].present /\ newer.born = wmState[t].born
        BY <3>1 DEF KeyStates
      <4> HIDE DEF newer
      <4>2. superseded(wmState[t]) \in KeyStates BY <4>1, <4>a DEF KeyStates
      <4>3. /\ superseded(wmState[t]).inflight = wmState[t].inflight
            /\ superseded(wmState[t]).present = wmState[t].present
            /\ superseded(wmState[t]).born = wmState[t].born
        BY <4>1, <4>a DEF KeyStates
      <4> QED BY <3>1, <3>2, <4>2, <4>3
    <3>3. CASE ~wmState[t].inflight
      <4>1. superseded(wmState[t]) = NoKey BY <3>3 DEF superseded
      <4> QED BY <3>3, <4>1, Blanks
    <3> QED BY <3>2, <3>3
  <2>3. \A t \in WmTables :
          wmState'[t] = IF t \in wmInval[i].tables THEN superseded(wmState[t]) ELSE wmState[t]
    BY <2>1
  <2>4. \A t \in WmTables : wmState[t].inflight => wmState[t].present BY <1>t DEF KeyInv
  <2>5. wmState' \in [WmTables -> KeyStates] BY <1>t, <2>1, <2>2 DEF WarmerTypeOK
  <2>6. WarmerTypeOK' BY <1>t, <2>1, <2>5 DEF WarmerTypeOK, Warming
  <2>7. \A w \in WmWarms : Warming(w)' <=> Warming(w) BY <2>1 DEF Warming
  <2>8. \A t \in WmTables : /\ wmState'[t].inflight <=> wmState[t].inflight
                            /\ wmState'[t].present => wmState[t].present
                            /\ wmState[t].inflight => wmState'[t].present
                            /\ wmState'[t].present => wmState'[t].born = wmState[t].born
    BY <2>2, <2>3, <2>4
  <2> QED BY <2>1, <2>6, <2>7, <2>8, UntouchedClaims
<1>6. CASE wmTeardownReset \/ wmDelete
  <2>1. /\ wmState' = [t \in WmTables |-> NoKey] /\ wmEpoch' = wmEpoch + 1
        /\ UNCHANGED <<wmShape, wmConn, wmWarm>>
    BY <1>6 DEF wmTeardownReset, wmDelete, wmReset
  <2>2. WarmerTypeOK' BY <1>t, <2>1, Blanks DEF WarmerTypeOK, Warming
  <2>a. \A w \in WmWarms : wmWarm[w].born \in Nat /\ (Warming(w) => wmWarm[w].born <= wmEpoch)
    BY <1>t DEF KeyInv, WarmerTypeOK, WarmRecs
  <2>b. wmEpoch \in Nat /\ \A w \in WmWarms : Warming(w)' <=> Warming(w) BY <1>t, <2>1 DEF WarmerTypeOK, Warming
  <2>3. \A t \in WmTables, w \in WmWarms : ~HoldsKey(w, t)' BY <2>1, <2>a, <2>b DEF HoldsKey
  <2>4. \A w \in WmWarms : Warming(w)' => wmWarm'[w].born <= wmEpoch' BY <2>1, <2>a, <2>b
  <2>5. \A t \in WmTables : ~wmState'[t].present /\ ~wmState'[t].inflight BY <2>1, Blanks
  <2> QED BY <2>2, <2>3, <2>4, <2>5 DEF WmInv, KeyInv
<1>7. CASE \/ \E e \in WmEagers : wmEagerStart(e) \/ wmEagerLoad(e) \/ wmEagerSet(e)
           \/ \E i \in WmInvals : wmInvalStart(i) \/ wmInvalStore(i)
           \/ wmTeardown \/ wmConnect \/ wmDeleteDisconnect \/ UNCHANGED warmerVars
  <2>1. /\ UNCHANGED <<wmState, wmEpoch, wmWarm>>
        /\ wmShape' \in Int /\ wmConn' \in Int
    <3>1. CASE wmConnect BY <1>t, <3>1, WarmerAssumption DEF WarmerTypeOK, wmConnect
    <3>2. ASSUME NEW i \in WmInvals, wmInvalStart(i)
          PROVE  UNCHANGED <<wmState, wmEpoch, wmWarm>> /\ wmShape' \in Int /\ wmConn' \in Int
      BY <1>t, <3>2 DEF WarmerTypeOK, wmInvalStart
    <3>3. ASSUME NEW i \in WmInvals, wmInvalStore(i)
          PROVE  UNCHANGED <<wmState, wmEpoch, wmWarm>> /\ wmShape' \in Int /\ wmConn' \in Int
      BY <1>t, <3>3 DEF WarmerTypeOK, wmInvalStore
    <3>4. ASSUME NEW e \in WmEagers, wmEagerStart(e) \/ wmEagerLoad(e) \/ wmEagerSet(e)
          PROVE  UNCHANGED <<wmState, wmEpoch, wmWarm>> /\ wmShape' \in Int /\ wmConn' \in Int
      BY <1>t, <3>4 DEF WarmerTypeOK, wmEagerStart, wmEagerLoad, wmEagerSet
    <3>5. CASE wmTeardown \/ wmDeleteDisconnect \/ UNCHANGED warmerVars
      BY <1>t, <3>5 DEF WarmerTypeOK, wmTeardown, wmDeleteDisconnect, warmerVars
    <3> QED BY <1>7, <3>1, <3>2, <3>3, <3>4, <3>5
  <2>2. WarmerTypeOK' BY <1>t, <2>1 DEF WarmerTypeOK, Warming
  <2>3. \A t \in WmTables : wmState[t].inflight => wmState[t].present BY <1>t DEF KeyInv
  <2>4. \A w \in WmWarms : Warming(w)' <=> Warming(w) BY <2>1 DEF Warming
  <2> QED BY <2>1, <2>2, <2>3, <2>4, UntouchedClaims
<1> QED BY <1>1, <1>2, <1>3, <1>4, <1>5, <1>6, <1>7 DEF WarmerNext

LEMMA WarmerFollows == WmInv => ClaimedByItsWarm
<1> SUFFICES ASSUME WmInv, NEW t \in WmTables, wmState[t].inflight
             PROVE  Cardinality({w \in WmWarms : /\ wmWarm[w].at \in {"columns", "fks", "publish"}
                                                 /\ wmWarm[w].table = t /\ SameKey(w)}) = 1
  BY DEF ClaimedByItsWarm
<1> DEFINE mine == {w \in WmWarms : /\ wmWarm[w].at \in {"columns", "fks", "publish"}
                                    /\ wmWarm[w].table = t /\ SameKey(w)}
<1>1. KeyInv /\ wmState[t].present /\ wmState[t].born = wmEpoch BY DEF WmInv, KeyInv
<1>2. PICK w \in WmWarms : HoldsKey(w, t) BY <1>1 DEF KeyInv
<1>3. \A v \in WmWarms : v \in mine <=> HoldsKey(v, t) BY <1>1 DEF HoldsKey, Warming, SameKey
<1>4. \A v \in WmWarms : HoldsKey(v, t) => v = w BY <1>1, <1>2 DEF KeyInv
<1>5. mine = {w} BY <1>2, <1>3, <1>4
<1> QED BY <1>5, FS_Singleton

\* History entries and claims are where they belong and are accounted for, for any
\* number of recording goroutines, any capacity of the queue and of a batch, and any
\* number of tables, warms, invalidations and connections (Record, the writer, Close;
\* claim, clearInflight, supersedeLocked, Reset).
THEOREM RecordsTheorem == HistorySpec /\ WarmerSpec => []RecordsKept
<1>1. HyInv /\ WmInv => RecordsKept BY HistoryFollows, WarmerFollows DEF RecordsKept
<1>2. HistorySpec => []HyInv BY HistoryStart, HistoryStep, PTL DEF HistorySpec
<1>3. WarmerSpec => []WmInv BY WarmerStart, WarmerStep, PTL DEF WarmerSpec
<1> QED BY <1>1, <1>2, <1>3, PTL

-----------------------------------------
(* The machine client. *)

MxOpening == {"tunnel", "dial", "restarting", "dialing", "startup", "init", "giveup", "failed"}
MxTalking == {"ready", "setup", "begin", "local", "script", "executed", "precommit", "commit",
              "cleanup", "reported", "closed"}
MxOutcomes == {"none", "not_started", "disposed", "committed", "rolled_back", "unknown"}
MxExecutions == {"not_started", "completed", "failed", "unknown"}
MxSrvs == {"I", "T", "E"}
MxReports == [outcome : MxOutcomes, exec : MxExecutions, attempted : BOOLEAN, definitive : BOOLEAN]

MachineTypeOK ==
    /\ mxPc \in MxOpening \cup MxTalking
    /\ \E i, r : mxTunNow = [id |-> i, restart |-> r]
    /\ mxSock \in [MxCands -> {"none", "dialing", "open", "closed"}]
    /\ mxRaw \in MxCands \cup {0}
    /\ mxSrv \in MxSrvs
    /\ mxOp \in {"none", "query", "execute", "atomic"}
    /\ mxRep \in MxReports

\* One socket at a time is in use, the client's own or one being dialled, and one
\* tunnel; nothing when the client has ended.
SocketInv ==
    /\ \A c \in MxCands : mxSock[c] = "open" => c = mxRaw /\ mxPc \notin {"restarting", "dialing"}
    /\ \A c \in MxCands : mxSock[c] = "dialing" =>
         mxPc \in {"restarting", "dialing"} /\ \A d \in MxCands : mxSock[d] = "dialing" => d = c
    /\ mxTun \subseteq {mxTunNow.id}
    /\ mxPc \in {"tunnel", "restarting"} => mxTun = {}
    /\ MachineLeavesNothing

\* The server's session as far as the caller can still reach it.
ServerInv ==
    /\ mxPc \in MxOpening => mxSrv = "I"
    /\ mxPc \in {"ready", "setup", "begin", "reported"} /\ ~mxIsClosed => mxSrv = "I"
    /\ mxPc \in {"local", "script"} /\ ~mxIsClosed =>
         mxSrv = IF mxOp = "execute" THEN "I" ELSE "T"
    /\ mxPc \in {"executed", "reported"} /\ mxOp = "execute" /\ mxRep.exec = "completed" =>
         mxSrv = "I"

\* What the report says at each stage of an atomic script.
NotSent == ~mxCommitted /\ ~mxRep.attempted /\ ~mxRep.definitive /\ mxRep.exec # "unknown"
Sent ==
    /\ mxRep.attempted
    /\ \/ mxRep.definitive /\ mxRep.outcome = "committed" /\ mxCommitted /\ mxSrv = "I"
       \/ /\ mxRep.definitive /\ mxRep.outcome \in {"rolled_back", "unknown"}
          /\ mxRep.exec = "failed" /\ ~mxCommitted /\ (mxRep.outcome = "rolled_back" => mxSrv = "I")
       \/ ~mxRep.definitive /\ mxRep.outcome = "unknown"
ReportInv ==
    /\ mxPc = "executed" => mxOp = "execute"
    /\ mxPc \in {"precommit", "commit"} => mxOp = "atomic"
    /\ mxPc \in {"begin", "local", "cleanup"} => mxOp # "execute"
    /\ mxPc = "setup" => mxOp # "none"
    /\ mxPc \in {"setup", "begin"} => mxRep.exec = "not_started"
    /\ mxOp # "atomic" => mxRep.outcome = "none" /\ ~mxRep.attempted
    /\ mxPc \in {"setup", "begin", "local", "script", "precommit", "commit"} => NotSent
    /\ mxOp = "atomic" /\ mxPc \in {"setup", "begin"} => mxRep.outcome = "not_started"
    /\ mxOp = "atomic" /\ mxPc \in {"local", "script", "precommit", "commit"} =>
         mxRep.outcome = "disposed"
    /\ mxOp = "atomic" /\ mxPc \in {"cleanup", "reported"} =>
         \/ NotSent /\ mxRep.outcome = "disposed"
         \/ NotSent /\ mxRep.outcome \in {"not_started", "rolled_back"} /\ mxPc = "reported"
         \/ Sent

MxInv == MachineTypeOK /\ SocketInv /\ ServerInv /\ ReportInv

LEMMA MachineBlanks ==
    /\ NoReport \in MxReports /\ NoReport.outcome = "none" /\ NoReport.exec = "not_started"
    /\ ~NoReport.attempted /\ ~NoReport.definitive
    /\ NoTun = [id |-> 0, restart |-> FALSE]
BY DEF NoReport, MxReports, MxOutcomes, MxExecutions, NoTun

LEMMA MachineStart == MachineInit => MxInv
<1> SUFFICES ASSUME MachineInit PROVE MxInv OBVIOUS
<1>1. MachineTypeOK BY MachineBlanks DEF MachineInit, MachineTypeOK, MxOpening, MxSrvs
<1>2. SocketInv BY MachineBlanks DEF MachineInit, SocketInv, MachineLeavesNothing
<1>3. ServerInv /\ ReportInv BY MachineBlanks DEF MachineInit, ServerInv, ReportInv
<1> QED BY <1>1, <1>2, <1>3 DEF MxInv

LEMMA MachineFollows == MxInv => MachineTruth
<1> SUFFICES ASSUME MxInv PROVE MachineTruth OBVIOUS
<1>1. MachineLeavesNothing BY DEF MxInv, SocketInv
<1>2. ASSUME mxPc = "reported" PROVE MachineReportsTruth
  <2>1. mxOp # "atomic" => mxRep.outcome = "none" BY DEF MxInv, ReportInv
  <2>2. mxOp = "atomic" =>
         \/ NotSent /\ mxRep.outcome \in {"disposed", "not_started", "rolled_back"}
         \/ Sent
    BY <1>2 DEF MxInv, ReportInv
  <2>3. /\ ~mxIsClosed => mxSrv = "I"
        /\ mxOp = "execute" /\ mxRep.exec = "completed" => mxSrv = "I"
    BY <1>2 DEF MxInv, ServerInv
  <2> QED BY <2>1, <2>2, <2>3 DEF MachineReportsTruth, NotSent, Sent
<1>3. mxPc # "reported" => MachineReportsTruth BY DEF MachineReportsTruth
<1> QED BY <1>1, <1>2, <1>3 DEF MachineTruth

\* After an abort the connection is closed, and no socket or tunnel of the client's
\* own is left.
LEMMA AbortCloses ==
    ASSUME MachineTypeOK, SocketInv, mxSock' = mxSockAfterAbort, mxRaw' = mxRaw
    PROVE  /\ mxSock' \in [MxCands -> {"none", "dialing", "open", "closed"}]
           /\ mxIsClosed'
           /\ \A c \in MxCands : mxSock'[c] # "open"
           /\ \A c \in MxCands : mxSock'[c] = "dialing" => mxSock[c] = "dialing"
<1>1. 0 \notin MxCands BY MachineAssumption
<1>2. CASE mxRaw = 0 BY <1>1, <1>2 DEF mxSockAfterAbort, mxIsClosed, MachineTypeOK, SocketInv
<1>3. CASE mxRaw # 0 BY <1>1, <1>3 DEF mxSockAfterAbort, mxIsClosed, MachineTypeOK, SocketInv
<1> QED BY <1>2, <1>3

LEMMA AbortLeavesNothing ==
    ASSUME MachineTypeOK, SocketInv, mxAbort, mxRaw' = mxRaw, mxTunNow' = mxTunNow
    PROVE  /\ mxTun' = {} /\ mxIsClosed'
           /\ mxSock' \in [MxCands -> {"none", "dialing", "open", "closed"}]
           /\ \A c \in MxCands : mxSock'[c] # "open"
           /\ \A c \in MxCands : mxSock'[c] = "dialing" => mxSock[c] = "dialing"
<1>1. mxTun' = {} BY DEF mxAbort, mxTunAfterAbort, SocketInv
<1>2. mxSock' = mxSockAfterAbort BY DEF mxAbort
<1> QED BY <1>1, <1>2, AbortCloses

\* A step of the caller that talks to the server leaves the sockets alone, or closes
\* the client's own, with or without its tunnel.
LEMMA TalkingSockets ==
    ASSUME MachineTypeOK, SocketInv, mxPc \in MxTalking \ {"closed"}, mxPc' \in MxTalking,
           mxRaw' = mxRaw, mxTunNow' = mxTunNow,
           \/ mxSock' = mxSock /\ mxTun' = mxTun
           \/ mxSock' = mxSockAfterAbort /\ mxTun' \in {mxTun, mxTunAfterAbort},
           mxPc' = "closed" => mxAbort
    PROVE  /\ SocketInv' /\ mxSock' \in [MxCands -> {"none", "dialing", "open", "closed"}]
           /\ mxIsClosed => mxIsClosed'
<1>1. \A c \in MxCands : mxSock[c] # "dialing" BY DEF SocketInv, MxTalking
<1>2. /\ mxSock' \in [MxCands -> {"none", "dialing", "open", "closed"}]
      /\ \A c \in MxCands : mxSock'[c] # "dialing" /\ (mxSock'[c] = "open" => mxSock[c] = "open")
      /\ mxIsClosed => mxIsClosed'
  <2>1. CASE mxSock' = mxSock BY <1>1, <2>1 DEF MachineTypeOK, mxIsClosed
  <2>2. CASE mxSock' = mxSockAfterAbort BY <1>1, <2>2, AbortCloses
  <2> QED BY <2>1, <2>2
<1>3. mxTun' \subseteq {mxTunNow'.id} BY DEF SocketInv, mxTunAfterAbort
<1>4. mxPc' = "closed" => mxTun' = {} /\ \A c \in MxCands : mxSock'[c] # "open" BY AbortLeavesNothing
<1>5. mxPc' \notin {"tunnel", "restarting", "dialing", "failed"} BY DEF MxTalking
<1> QED BY <1>2, <1>3, <1>4, <1>5 DEF SocketInv, MachineLeavesNothing

\* Opening: nothing has been said to the server yet.
LEMMA OpeningTalk ==
    ASSUME MxInv, mxPc \in MxOpening, mxPc' \in MxOpening \cup {"ready"},
           UNCHANGED <<mxSrv, mxCommitted, mxOp, mxRep>>
    PROVE  ServerInv' /\ ReportInv'
<1>1. mxSrv = "I" BY DEF MxInv, ServerInv
<1>2. mxPc' \notin {"setup", "begin", "local", "script", "executed", "precommit", "commit",
                    "cleanup", "reported"}
  BY DEF MxOpening
<1>3. ServerInv' BY <1>1, <1>2 DEF ServerInv
<1>4. ReportInv' BY <1>2 DEF MxInv, ReportInv
<1> QED BY <1>3, <1>4

LEMMA OpeningSockets ==
    ASSUME MxInv,
           \/ mxOpenTunnel \/ mxStartup \/ mxExhausted \/ mxInitialize \/ mxGiveUp
           \/ \E c \in MxCands : mxDialStart(c) \/ mxRestarted(c) \/ mxDialed(c)
    PROVE  MxInv'
<1>t. MachineTypeOK /\ SocketInv /\ 0 \notin MxCands BY MachineAssumption DEF MxInv
<1>s. \A c \in MxCands : mxPc \notin {"restarting", "dialing"} => mxSock[c] # "dialing" BY <1>t DEF SocketInv
<1>i. PICK id, restart : mxTunNow = [id |-> id, restart |-> restart] BY <1>t DEF MachineTypeOK
<1>j. \A r : [mxTunNow EXCEPT !.restart = r] = [id |-> mxTunNow.id, restart |-> r] BY <1>i
<1>1. CASE mxOpenTunnel
  <2>1. /\ mxPc = "tunnel" /\ mxPc' \in {"dial", "giveup"}
        /\ UNCHANGED <<mxSock, mxRaw, mxSrv, mxCommitted, mxOp, mxRep>>
        /\ \/ UNCHANGED <<mxTun, mxTunNow>>
           \/ /\ mxTunNow' = [id |-> mxFreshTun, restart |-> FALSE]
              /\ mxTun' \in {mxTun, mxTun \cup {mxFreshTun}}
    BY <1>1 DEF mxOpenTunnel
  <2>2. mxTun = {} BY <1>t, <2>1 DEF SocketInv
  <2>3. mxTun' \subseteq {mxTunNow'.id} /\ \E i, r : mxTunNow' = [id |-> i, restart |-> r]
    BY <1>t, <2>1, <2>2 DEF MachineTypeOK
  <2>4. SocketInv' BY <1>t, <2>1, <2>3 DEF SocketInv, MachineLeavesNothing
  <2>5. MachineTypeOK' BY <1>t, <2>1, <2>3 DEF MachineTypeOK, MxOpening
  <2> QED BY <2>1, <2>4, <2>5, OpeningTalk DEF MxInv, MxOpening
<1>2. ASSUME NEW c \in MxCands, mxDialStart(c) PROVE MxInv'
  <2>1. /\ mxPc = "dial" /\ (mxRaw # 0 => mxSock[mxRaw] = "closed")
        /\ UNCHANGED <<mxTunNow, mxRaw, mxSrv, mxCommitted, mxOp, mxRep>>
        /\ mxTun' \subseteq mxTun /\ (mxPc' = "restarting" => mxTun' = mxTun \ {mxTunNow.id})
        /\ mxSock' = [mxSock EXCEPT ![c] = "dialing"] /\ mxPc' \in {"restarting", "dialing"}
    BY <1>2 DEF mxDialStart
  <2>2. mxTun' \subseteq {mxTunNow'.id} /\ (mxPc' = "restarting" => mxTun' = {}) BY <1>t, <2>1 DEF SocketInv
  <2>3. \A d \in MxCands : mxSock[d] \notin {"open", "dialing"} BY <1>t, <1>s, <2>1 DEF SocketInv
  <2>4. /\ mxSock' \in [MxCands -> {"none", "dialing", "open", "closed"}]
        /\ \A d \in MxCands : d # c => mxSock'[d] = mxSock[d]
        /\ mxSock'[c] = "dialing"
    BY <1>t, <2>1 DEF MachineTypeOK
  <2>5. SocketInv' BY <2>1, <2>2, <2>3, <2>4 DEF SocketInv, MachineLeavesNothing
  <2>6. MachineTypeOK' BY <1>t, <2>1, <2>4 DEF MachineTypeOK, MxOpening
  <2> QED BY <2>1, <2>5, <2>6, OpeningTalk DEF MxInv, MxOpening
<1>7. ASSUME NEW c \in MxCands, mxRestarted(c) PROVE MxInv'
  <2>1. /\ mxPc = "restarting" /\ mxSock[c] = "dialing"
        /\ UNCHANGED <<mxRaw, mxSrv, mxCommitted, mxOp, mxRep>>
        /\ \/ /\ mxTun' = mxTun \cup {mxFreshTun} /\ mxSock' = mxSock /\ mxPc' = "dialing"
              /\ mxTunNow' = [id |-> mxFreshTun, restart |-> FALSE]
           \/ /\ mxSock' = [mxSock EXCEPT ![c] = "closed"] /\ mxPc' = "dial"
              /\ UNCHANGED <<mxTun, mxTunNow>>
    BY <1>7 DEF mxRestarted
  <2>2. \A d \in MxCands : mxSock[d] # "open" /\ (mxSock[d] = "dialing" => d = c) BY <1>t, <2>1 DEF SocketInv
  <2>3. /\ mxSock' \in [MxCands -> {"none", "dialing", "open", "closed"}]
        /\ \A d \in MxCands : d # c => mxSock'[d] = mxSock[d]
        /\ mxSock'[c] = IF mxPc' = "dialing" THEN "dialing" ELSE "closed"
        /\ mxPc' \in {"dial", "dialing"}
    BY <1>t, <2>1 DEF MachineTypeOK
  <2>4. mxTun' \subseteq {mxTunNow'.id} /\ \E i, r : mxTunNow' = [id |-> i, restart |-> r]
    BY <1>t, <1>i, <2>1 DEF SocketInv, MachineTypeOK
  <2>5. SocketInv' BY <2>2, <2>3, <2>4 DEF SocketInv, MachineLeavesNothing
  <2>6. MachineTypeOK' BY <1>t, <2>1, <2>3, <2>4 DEF MachineTypeOK, MxOpening
  <2> QED BY <2>1, <2>3, <2>5, <2>6, OpeningTalk DEF MxInv, MxOpening
<1>3. ASSUME NEW c \in MxCands, mxDialed(c) PROVE MxInv'
  <2>1. /\ mxPc = "dialing" /\ mxSock[c] = "dialing"
        /\ UNCHANGED <<mxSrv, mxCommitted, mxOp, mxRep>>
        /\ \/ /\ mxSock' = [mxSock EXCEPT ![c] = "open"] /\ mxRaw' = c /\ mxPc' = "startup"
              /\ UNCHANGED <<mxTun, mxTunNow>>
           \/ /\ mxSock' = [mxSock EXCEPT ![c] = "closed"] /\ mxRaw' = mxRaw /\ mxPc' = "dial"
              /\ mxTun' \subseteq mxTun
              /\ mxTunNow' = mxTunNow \/ \E r : mxTunNow' = [mxTunNow EXCEPT !.restart = r]
    BY <1>3 DEF mxDialed
  <2>2. mxTunNow'.id = mxTunNow.id /\ \E i, r : mxTunNow' = [id |-> i, restart |-> r] BY <1>i, <1>j, <2>1
  <2>3. \A d \in MxCands : mxSock[d] # "open" /\ (mxSock[d] = "dialing" => d = c) BY <1>t, <2>1 DEF SocketInv
  <2>4. /\ mxSock' \in [MxCands -> {"none", "dialing", "open", "closed"}]
        /\ \A d \in MxCands : d # c => mxSock'[d] = mxSock[d]
        /\ mxSock'[c] = IF mxPc' = "startup" THEN "open" ELSE "closed"
        /\ mxPc' \in {"dial", "startup"} /\ (mxPc' = "startup" => mxRaw' = c)
        /\ mxRaw' \in MxCands \cup {0}
    BY <1>t, <2>1 DEF MachineTypeOK
  <2>5. mxTun' \subseteq {mxTunNow'.id} BY <1>t, <2>1, <2>2 DEF SocketInv
  <2>6. SocketInv' BY <2>3, <2>4, <2>5 DEF SocketInv, MachineLeavesNothing
  <2>7. MachineTypeOK' BY <1>t, <2>1, <2>2, <2>4 DEF MachineTypeOK, MxOpening
  <2> QED BY <2>1, <2>4, <2>6, <2>7, OpeningTalk DEF MxInv, MxOpening
<1>4. CASE mxStartup
  <2>1. /\ mxPc = "startup" /\ UNCHANGED <<mxRaw, mxSrv, mxCommitted, mxOp, mxRep>>
        /\ \/ mxPc' = "init" /\ UNCHANGED <<mxSock, mxTun, mxTunNow>>
           \/ /\ mxPc' = "dial" /\ mxSock' = [mxSock EXCEPT ![mxRaw] = "closed"]
              /\ mxTun' \in {mxTun, mxTun \ {mxTunNow.id}}
              /\ \E r : mxTunNow' = [mxTunNow EXCEPT !.restart = r]
    BY <1>4 DEF mxStartup
  <2>2. mxTunNow'.id = mxTunNow.id /\ \E i, r : mxTunNow' = [id |-> i, restart |-> r] BY <1>i, <1>j, <2>1
  <2>3. /\ mxSock' \in [MxCands -> {"none", "dialing", "open", "closed"}]
        /\ \A d \in MxCands : mxSock'[d] \in {mxSock[d], "closed"}
        /\ mxPc' \in {"dial", "init"}
    BY <1>t, <2>1 DEF MachineTypeOK
  <2>4. mxTun' \subseteq {mxTunNow'.id} BY <1>t, <2>1, <2>2 DEF SocketInv
  <2>5. SocketInv' BY <1>t, <1>s, <2>1, <2>3, <2>4 DEF SocketInv, MachineLeavesNothing
  <2>6. MachineTypeOK' BY <1>t, <2>1, <2>2, <2>3 DEF MachineTypeOK, MxOpening
  <2> QED BY <2>1, <2>3, <2>5, <2>6, OpeningTalk DEF MxInv, MxOpening
<1>5. CASE mxExhausted \/ mxInitialize
  <2>1. /\ mxPc \in {"dial", "init"} /\ mxPc' \in {"giveup", "ready"}
        /\ UNCHANGED <<mxTun, mxTunNow, mxSock, mxRaw, mxSrv, mxCommitted, mxOp, mxRep>>
    BY <1>5 DEF mxExhausted, mxInitialize
  <2>2. SocketInv' BY <1>t, <1>s, <2>1 DEF SocketInv, MachineLeavesNothing
  <2>3. MachineTypeOK' BY <1>t, <2>1 DEF MachineTypeOK, MxOpening, MxTalking
  <2> QED BY <2>1, <2>2, <2>3, OpeningTalk DEF MxInv, MxOpening
<1>6. CASE mxGiveUp
  <2>1. /\ mxPc = "giveup" /\ mxPc' = "failed" /\ mxAbort
        /\ UNCHANGED <<mxTunNow, mxRaw, mxSrv, mxCommitted, mxOp, mxRep>>
    BY <1>6 DEF mxGiveUp
  <2>2. /\ mxTun' = {} /\ mxSock' \in [MxCands -> {"none", "dialing", "open", "closed"}]
        /\ \A c \in MxCands : mxSock'[c] \notin {"open", "dialing"}
    BY <1>t, <1>s, <2>1, AbortLeavesNothing
  <2>3. SocketInv' BY <2>2 DEF SocketInv, MachineLeavesNothing
  <2>4. MachineTypeOK' BY <1>t, <2>1, <2>2 DEF MachineTypeOK, MxOpening
  <2> QED BY <2>1, <2>3, <2>4, OpeningTalk DEF MxInv, MxOpening
<1> QED BY <1>1, <1>2, <1>3, <1>4, <1>5, <1>6, <1>7

\* After an exchange the caller has its answer, or an error from a server it still
\* reaches, or no connection.
LEMMA Exchanged ==
    ASSUME MachineTypeOK, SocketInv, mxRaw' = mxRaw,
           NEW next \in MxSrvs, NEW good, NEW bad, Exchange(next, good, bad)
    PROVE  /\ mxTun' = mxTun /\ mxSock' \in {mxSock, mxSockAfterAbort} /\ mxSrv' \in MxSrvs
           /\ \/ mxPc' = good /\ mxSrv' = next /\ mxSock' = mxSock /\ ~mxIsClosed
              \/ mxPc' = bad /\ mxSock' = mxSock /\ (mxSrv = "I" => mxSrv' = "I")
              \/ mxPc' = bad /\ mxIsClosed'
<1>1. mxSrv \in MxSrvs /\ Failed(mxSrv) \in MxSrvs /\ (mxSrv = "I" => Failed(mxSrv) = "I")
  BY DEF MachineTypeOK, Failed, MxSrvs
<1>2. mxSock' = mxSockAfterAbort => mxIsClosed' BY AbortCloses
<1> QED BY <1>1, <1>2 DEF Exchange

\* What is left to show of a talking step once its sockets and its server are known.
LEMMA TalkingStep ==
    ASSUME MachineTypeOK, SocketInv, mxPc \in MxTalking \ {"closed"}, mxPc' \in MxTalking,
           mxRaw' = mxRaw, mxTunNow' = mxTunNow,
           \/ mxSock' = mxSock /\ mxTun' = mxTun
           \/ mxSock' = mxSockAfterAbort /\ mxTun' \in {mxTun, mxTunAfterAbort},
           mxPc' = "closed" => mxAbort,
           mxSrv' \in MxSrvs, mxRep' \in MxReports, mxOp' \in {"none", "query", "execute", "atomic"}
    PROVE  MachineTypeOK' /\ SocketInv' /\ (mxIsClosed => mxIsClosed')
<1>1. /\ SocketInv' /\ mxSock' \in [MxCands -> {"none", "dialing", "open", "closed"}]
      /\ mxIsClosed => mxIsClosed'
  BY TalkingSockets
<1> QED BY <1>1 DEF MachineTypeOK

\* The stages up to the script: nothing has been sent that could leave an effect.
LEMMA StartingSteps ==
    ASSUME MxInv, mxBegin \/ mxSetup \/ mxBeginTx \/ mxSetLocal
    PROVE  MxInv'
<1>t. MachineTypeOK /\ SocketInv /\ ServerInv /\ ReportInv /\ "I" \in MxSrvs /\ "T" \in MxSrvs BY DEF MxInv, MxSrvs
<1>1. CASE mxBegin
  <2>1. PICK op \in {"query", "execute", "atomic"} :
          /\ mxOp' = op
          /\ mxRep' = [NoReport EXCEPT !.outcome = IF op = "atomic" THEN "not_started" ELSE "none"]
          /\ \/ op = "atomic" /\ mxAbort /\ mxPc' = "reported"
             \/ op = "atomic" /\ mxPc' = "reported" /\ UNCHANGED <<mxAborted, mxTun, mxSock>>
             \/ mxPc' = "setup" /\ UNCHANGED <<mxAborted, mxTun, mxSock>>
    BY <1>1 DEF mxBegin
  <2>2. mxPc = "ready" /\ mxCommitted' = FALSE /\ UNCHANGED <<mxTunNow, mxRaw, mxSrv>> BY <1>1 DEF mxBegin
  <2>3. /\ mxRep' \in MxReports /\ mxRep'.exec = "not_started" /\ ~mxRep'.attempted
        /\ ~mxRep'.definitive /\ mxRep'.outcome = IF op = "atomic" THEN "not_started" ELSE "none"
    BY <2>1 DEF NoReport, MxReports, MxOutcomes, MxExecutions
  <2>4. /\ \/ mxSock' = mxSock /\ mxTun' = mxTun
           \/ mxSock' = mxSockAfterAbort /\ mxTun' = mxTunAfterAbort
        /\ mxPc' \in {"setup", "reported"}
    BY <2>1 DEF mxAbort
  <2>5. MachineTypeOK' /\ SocketInv' /\ (mxIsClosed => mxIsClosed')
    BY <1>t, <2>1, <2>2, <2>3, <2>4, TalkingStep DEF MxTalking, MachineTypeOK
  <2>6. ServerInv' BY <1>t, <2>1, <2>2, <2>3, <2>4, <2>5 DEF ServerInv, MxOpening
  <2>7. ReportInv' BY <2>1, <2>2, <2>3, <2>4 DEF ReportInv, NotSent
  <2> QED BY <2>5, <2>6, <2>7 DEF MxInv
<1>2. CASE mxSetup
  <2> DEFINE good == IF mxOp = "atomic" THEN "begin" ELSE IF mxCtx THEN "reported" ELSE "script"
  <2>1. /\ mxPc = "setup" /\ UNCHANGED <<mxCommitted, mxOp, mxRep, mxRaw, mxTunNow>>
        /\ \/ mxOp = "query" /\ mxPc' = "begin" /\ UNCHANGED <<mxSrv, mxAborted, mxTun, mxSock>>
           \/ mxOp # "query" /\ Exchange(mxSrv, good, "reported")
    BY <1>2 DEF mxSetup, mxSame
  <2>2. ~mxIsClosed => mxSrv = "I" BY <1>t, <2>1 DEF ServerInv
  <2>3. /\ mxTun' = mxTun /\ mxSock' \in {mxSock, mxSockAfterAbort} /\ mxSrv' \in MxSrvs
        /\ mxPc' \in {IF mxOp = "query" THEN "begin" ELSE good, "reported"}
        /\ mxIsClosed' \/ mxSrv' = "I"
    <3>1. CASE mxOp = "query" BY <1>t, <2>1, <2>2, <3>1 DEF mxIsClosed, MachineTypeOK
    <3>2. CASE mxOp # "query"
      <4>1. mxSrv \in MxSrvs BY <1>t DEF MachineTypeOK
      <4>2. mxSock' = mxSock => (mxIsClosed' <=> mxIsClosed) BY <2>1 DEF mxIsClosed
      <4> HIDE DEF good
      <4>3. /\ mxTun' = mxTun /\ mxSock' \in {mxSock, mxSockAfterAbort} /\ mxSrv' \in MxSrvs
            /\ \/ mxPc' = good /\ mxSrv' = mxSrv /\ mxSock' = mxSock /\ ~mxIsClosed
               \/ mxPc' = "reported" /\ mxSock' = mxSock /\ (mxSrv = "I" => mxSrv' = "I")
               \/ mxPc' = "reported" /\ mxIsClosed'
        BY <1>t, <2>1, <3>2, <4>1, Exchanged
      <4> QED BY <2>2, <3>2, <4>2, <4>3
    <3> QED BY <3>1, <3>2
  <2>4. /\ mxPc' \in {"begin", "script", "reported"}
        /\ mxPc' = "begin" => mxOp # "execute"
        /\ mxPc' = "script" => mxOp = "execute"
    BY <1>t, <2>1, <2>3 DEF ReportInv, MachineTypeOK
  <2>5. MachineTypeOK' /\ SocketInv' /\ (mxIsClosed => mxIsClosed')
    BY <1>t, <2>1, <2>3, <2>4, TalkingStep DEF MxTalking, MachineTypeOK
  <2>6. ServerInv' BY <1>t, <2>1, <2>3, <2>4 DEF ServerInv, ReportInv, MxOpening
  <2>7. ReportInv' BY <1>t, <2>1, <2>3, <2>4 DEF ReportInv, NotSent
  <2> QED BY <2>5, <2>6, <2>7 DEF MxInv
<1>3. CASE mxBeginTx
  <2> DEFINE bad == IF mxOp = "atomic" THEN "cleanup" ELSE "reported"
  <2>1. /\ mxPc = "begin" /\ UNCHANGED <<mxCommitted, mxOp, mxRaw, mxTunNow>>
        /\ Exchange("T", "local", bad)
        /\ mxRep' = IF mxOp = "atomic" THEN [mxRep EXCEPT !.outcome = "disposed"] ELSE mxRep
    BY <1>3 DEF mxBeginTx, mxSame
  <2>2. ~mxIsClosed => mxSrv = "I" BY <1>t, <2>1 DEF ServerInv
  <2>3. mxSock' = mxSock => (mxIsClosed' <=> mxIsClosed) BY <2>1 DEF mxIsClosed
  <2>4. /\ mxTun' = mxTun /\ mxSock' \in {mxSock, mxSockAfterAbort} /\ mxSrv' \in MxSrvs
        /\ \/ mxPc' = "local" /\ mxSrv' = "T"
           \/ mxPc' = bad /\ (mxIsClosed' \/ mxSrv' = "I")
    <3> HIDE DEF bad
    <3>1. /\ mxTun' = mxTun /\ mxSock' \in {mxSock, mxSockAfterAbort} /\ mxSrv' \in MxSrvs
          /\ \/ mxPc' = "local" /\ mxSrv' = "T"
             \/ mxPc' = bad /\ mxSock' = mxSock /\ (mxSrv = "I" => mxSrv' = "I")
             \/ mxPc' = bad /\ mxIsClosed'
      BY <1>t, <2>1, Exchanged
    <3> QED BY <2>2, <2>3, <3>1
  <2>5. /\ mxRep' \in MxReports /\ mxRep'.exec = mxRep.exec /\ mxRep'.attempted = mxRep.attempted
        /\ mxRep'.definitive = mxRep.definitive
        /\ mxRep'.outcome = IF mxOp = "atomic" THEN "disposed" ELSE mxRep.outcome
    BY <1>t, <2>1 DEF MachineTypeOK, MxReports, MxOutcomes
  <2>6. /\ mxPc' \in {"local", bad} /\ mxOp # "execute" /\ mxRep.exec = "not_started" /\ NotSent
        /\ mxOp # "atomic" => mxRep.outcome = "none"
    BY <1>t, <2>1, <2>4 DEF ReportInv
  <2>7. MachineTypeOK' /\ SocketInv' /\ (mxIsClosed => mxIsClosed')
    BY <1>t, <2>1, <2>4, <2>5, <2>6, TalkingStep DEF MxTalking, MachineTypeOK
  <2>8. ServerInv' BY <2>1, <2>4, <2>5, <2>6 DEF ServerInv, MxOpening
  <2>9. ReportInv' BY <2>1, <2>5, <2>6 DEF ReportInv, NotSent
  <2> QED BY <2>7, <2>8, <2>9 DEF MxInv
<1>4. CASE mxSetLocal
  <2> DEFINE next == IF mxOp = "atomic" /\ mxCtx THEN "cleanup" ELSE "script"
  <2>1. /\ mxPc = "local" /\ UNCHANGED <<mxCommitted, mxOp, mxRep, mxRaw, mxTunNow>>
        /\ \/ Exchange(mxSrv, next, "cleanup")
           \/ mxPc' = next /\ UNCHANGED <<mxSrv, mxAborted, mxTun, mxSock>>
    BY <1>4 DEF mxSetLocal, mxSame
  <2>2. ~mxIsClosed => mxSrv = "T" BY <1>t, <2>1 DEF ServerInv, ReportInv
  <2>3. mxSock' = mxSock => (mxIsClosed' <=> mxIsClosed) BY <2>1 DEF mxIsClosed
  <2>4. /\ mxTun' = mxTun /\ mxSock' \in {mxSock, mxSockAfterAbort} /\ mxSrv' \in MxSrvs
        /\ mxPc' \in {"script", "cleanup"} /\ (mxPc' = "script" => mxIsClosed' \/ mxSrv' = "T")
    <3>1. mxSrv \in MxSrvs /\ next \in {"script", "cleanup"} BY <1>t DEF MachineTypeOK
    <3> HIDE DEF next
    <3>2. CASE Exchange(mxSrv, next, "cleanup")
      <4>1. /\ mxTun' = mxTun /\ mxSock' \in {mxSock, mxSockAfterAbort} /\ mxSrv' \in MxSrvs
            /\ mxPc' = "cleanup" \/ (mxPc' = next /\ mxSrv' = mxSrv /\ ~mxIsClosed)
        BY <1>t, <2>1, <3>1, <3>2, Exchanged
      <4> QED BY <2>2, <3>1, <4>1
    <3>3. CASE mxPc' = next /\ UNCHANGED <<mxSrv, mxAborted, mxTun, mxSock>> BY <2>2, <2>3, <3>1, <3>3
    <3> QED BY <2>1, <3>2, <3>3
  <2>5. /\ NotSent /\ mxOp # "execute" /\ (mxOp # "atomic" => mxRep.outcome = "none")
        /\ mxOp = "atomic" => mxRep.outcome = "disposed"
    BY <1>t, <2>1 DEF ReportInv
  <2>6. MachineTypeOK' /\ SocketInv' /\ (mxIsClosed => mxIsClosed')
    BY <1>t, <2>1, <2>4, TalkingStep DEF MxTalking, MachineTypeOK
  <2>7. ServerInv' BY <2>1, <2>4, <2>5 DEF ServerInv, MxOpening
  <2>8. ReportInv' BY <2>1, <2>4, <2>5 DEF ReportInv, NotSent
  <2> QED BY <2>6, <2>7, <2>8 DEF MxInv
<1> QED BY <1>1, <1>2, <1>3, <1>4

\* The script: an atomic call stays in its transaction, a native one may leave one.
LEMMA ScriptSteps ==
    ASSUME MxInv, mxScript \/ mxExecute \/ mxExecuteCleanup
    PROVE  MxInv'
<1>t. MachineTypeOK /\ SocketInv /\ ServerInv /\ ReportInv /\ mxSrv \in MxSrvs BY DEF MxInv, MachineTypeOK
<1>1. CASE mxScript
  <2> DEFINE good == IF mxOp = "atomic" THEN "precommit" ELSE "cleanup"
  <2>1. /\ mxPc = "script" /\ mxOp # "execute" /\ Exchange(mxSrv, good, "cleanup")
        /\ UNCHANGED <<mxCommitted, mxOp, mxRaw, mxTunNow>>
        /\ mxRep' = [mxRep EXCEPT !.exec = IF mxPc' = "precommit" THEN "completed" ELSE "failed"]
    BY <1>1 DEF mxScript, mxSame
  <2>2. /\ mxTun' = mxTun /\ mxSock' \in {mxSock, mxSockAfterAbort} /\ mxSrv' \in MxSrvs
        /\ mxPc' \in {good, "cleanup"}
    <3> HIDE DEF good
    <3> QED BY <1>t, <2>1, Exchanged
  <2>3. /\ mxRep' \in MxReports /\ mxRep'.exec \in {"completed", "failed"}
        /\ mxRep'.attempted = mxRep.attempted /\ mxRep'.definitive = mxRep.definitive
        /\ mxRep'.outcome = mxRep.outcome
    BY <1>t, <2>1 DEF MachineTypeOK, MxReports, MxExecutions
  <2>4. /\ mxPc' \in {"precommit", "cleanup"} /\ (mxPc' = "precommit" => mxOp = "atomic")
        /\ NotSent /\ mxRep.outcome = IF mxOp = "atomic" THEN "disposed" ELSE "none"
    BY <1>t, <2>1, <2>2 DEF ReportInv
  <2>5. MachineTypeOK' /\ SocketInv' /\ (mxIsClosed => mxIsClosed')
    BY <1>t, <2>1, <2>2, <2>3, <2>4, TalkingStep DEF MxTalking, MachineTypeOK
  <2>6. ServerInv' BY <2>4 DEF ServerInv, MxOpening
  <2>7. ReportInv' BY <2>1, <2>3, <2>4 DEF ReportInv, NotSent
  <2> QED BY <2>5, <2>6, <2>7 DEF MxInv
<1>2. CASE mxExecute
  <2>1. /\ mxPc = "script" /\ mxOp = "execute" /\ mxPc' = "executed"
        /\ UNCHANGED <<mxCommitted, mxOp, mxRaw, mxTunNow, mxTun>>
        /\ mxSock' \in {mxSock, mxSockAfterAbort} /\ mxSrv' \in MxSrvs
    BY <1>t, <1>2 DEF mxExecute, mxSame, MxSrvs
  <2>2. PICK exec \in {"completed", "failed", "unknown"} :
          mxRep' = [mxRep EXCEPT !.exec = exec] /\ (exec = "completed" => mxSrv' = "I")
    BY <1>2 DEF mxExecute
  <2>3. /\ mxRep' \in MxReports /\ mxRep'.exec = exec /\ mxRep'.attempted = mxRep.attempted
        /\ mxRep'.outcome = mxRep.outcome
    BY <1>t, <2>2 DEF MachineTypeOK, MxReports, MxExecutions
  <2>4. mxRep.outcome = "none" /\ ~mxRep.attempted BY <1>t, <2>1 DEF ReportInv
  <2>5. MachineTypeOK' /\ SocketInv' /\ (mxIsClosed => mxIsClosed')
    BY <1>t, <2>1, <2>3, TalkingStep DEF MxTalking, MachineTypeOK
  <2>6. ServerInv' BY <2>1, <2>2, <2>3 DEF ServerInv, MxOpening
  <2>7. ReportInv' BY <2>1, <2>3, <2>4 DEF ReportInv
  <2> QED BY <2>5, <2>6, <2>7 DEF MxInv
<1>3. CASE mxExecuteCleanup
  <2>1. /\ mxPc = "executed" /\ mxPc' = "reported"
        /\ UNCHANGED <<mxCommitted, mxOp, mxRep, mxRaw, mxTunNow>>
        /\ \/ mxSrv' = "I" /\ UNCHANGED <<mxTun, mxSock>>
           \/ mxAbort /\ mxSrv' = mxSrv
           \/ (mxIsClosed \/ mxSrv = "I") /\ UNCHANGED <<mxSrv, mxTun, mxSock>>
    BY <1>3 DEF mxExecuteCleanup, mxSame
  <2>2. /\ \/ mxSock' = mxSock /\ mxTun' = mxTun
           \/ mxSock' = mxSockAfterAbort /\ mxTun' = mxTunAfterAbort
        /\ mxSrv' \in MxSrvs
    BY <1>t, <2>1 DEF mxAbort, MxSrvs
  <2>3. MachineTypeOK' /\ SocketInv' /\ (mxIsClosed => mxIsClosed')
    BY <1>t, <2>1, <2>2, TalkingStep DEF MxTalking, MachineTypeOK
  <2>4. mxIsClosed' \/ mxSrv' = "I" BY <1>t, <2>1, <2>2, <2>3, AbortCloses DEF mxAbort
  <2>5. mxOp = "execute" /\ (mxRep.exec = "completed" => mxSrv' = "I") BY <1>t, <2>1 DEF ServerInv, ReportInv
  <2>6. ServerInv' BY <2>1, <2>2, <2>4, <2>5 DEF ServerInv, MxOpening
  <2>7. ReportInv' BY <1>t, <2>1, <2>5 DEF ReportInv
  <2> QED BY <2>3, <2>6, <2>7 DEF MxInv
<1> QED BY <1>1, <1>2, <1>3

\* COMMIT and ROLLBACK: the outcome reported is the one the server has.
LEMMA EndingSteps ==
    ASSUME MxInv, mxPrecommit \/ mxCommit \/ mxCleanup
    PROVE  MxInv'
<1>t. MachineTypeOK /\ SocketInv /\ ServerInv /\ ReportInv /\ mxSrv \in MxSrvs BY DEF MxInv, MachineTypeOK
<1>1. CASE mxPrecommit
  <2>1. /\ mxPc = "precommit" /\ mxPc' \in {"commit", "cleanup"}
        /\ UNCHANGED <<mxAborted, mxTun, mxSock, mxSrv, mxCommitted, mxOp, mxRep, mxRaw, mxTunNow>>
    BY <1>1 DEF mxPrecommit, mxSame
  <2>2. MachineTypeOK' /\ SocketInv' BY <1>t, <2>1, TalkingStep DEF MxTalking, MachineTypeOK
  <2>3. ServerInv' BY <1>t, <2>1 DEF ServerInv, MxOpening
  <2>4. ReportInv' BY <1>t, <2>1 DEF ReportInv, NotSent
  <2> QED BY <2>2, <2>3, <2>4 DEF MxInv
<1>2. CASE mxCommit
  <2>1. /\ mxPc = "commit" /\ mxPc' = "cleanup"
        /\ UNCHANGED <<mxOp, mxRaw, mxTunNow, mxTun>>
        /\ mxSock' \in {mxSock, mxSockAfterAbort} /\ mxSrv' \in MxSrvs
    BY <1>t, <1>2 DEF mxCommit, CommitAnswered, CommitUnanswered, mxSame, MxSrvs
  <2>2. NotSent /\ mxOp = "atomic" BY <1>t, <2>1 DEF ReportInv
  <2> DEFINE Ended(out, how, sure) ==
               /\ mxRep' = [outcome |-> out, exec |-> how, attempted |-> TRUE, definitive |-> sure]
               /\ \/ sure /\ out = "committed" /\ mxCommitted' /\ mxSrv' = "I"
                  \/ /\ sure /\ out \in {"rolled_back", "unknown"} /\ how = "failed" /\ ~mxCommitted'
                     /\ out = "rolled_back" => mxSrv' = "I"
                  \/ ~sure /\ out = "unknown"
  <2>3. \E o \in {"committed", "rolled_back", "unknown"}, ex \in MxExecutions, known \in BOOLEAN :
          Ended(o, ex, known)
    <3>1. PICK o \in MxOutcomes, x \in MxExecutions, a \in BOOLEAN, d \in BOOLEAN :
            mxRep = [outcome |-> o, exec |-> x, attempted |-> a, definitive |-> d]
      BY <1>t DEF MachineTypeOK, MxReports
    <3>2. ~d /\ ~mxCommitted BY <2>2, <3>1 DEF NotSent
    <3>3. CASE CommitAnswered
      <4>1. CASE /\ mxCommitted' = TRUE /\ mxSrv' = "I"
                 /\ mxRep' = [mxRep EXCEPT !.outcome = "committed", !.exec = "completed",
                                           !.attempted = TRUE, !.definitive = TRUE]
        <5>1. mxRep' = [outcome |-> "committed", exec |-> "completed", attempted |-> TRUE,
                        definitive |-> TRUE]
          BY <3>1, <4>1
        <5>2. Ended("committed", "completed", TRUE) BY <4>1, <5>1
        <5> QED BY <5>2 DEF MxExecutions
      <4>2. ASSUME NEW w \in {"rolled_back", "unknown"}, mxCommitted' = mxCommitted,
                   w = "rolled_back" => mxSrv' = "I",
                   mxRep' = [mxRep EXCEPT !.outcome = w, !.exec = "failed", !.attempted = TRUE,
                                          !.definitive = TRUE]
            PROVE  \E ex \in MxExecutions, known \in BOOLEAN : Ended(w, ex, known)
        <5>1. mxRep' = [outcome |-> w, exec |-> "failed", attempted |-> TRUE, definitive |-> TRUE] BY <3>1, <4>2
        <5>2. Ended(w, "failed", TRUE) BY <3>2, <4>2, <5>1
        <5> QED BY <5>2 DEF MxExecutions
      <4> HIDE DEF Ended
      <4>3. CASE /\ UNCHANGED mxCommitted
                 /\ mxRep' = [mxRep EXCEPT !.outcome = IF mxSrv' = "I" THEN "rolled_back" ELSE "unknown",
                                           !.exec = "failed", !.attempted = TRUE, !.definitive = TRUE]
        <5>1. mxSrv' = "I" => \E ex \in MxExecutions, known \in BOOLEAN : Ended("rolled_back", ex, known) BY <4>2, <4>3
        <5>2. mxSrv' # "I" => \E ex \in MxExecutions, known \in BOOLEAN : Ended("unknown", ex, known) BY <4>2, <4>3
        <5> QED BY <5>1, <5>2
      <4> QED BY <3>3, <4>1, <4>3 DEF CommitAnswered
    <3>4. CASE mxRep' = [mxRep EXCEPT !.outcome = "unknown", !.exec = "unknown", !.attempted = TRUE]
      <4>1. mxRep' = [outcome |-> "unknown", exec |-> "unknown", attempted |-> TRUE, definitive |-> d] BY <3>1, <3>4
      <4>2. Ended("unknown", "unknown", d) BY <3>2, <4>1
      <4> QED BY <4>2 DEF MxExecutions
    <3> HIDE DEF Ended
    <3> QED BY <1>2, <3>3, <3>4 DEF mxCommit
  <2>4. mxRep' \in MxReports /\ Sent' BY <2>3 DEF MxReports, MxOutcomes, Sent
  <2>6. MachineTypeOK' /\ SocketInv' BY <1>t, <2>1, <2>4, TalkingStep DEF MxTalking, MachineTypeOK
  <2>7. ServerInv' BY <2>1 DEF ServerInv, MxOpening
  <2>8. ReportInv' BY <2>1, <2>2, <2>4 DEF ReportInv
  <2> QED BY <2>6, <2>7, <2>8 DEF MxInv
<1>3. CASE mxCleanup
  <2> DEFINE settled == mxOp = "atomic" /\ mxRep.outcome \in {"committed", "rolled_back"}
             uncertain == mxRep.attempted /\ ~mxRep.definitive
             rolled == [mxRep EXCEPT !.outcome = "rolled_back"]
             dropped == [mxRep EXCEPT !.outcome = "disposed"]
  <2>1. /\ mxPc = "cleanup" /\ mxPc' = "reported"
        /\ UNCHANGED <<mxCommitted, mxOp, mxRaw, mxTunNow>>
        /\ \/ settled /\ UNCHANGED <<mxSrv, mxTun, mxSock, mxRep>>
           \/ ~settled /\ mxSrv' = "I" /\ uncertain /\ mxAbort /\ mxRep' = mxRep
           \/ /\ ~settled /\ mxSrv' = "I" /\ ~uncertain /\ UNCHANGED <<mxTun, mxSock>>
              /\ mxRep' = IF mxOp = "atomic" THEN rolled ELSE mxRep
           \/ /\ ~settled /\ mxAbort /\ mxSrv' = mxSrv
              /\ mxRep' = IF mxOp = "atomic" /\ ~mxRep.attempted THEN dropped ELSE mxRep
    BY <1>3 DEF mxCleanup, mxSame
  <2>2. /\ mxOp # "execute" /\ (mxOp # "atomic" => mxRep.outcome = "none" /\ ~mxRep.attempted)
        /\ mxOp = "atomic" => (NotSent /\ mxRep.outcome = "disposed") \/ Sent
    BY <1>t, <2>1 DEF ReportInv
  <2>3. /\ rolled \in MxReports /\ rolled.outcome = "rolled_back" /\ rolled.exec = mxRep.exec
        /\ rolled.attempted = mxRep.attempted /\ rolled.definitive = mxRep.definitive
        /\ dropped \in MxReports /\ dropped.outcome = "disposed" /\ dropped.exec = mxRep.exec
        /\ dropped.attempted = mxRep.attempted /\ dropped.definitive = mxRep.definitive
    BY <1>t DEF MachineTypeOK, MxReports, MxOutcomes
  <2> HIDE DEF rolled, dropped
  <2>4. /\ mxRep' \in MxReports
        /\ mxOp # "atomic" => mxRep'.outcome = "none" /\ ~mxRep'.attempted
        /\ \/ mxSock' = mxSock /\ mxTun' = mxTun
           \/ mxSock' = mxSockAfterAbort /\ mxTun' = mxTunAfterAbort
        /\ mxSrv' \in MxSrvs
    BY <1>t, <2>1, <2>2, <2>3 DEF mxAbort, MxSrvs, MachineTypeOK
  <2>5. MachineTypeOK' /\ SocketInv' /\ (mxIsClosed => mxIsClosed')
    BY <1>t, <2>1, <2>4, TalkingStep DEF MxTalking, MachineTypeOK
  <2>6. mxIsClosed' \/ mxSrv' = "I" BY <1>t, <2>1, <2>2, AbortCloses DEF mxAbort, NotSent, Sent
  <2>7. ServerInv' BY <2>1, <2>2, <2>4, <2>6 DEF ServerInv, MxOpening
  <2>8. mxOp = "atomic" => (NotSent' /\ mxRep'.outcome \in {"disposed", "rolled_back"}) \/ Sent'
    BY <2>1, <2>2, <2>3 DEF NotSent, Sent
  <2>9. ReportInv' BY <2>1, <2>2, <2>4, <2>8 DEF ReportInv
  <2> QED BY <2>5, <2>7, <2>9 DEF MxInv
<1> QED BY <1>1, <1>2, <1>3

\* The caller between two operations, and at its end.
LEMMA LeavingSteps ==
    ASSUME MxInv, mxReturn \/ mxClose
    PROVE  MxInv'
<1>t. MachineTypeOK /\ SocketInv /\ ServerInv /\ ReportInv BY DEF MxInv
<1>1. CASE mxReturn
  <2>1. /\ mxPc = "reported" /\ mxPc' = "ready" /\ mxOp' = "none" /\ mxRep' = NoReport
        /\ UNCHANGED <<mxSrv, mxTun, mxSock, mxRaw, mxTunNow>>
    BY <1>1 DEF mxReturn, mxSame
  <2>2. MachineTypeOK' /\ SocketInv' /\ (mxIsClosed' => mxIsClosed)
    BY <1>t, <2>1, MachineBlanks, TalkingStep DEF MxTalking, MachineTypeOK, mxIsClosed
  <2>3. ServerInv' BY <1>t, <2>1, <2>2 DEF ServerInv, MxOpening, mxIsClosed
  <2>4. ReportInv' BY <2>1, MachineBlanks DEF ReportInv
  <2> QED BY <2>2, <2>3, <2>4 DEF MxInv
<1>2. CASE mxClose
  <2>1. /\ mxPc = "ready" /\ mxPc' = "closed" /\ mxAbort
        /\ UNCHANGED <<mxSrv, mxCommitted, mxOp, mxRep, mxRaw, mxTunNow>>
    BY <1>2 DEF mxClose, mxSame
  <2>2. MachineTypeOK' /\ SocketInv' BY <1>t, <2>1, TalkingStep DEF MxTalking, MachineTypeOK, mxAbort
  <2>3. ServerInv' BY <1>t, <2>1 DEF ServerInv, MxOpening
  <2>4. ReportInv' BY <1>t, <2>1 DEF ReportInv
  <2> QED BY <2>2, <2>3, <2>4 DEF MxInv
<1> QED BY <1>1, <1>2

\* The caller's context, its watcher and the server act at any stage.
LEMMA OutsideSteps ==
    ASSUME MxInv, mxCancel \/ mxWatch \/ mxServerDrops
    PROVE  MxInv'
<1>t. MachineTypeOK /\ SocketInv /\ ServerInv /\ ReportInv BY DEF MxInv
<1>1. CASE mxCancel
  <2>1. UNCHANGED <<mxPc, mxTun, mxTunNow, mxSock, mxRaw, mxSrv, mxCommitted, mxOp, mxRep>> BY <1>1 DEF mxCancel
  <2>2. MachineTypeOK' /\ SocketInv' /\ (mxIsClosed <=> mxIsClosed')
    BY <1>t, <2>1 DEF MachineTypeOK, SocketInv, MachineLeavesNothing, mxIsClosed
  <2>3. ServerInv' /\ ReportInv' BY <1>t, <2>1, <2>2 DEF ServerInv, ReportInv, NotSent, Sent
  <2> QED BY <2>2, <2>3 DEF MxInv
<1>2. CASE mxWatch
  <2>1. mxAbort /\ UNCHANGED <<mxPc, mxTunNow, mxRaw, mxSrv, mxCommitted, mxOp, mxRep>> BY <1>2 DEF mxWatch
  <2>2. /\ mxTun' = {} /\ mxIsClosed'
        /\ mxSock' \in [MxCands -> {"none", "dialing", "open", "closed"}]
        /\ \A c \in MxCands : mxSock'[c] # "open"
        /\ \A c \in MxCands : mxSock'[c] = "dialing" => mxSock[c] = "dialing"
    BY <1>t, <2>1, AbortLeavesNothing
  <2>3. MachineTypeOK' /\ SocketInv' BY <1>t, <2>1, <2>2 DEF MachineTypeOK, SocketInv, MachineLeavesNothing
  <2>4. ServerInv' /\ ReportInv' BY <1>t, <2>1, <2>2 DEF ServerInv, ReportInv, NotSent, Sent
  <2> QED BY <2>3, <2>4 DEF MxInv
<1>3. CASE mxServerDrops
  <2>1. /\ mxIsClosed /\ mxSrv' = "I"
        /\ UNCHANGED <<mxPc, mxTun, mxTunNow, mxSock, mxRaw, mxCommitted, mxOp, mxRep>>
    BY <1>3 DEF mxServerDrops
  <2>2. MachineTypeOK' /\ SocketInv' /\ mxIsClosed'
    BY <1>t, <2>1 DEF MachineTypeOK, MxSrvs, SocketInv, MachineLeavesNothing, mxIsClosed
  <2>3. ServerInv' /\ ReportInv' BY <1>t, <2>1, <2>2 DEF ServerInv, ReportInv, NotSent, Sent
  <2> QED BY <2>2, <2>3 DEF MxInv
<1> QED BY <1>1, <1>2, <1>3

LEMMA MachineStep == MxInv /\ [MachineNext]_machineVars => MxInv'
<1> SUFFICES ASSUME MxInv, [MachineNext]_machineVars PROVE MxInv' OBVIOUS
<1>1. CASE mxCancel \/ mxWatch \/ mxServerDrops BY <1>1, OutsideSteps
<1>2. CASE \/ mxOpenTunnel \/ mxStartup \/ mxExhausted \/ mxInitialize \/ mxGiveUp
           \/ \E c \in MxCands : mxDialStart(c) \/ mxRestarted(c) \/ mxDialed(c)
  BY <1>2, OpeningSockets
<1>3. CASE mxBegin \/ mxSetup \/ mxBeginTx \/ mxSetLocal BY <1>3, StartingSteps
<1>4. CASE mxScript \/ mxExecute \/ mxExecuteCleanup BY <1>4, ScriptSteps
<1>5. CASE mxPrecommit \/ mxCommit \/ mxCleanup BY <1>5, EndingSteps
<1>6. CASE mxReturn \/ mxClose BY <1>6, LeavingSteps
<1>7. CASE UNCHANGED machineVars
  <2>1. UNCHANGED <<mxPc, mxTun, mxTunNow, mxSock, mxRaw, mxSrv, mxCommitted, mxOp, mxRep>> BY <1>7 DEF machineVars
  <2>2. MachineTypeOK' /\ SocketInv' /\ (mxIsClosed <=> mxIsClosed')
    BY <2>1 DEF MxInv, MachineTypeOK, SocketInv, MachineLeavesNothing, mxIsClosed
  <2>3. ServerInv' /\ ReportInv' BY <2>1, <2>2 DEF MxInv, ServerInv, ReportInv, NotSent, Sent
  <2> QED BY <2>2, <2>3 DEF MxInv
<1> QED BY <1>1, <1>2, <1>3, <1>4, <1>5, <1>6, <1>7 DEF MachineNext

\* The one command-line call keeps its invariant, over any number of candidate
\* endpoints and operations, with or without a tunnel (connectMachine, Execute,
\* ExecuteTemporaryAtomic, Abort, Close).
THEOREM MachineInvariant == MachineSpec => []MxInv
BY MachineStart, MachineStep, PTL DEF MachineSpec

\* What a command-line call reports of its transaction is true, and a client that
\* failed to open or was closed leaves no socket and no tunnel, whichever message is
\* lost and whenever its context ends (ExecuteTemporaryAtomic, Execute, OpenMachine,
\* Abort, Close).
THEOREM MachineTheorem == MachineSpec => []MachineTruth
<1>1. MxInv => MachineTruth BY MachineFollows
<1> QED BY <1>1, MachineInvariant, PTL

-----------------------------------------
(* The state store: its promises hold for any number of mutations, savers *)
(* and closers, wherever a timer fires, a write fails or Close cuts in. *)

AppStates == [n : Int, canon : BOOLEAN, legacy : BOOLEAN]
Places == {"idle", "armed", "stopped", "waiting", "locked", "writing", "written", "done"}
Writers == [at : Places, snap : AppStates, ok : BOOLEAN]

StTypeOK ==
    /\ stMem \in AppStates /\ stMem.n \in Nat
    /\ stDisk \in AppStates
    /\ stLoad \in {"unread", "ok", "failed"}
    /\ stTimer \in StTickets \cup {NoTicket}
    /\ stSaving \in Int /\ stErr \in BOOLEAN
    /\ stWriter \in [StWriters -> Writers]
    /\ stCloser \in [StClosers -> {"idle", "won", "draining", "waiting", "returned"}]
    /\ stFlush \in [at : {"idle", "waiting", "overtaken", "returned"}, covers : Nat, ok : BOOLEAN]

\* Tickets are used in turn; only the last one is armed, and only Close takes it back.
TicketInv ==
    /\ stMem.n \in StTickets \cup {0}
    /\ \A t \in StTickets :
         /\ stWriter[t].at = "idle" <=> t > stMem.n
         /\ stWriter[t].at = "armed" => stTimer = t
         /\ t = stMem.n /\ stWriter[t].at = "stopped" => StClosed

\* One writer at a time is past writeMu.
Inside(w) == stWriter[w].at \in {"locked", "writing", "written"}
MutexInv == \A w \in StWriters : Inside(w) => stWriteMu = {w}

\* A snapshot is as new as every ticket that was spent before it was taken, and
\* the file is not newer than it.
SnapInv ==
    \A w \in StWriters :
        /\ stWriter[w].at = "writing" => stLoad = "ok" /\ stWriter[w].snap.n >= stDisk.n
        /\ stWriter[w].at = "written" /\ stWriter[w].ok => stDisk.n = stWriter[w].snap.n
        /\ stWriter[w].at \in {"writing", "written"} =>
             /\ stWriter[w].snap.n \in 0..stMem.n
             /\ \A t \in StTickets : t = w \/ stWriter[t].at = "done" => stWriter[w].snap.n >= t

\* The file against the state in memory. When the newest mutation's ticket is
\* spent and no error is left behind, the mutation is in the file.
DiskInv ==
    /\ stDisk.n <= stMem.n
    /\ stLoad = "ok" => stDisk.n >= 0
    /\ stLoad = "failed" => stDisk = Corrupt /\ stErr /\ stMem.n = 0
    /\ stLoad = "unread" => /\ stMem.n = 0 /\ stFlush.at = "idle"
                            /\ stDisk = Corrupt \/ stDisk.n = 0
                            /\ \A w \in StWriters : stWriter[w].at = "idle"
    /\ stLoad = "ok" /\ ~stErr => \A t \in StTickets :
         t = stMem.n /\ stWriter[t].at = "done" => stDisk.n >= t
    /\ stDisk.n > 0 => ~(stDisk.canon /\ stDisk.legacy)

FlushInv ==
    /\ stFlush.covers <= stMem.n
    /\ stFlush.at = "returned" /\ stFlush.ok => stDisk.n >= stFlush.covers

CountInv == stPending = Cardinality(InFlightTickets)

StInv == StTypeOK /\ TicketInv /\ MutexInv /\ SnapInv /\ DiskInv /\ FlushInv /\ CountInv

-----------------------------------------
(* Tickets in flight. *)

\* They are among the tickets handed out, so there are finitely many.
LEMMA InFlightFinite ==
    ASSUME StInv
    PROVE  IsFiniteSet(InFlightTickets)
<1>1. \A t \in InFlightTickets : t \in Nat /\ t <= stMem.n
  <2> SUFFICES ASSUME NEW t \in InFlightTickets PROVE t \in Nat /\ t <= stMem.n OBVIOUS
  <2>1. t \in StTickets /\ t \in Nat /\ stWriter[t].at # "idle" /\ stMem.n \in Nat
    BY StoreAssumption DEF InFlightTickets, StInv, StTypeOK
  <2> QED BY <2>1 DEF StInv, TicketInv
<1>2. InFlightTickets \in SUBSET Nat /\ stMem.n \in Nat BY <1>1 DEF StInv, StTypeOK
<1> QED BY <1>1, <1>2, FS_BoundedSetOfNaturals

\* No ticket is in flight when the counter is at zero.
LEMMA QuietMeansNone ==
    ASSUME StInv, stPending = 0
    PROVE  InFlightTickets = {}
<1> HIDE DEF InFlightTickets
<1>1. Cardinality(InFlightTickets) = 0 BY DEF StInv, CountInv
<1> QED BY <1>1, InFlightFinite, FS_EmptySet

\* The armed timer's ticket.
LEMMA StoppedFacts ==
    ASSUME StInv, Stopped
    PROVE  stTimer \in InFlightTickets /\ stTimer \in StTickets /\ stTimer <= stMem.n
<1>1. stTimer \in StTickets /\ stWriter[stTimer].at = "armed" BY DEF StInv, StTypeOK, Stopped
<1>2. stTimer \in Nat /\ stMem.n \in Nat BY <1>1, StoreAssumption DEF StInv, StTypeOK
<1> QED BY <1>1, <1>2 DEF InFlightTickets, StInv, TicketInv

\* A mutation moves its ticket in and gives a stopped one back.
LEMMA ScheduleCount ==
    ASSUME StInv, NextTicket \in StTickets, scheduleSaveLocked
    PROVE  stPending' = Cardinality(InFlightTickets')
<1> DEFINE Kept == IF Stopped THEN InFlightTickets \ {stTimer} ELSE InFlightTickets
<1>1. /\ stMem.n \in Nat /\ NextTicket \in Nat /\ NextTicket > stMem.n
      /\ stWriter \in [StWriters -> Writers] /\ StTickets \subseteq StWriters
  BY DEF StInv, StTypeOK, NextTicket, StWriters
<1>2. NextTicket \notin InFlightTickets BY <1>1 DEF StInv, TicketInv, InFlightTickets
<1>3. \A t \in StTickets :
        stWriter'[t].at = IF t = NextTicket THEN "armed"
                          ELSE IF t = stTimer /\ Stopped THEN "stopped" ELSE stWriter[t].at
  <2> SUFFICES ASSUME NEW t \in StTickets
               PROVE  stWriter'[t].at = IF t = NextTicket THEN "armed"
                          ELSE IF t = stTimer /\ Stopped THEN "stopped" ELSE stWriter[t].at
    OBVIOUS
  <2>1. stWriter[t] \in Writers /\ t \in StWriters BY <1>1
  <2> QED BY <2>1 DEF scheduleSaveLocked, Writers
<1>4. InFlightTickets' = Kept \cup {NextTicket}
  <2> SUFFICES ASSUME NEW t \in StTickets
               PROVE  t \in InFlightTickets' <=> t \in Kept \cup {NextTicket}
    BY StoppedFacts DEF InFlightTickets
  <2> QED BY <1>3, StoppedFacts DEF InFlightTickets
<1>5. stPending = Cardinality(InFlightTickets) /\ IsFiniteSet(InFlightTickets) BY InFlightFinite DEF StInv, CountInv
<1>6. stPending' = stPending + (IF Stopped THEN 0 ELSE 1) BY DEF scheduleSaveLocked
<1>7. Stopped => stTimer \in InFlightTickets BY StoppedFacts
<1> HIDE DEF InFlightTickets
<1>8. /\ IsFiniteSet(Kept) /\ Cardinality(Kept) \in Nat /\ NextTicket \notin Kept
      /\ Cardinality(Kept) = stPending - (IF Stopped THEN 1 ELSE 0)
      /\ stPending \in Nat
  BY <1>2, <1>5, <1>7, FS_RemoveElement, FS_CardinalityType
<1> HIDE DEF Kept
<1>9. Cardinality(Kept \cup {NextTicket}) = Cardinality(Kept) + 1 BY <1>8, FS_AddElement
<1> QED BY <1>4, <1>6, <1>8, <1>9

\* A ticket that leaves the flight.
LEMMA LeaveCount ==
    ASSUME StInv, NEW t \in InFlightTickets,
           \A u \in StTickets : stWriter'[u].at = IF u = t THEN stWriter'[t].at ELSE stWriter[u].at,
           stWriter'[t].at \in {"stopped", "done"},
           stPending' = stPending - 1
    PROVE  stPending' = Cardinality(InFlightTickets')
<1>1. InFlightTickets' = InFlightTickets \ {t} BY DEF InFlightTickets
<1> HIDE DEF InFlightTickets
<1>2. stPending = Cardinality(InFlightTickets) /\ IsFiniteSet(InFlightTickets) BY InFlightFinite DEF StInv, CountInv
<1> QED BY <1>1, <1>2, FS_RemoveElement

\* Steps that keep every ticket on its side.
LEMMA SameCount ==
    ASSUME StInv, stPending' = stPending,
           \A u \in StTickets : stWriter'[u].at \in {"idle", "stopped", "done"}
                                  <=> stWriter[u].at \in {"idle", "stopped", "done"}
    PROVE  stPending' = Cardinality(InFlightTickets')
<1>1. InFlightTickets' = InFlightTickets BY DEF InFlightTickets
<1> QED BY <1>1 DEF StInv, CountInv

-----------------------------------------
(* Mutations. *)

\* Nothing has happened when the file is read.
LEMMA LoadKeeps ==
    ASSUME StInv, StLoadFile
    PROVE  StInv'
<1>1. /\ stMem' \in AppStates /\ stMem'.n = 0
      /\ stLoad' = "ok" => stDisk.n = 0
      /\ stLoad' = "failed" => stDisk = Corrupt /\ stErr'
      /\ stLoad' \in {"ok", "failed"} /\ stErr' \in BOOLEAN
      /\ stDisk.n <= 0
  <2>1. stMem.n = 0 /\ stMem \in AppStates /\ stDisk \in AppStates BY DEF StInv, DiskInv, StTypeOK, StLoadFile
  <2>2. CASE stDisk = Corrupt
    <3>1. stErr' = TRUE /\ stLoad' = "failed" /\ stMem' = stMem BY <2>2, Zenon DEF StLoadFile
    <3> QED BY <2>1, <2>2, <3>1 DEF Corrupt
  <2>3. CASE stDisk # Corrupt
    <3>1. stDisk.n = 0 BY <2>3 DEF StInv, DiskInv, StLoadFile
    <3>2. /\ stMem' = removeCanonicalLegacySettings(stDisk)
          /\ stLoad' = "ok" /\ stErr' = FALSE
      BY <2>3, Zenon DEF StLoadFile
    <3>3. removeCanonicalLegacySettings(stDisk) \in AppStates
          /\ removeCanonicalLegacySettings(stDisk).n = stDisk.n
      BY <2>1 DEF removeCanonicalLegacySettings, AppStates
    <3>4. stErr' \in BOOLEAN /\ stLoad' # "failed" /\ stLoad' \in {"ok", "failed"} BY <3>2
    <3>5. stMem' \in AppStates /\ stMem'.n = 0 /\ stDisk.n <= 0 BY <3>1, <3>2, <3>3
    <3> QED BY <3>1, <3>4, <3>5
  <2> QED BY <2>2, <2>3
<1>2. /\ stMem.n = 0
      /\ UNCHANGED <<stDisk, stTimer, stPending, stSaving, stWriteMu, stWriter, stCloser, stFlush>>
      /\ \A w \in StWriters : stWriter[w].at = "idle"
      /\ stFlush.at = "idle"
  BY DEF StInv, DiskInv, StLoadFile
<1>3. StTypeOK' /\ TicketInv' /\ MutexInv' /\ FlushInv' /\ CountInv'
  <2>1. InFlightTickets' = InFlightTickets /\ StClosed' = StClosed BY <1>2 DEF InFlightTickets, StClosed
  <2> QED BY <1>1, <1>2, <2>1 DEF StInv, StTypeOK, TicketInv, MutexInv, Inside, FlushInv, CountInv
<1>4. SnapInv' BY <1>2 DEF SnapInv
<1>5. DiskInv'
  <2>1. stDisk \in AppStates /\ \A t \in StTickets : stWriter[t].at = "idle" BY <1>2 DEF StInv, StTypeOK, StWriters
  <2> QED BY <1>1, <1>2, <2>1 DEF DiskInv, AppStates
<1> QED BY <1>3, <1>4, <1>5 DEF StInv

\* An accepted mutation takes the next ticket.
LEMMA MutationKeeps ==
    ASSUME StInv, Accepted, NextTicket \in StTickets, scheduleSaveLocked,
           stMem' \in AppStates, stMem'.n = NextTicket,
           UNCHANGED <<stDisk, stLoad, stSaving, stErr, stWriteMu, stCloser, stFlush>>
    PROVE  StInv'
<1>1. /\ stMem.n \in Nat /\ NextTicket = stMem.n + 1 /\ StTickets \subseteq StWriters
      /\ stWriter \in [StWriters -> Writers] /\ stLoad = "ok" /\ ~StClosed
      /\ stDisk \in AppStates
      /\ \A t \in StTickets : t \in Nat \ {0}
  BY StoreAssumption DEF StInv, StTypeOK, NextTicket, StWriters, Accepted
<1>2. /\ stWriter' \in [StWriters -> Writers]
      /\ \A w \in StWriters :
           /\ stWriter'[w].snap = stWriter[w].snap /\ stWriter'[w].ok = stWriter[w].ok
           /\ w = NextTicket => stWriter'[w].at = "armed"
           /\ w = stTimer /\ w # NextTicket /\ Stopped => stWriter'[w].at = "stopped"
           /\ w # NextTicket /\ ~(w = stTimer /\ Stopped) => stWriter'[w].at = stWriter[w].at
  <2>1. stWriter' = [w \in StWriters |->
                      IF w = NextTicket THEN [stWriter[w] EXCEPT !.at = "armed"]
                      ELSE IF w = stTimer /\ Stopped THEN [stWriter[w] EXCEPT !.at = "stopped"]
                      ELSE stWriter[w]]
    BY DEF scheduleSaveLocked
  <2>2. \A w \in StWriters : /\ [stWriter[w] EXCEPT !.at = "armed"] \in Writers
                             /\ [stWriter[w] EXCEPT !.at = "stopped"] \in Writers
                             /\ stWriter[w] \in Writers
    BY <1>1 DEF Writers, Places
  <2> QED BY <2>1, <2>2 DEF Writers
<1>3. /\ stTimer' = NextTicket
      /\ Stopped => stTimer \in StTickets /\ stTimer <= stMem.n /\ stWriter[stTimer].at = "armed"
  BY StoppedFacts DEF scheduleSaveLocked, Stopped
<1>4. StTypeOK' BY <1>1, <1>2, <1>3 DEF StInv, StTypeOK
<1>5. StClosed' = StClosed BY DEF StClosed
<1>6. TicketInv'
  <2> SUFFICES ASSUME NEW t \in StTickets
               PROVE  /\ stWriter'[t].at = "idle" <=> t > stMem'.n
                      /\ stWriter'[t].at = "armed" => stTimer' = t
                      /\ t = stMem'.n /\ stWriter'[t].at = "stopped" => StClosed'
    BY DEF TicketInv
  <2>1. /\ stWriter[t].at = "idle" <=> t > stMem.n
        /\ stWriter[t].at = "armed" => stTimer = t
        /\ t \in StWriters /\ t \in Nat
    BY <1>1 DEF StInv, TicketInv
  <2>2. CASE t = NextTicket BY <1>1, <1>2, <1>3, <2>1, <2>2
  <2>3. CASE t # NextTicket /\ t = stTimer /\ Stopped BY <1>1, <1>2, <1>3, <2>1, <2>3
  <2>4. CASE t # NextTicket /\ ~(t = stTimer /\ Stopped)
    <3>1. stWriter'[t].at = stWriter[t].at BY <1>2, <2>1, <2>4
    <3>2. stWriter[t].at # "armed" BY <2>1, <2>4, <1>1 DEF Stopped, NoTicket, StInv, StTypeOK
    <3> QED BY <1>1, <2>1, <2>4, <3>1, <3>2
  <2> QED BY <2>2, <2>3, <2>4
<1>7. \A w \in StWriters : /\ Inside(w)' => Inside(w)
                           /\ stWriter'[w].at \in {"writing", "written", "done"}
                                => stWriter'[w].at = stWriter[w].at
  BY <1>2, <1>3 DEF Inside
<1>8. MutexInv' BY <1>7 DEF StInv, MutexInv
<1>9. SnapInv'
  <2> SUFFICES ASSUME NEW w \in StWriters, stWriter'[w].at \in {"writing", "written"}
               PROVE  /\ stWriter'[w].at = "writing" => stLoad' = "ok" /\ stWriter'[w].snap.n >= stDisk'.n
                      /\ stWriter'[w].at = "written" /\ stWriter'[w].ok => stDisk'.n = stWriter'[w].snap.n
                      /\ stWriter'[w].snap.n \in 0..stMem'.n
                      /\ \A t \in StTickets : t = w \/ stWriter'[t].at = "done" => stWriter'[w].snap.n >= t
    BY DEF SnapInv
  <2>1. stWriter'[w].at = stWriter[w].at /\ stWriter'[w].snap = stWriter[w].snap
        /\ stWriter'[w].ok = stWriter[w].ok
    BY <1>2, <1>7
  <2>2. \A t \in StTickets : stWriter'[t].at = "done" => stWriter[t].at = "done" BY <1>1, <1>7
  <2> QED BY <1>1, <2>1, <2>2 DEF StInv, SnapInv
<1>10. DiskInv'
  <2>1. \A t \in StTickets : ~(t = stMem'.n /\ stWriter'[t].at = "done") BY <1>1, <1>2
  <2> QED BY <1>1, <2>1 DEF StInv, DiskInv, AppStates
<1>11. FlushInv' /\ CountInv'
  <2>1. stFlush.covers \in Nat BY DEF StInv, StTypeOK
  <2>2. CountInv' BY ScheduleCount DEF CountInv
  <2> QED BY <1>1, <2>1, <2>2 DEF StInv, FlushInv
<1> QED BY <1>4, <1>6, <1>8, <1>9, <1>10, <1>11 DEF StInv

\* A refused one only leaves its error.
LEMMA RefusedKeeps ==
    ASSUME StInv, stErr' = TRUE,
           UNCHANGED <<stMem, stDisk, stLoad, stTimer, stPending, stSaving, stWriteMu, stWriter,
                       stCloser, stFlush>>
    PROVE  StInv'
<1>1. InFlightTickets' = InFlightTickets /\ StClosed' = StClosed BY DEF InFlightTickets, StClosed
<1> QED BY <1>1 DEF StInv, StTypeOK, TicketInv, MutexInv, Inside, SnapInv, DiskInv, FlushInv, CountInv

-----------------------------------------
(* Writers. *)

\* A writer that only moves on outside the mutex: a timer fires, a save starts.
LEMMA WaitKeeps ==
    ASSUME StInv, NEW w \in StWriters, stLoad # "unread",
           \/ w \in StTickets /\ stWriter[w].at = "armed"
           \/ w \in StSavers /\ stWriter[w].at = "idle",
           stWriter' = [stWriter EXCEPT ![w].at = "waiting"], stSaving' \in Int,
           UNCHANGED <<stMem, stDisk, stLoad, stTimer, stPending, stErr, stWriteMu, stCloser, stFlush>>
    PROVE  StInv'
<1>1. /\ stWriter \in [StWriters -> Writers] /\ StTickets \subseteq StWriters
      /\ \A t \in StTickets : t \notin StSavers
  BY StoreAssumption DEF StInv, StTypeOK, StWriters
<1>2. /\ stWriter' \in [StWriters -> Writers]
      /\ stWriter'[w].at = "waiting"
      /\ \A v \in StWriters : /\ stWriter'[v].snap = stWriter[v].snap
                              /\ stWriter'[v].ok = stWriter[v].ok
                              /\ v # w => stWriter'[v].at = stWriter[v].at
  <2>1. stWriter[w] \in Writers /\ [stWriter[w] EXCEPT !.at = "waiting"] \in Writers BY <1>1 DEF Writers, Places
  <2> QED BY <1>1, <2>1 DEF Writers
<1>3. StClosed' = StClosed BY DEF StClosed
<1>4. StTypeOK' /\ TicketInv' /\ MutexInv' BY <1>1, <1>2, <1>3 DEF StInv, StTypeOK, TicketInv, MutexInv, Inside
<1>5. SnapInv' BY <1>1, <1>2 DEF StInv, SnapInv
<1>6. DiskInv' /\ FlushInv' BY <1>1, <1>2 DEF StInv, DiskInv, FlushInv
<1>7. CountInv' BY <1>1, <1>2, SameCount DEF CountInv
<1> QED BY <1>4, <1>5, <1>6, <1>7 DEF StInv

LEMMA LockKeeps ==
    ASSUME StInv, NEW w \in StWriters, StLock(w)
    PROVE  StInv'
<1>1. /\ stWriter \in [StWriters -> Writers] /\ StTickets \subseteq StWriters
      /\ stWriter[w].at = "waiting" /\ stWriteMu' = {w} /\ stWriteMu = {}
      /\ UNCHANGED <<stMem, stDisk, stLoad, stTimer, stPending, stSaving, stErr, stCloser, stFlush>>
  BY DEF StInv, StTypeOK, StWriters, StLock
<1>2. /\ stWriter' \in [StWriters -> Writers]
      /\ stWriter'[w].at = "locked"
      /\ \A v \in StWriters : /\ stWriter'[v].snap = stWriter[v].snap
                              /\ stWriter'[v].ok = stWriter[v].ok
                              /\ v # w => stWriter'[v].at = stWriter[v].at
  <2>1. stWriter[w] \in Writers /\ [stWriter[w] EXCEPT !.at = "locked"] \in Writers BY <1>1 DEF Writers, Places
  <2> QED BY <1>1, <2>1 DEF Writers, StLock
<1>3. StClosed' = StClosed BY <1>1 DEF StClosed
<1>4. \A v \in StWriters : ~Inside(v) BY <1>1 DEF StInv, MutexInv
<1>5. StTypeOK' /\ TicketInv' /\ MutexInv' BY <1>1, <1>2, <1>3, <1>4 DEF StInv, StTypeOK, TicketInv, MutexInv, Inside
<1>6. SnapInv' /\ DiskInv' /\ FlushInv' BY <1>1, <1>2, <1>4 DEF StInv, SnapInv, DiskInv, FlushInv, Inside
<1>7. CountInv' BY <1>1, <1>2, SameCount DEF CountInv
<1> QED BY <1>5, <1>6, <1>7 DEF StInv

\* The snapshot has every mutation whose ticket was spent.
LEMMA SnapshotKeeps ==
    ASSUME StInv, NEW w \in StWriters, saveSnapshot(w)
    PROVE  StInv'
<1> DEFINE pos == IF stLoad = "failed" THEN "written" ELSE "writing"
<1>1. /\ stWriter \in [StWriters -> Writers] /\ StTickets \subseteq StWriters
      /\ stWriter[w].at = "locked" /\ Inside(w)
      /\ stMem \in AppStates /\ stMem.n \in Nat /\ stDisk \in AppStates
      /\ \A t \in StTickets : t \in Nat
      /\ stLoad # "failed" => stLoad = "ok"
      /\ UNCHANGED <<stMem, stDisk, stLoad, stTimer, stPending, stSaving, stErr, stWriteMu,
                     stCloser, stFlush>>
  BY StoreAssumption DEF StInv, StTypeOK, StWriters, saveSnapshot, Inside, DiskInv
<1>2. /\ stWriter' \in [StWriters -> Writers]
      /\ stWriter'[w].at = pos /\ stWriter'[w].snap = stMem /\ ~stWriter'[w].ok
      /\ \A v \in StWriters : v # w => stWriter'[v] = stWriter[v]
  <2>1. stWriter[w] \in Writers
        /\ [stWriter[w] EXCEPT !.at = pos, !.snap = stMem, !.ok = FALSE] \in Writers
    BY <1>1 DEF Writers, Places
  <2>2. stWriter' = [stWriter EXCEPT ![w] = [stWriter[w] EXCEPT !.at = pos, !.snap = stMem, !.ok = FALSE]]
    BY <1>1, <2>1 DEF saveSnapshot, Writers
  <2> HIDE DEF pos
  <2> QED BY <1>1, <2>1, <2>2 DEF Writers
<1>3. StClosed' = StClosed BY <1>1 DEF StClosed
<1>4. \A v \in StWriters : Inside(v) => v = w BY <1>1 DEF StInv, MutexInv
<1>5. StTypeOK' /\ TicketInv' /\ MutexInv' BY <1>1, <1>2, <1>3, <1>4 DEF StInv, StTypeOK, TicketInv, MutexInv, Inside
<1>6. SnapInv'
  <2> SUFFICES ASSUME NEW v \in StWriters, stWriter'[v].at \in {"writing", "written"}
               PROVE  /\ stWriter'[v].at = "writing" => stLoad' = "ok" /\ stWriter'[v].snap.n >= stDisk'.n
                      /\ stWriter'[v].at = "written" /\ stWriter'[v].ok => stDisk'.n = stWriter'[v].snap.n
                      /\ stWriter'[v].snap.n \in 0..stMem'.n
                      /\ \A t \in StTickets : t = v \/ stWriter'[t].at = "done" => stWriter'[v].snap.n >= t
    BY DEF SnapInv
  <2>1. v = w BY <1>2, <1>4 DEF Inside
  <2>2. ASSUME NEW t \in StTickets, t = w \/ stWriter'[t].at = "done" PROVE stMem.n >= t
    <3>1. stWriter[t].at # "idle" BY <1>1, <1>2, <2>2
    <3> QED BY <1>1, <3>1 DEF StInv, TicketInv
  <2>3. stMem.n >= stDisk.n /\ stMem.n \in 0..stMem.n BY <1>1 DEF StInv, DiskInv, AppStates
  <2> QED BY <1>1, <1>2, <2>1, <2>2, <2>3
<1>7. DiskInv' /\ FlushInv' BY <1>1, <1>2 DEF StInv, DiskInv, FlushInv
<1>8. CountInv' BY <1>1, <1>2, SameCount DEF CountInv
<1> QED BY <1>5, <1>6, <1>7, <1>8 DEF StInv

\* The file is replaced by a snapshot that is at least as new.
LEMMA WriteKeeps ==
    ASSUME StInv, NEW w \in StWriters, StWrite(w)
    PROVE  StInv'
<1>1. /\ stWriter \in [StWriters -> Writers] /\ StTickets \subseteq StWriters
      /\ stWriter[w].at = "writing" /\ Inside(w)
      /\ stMem \in AppStates /\ stMem.n \in Nat /\ stDisk \in AppStates
      /\ stLoad = "ok" /\ stWriter[w].snap \in AppStates
      /\ stWriter[w].snap.n >= stDisk.n /\ stWriter[w].snap.n \in 0..stMem.n
      /\ \A t \in StTickets : t = w \/ stWriter[t].at = "done" => stWriter[w].snap.n >= t
      /\ \A t \in StTickets : t \in Nat
      /\ UNCHANGED <<stMem, stLoad, stTimer, stPending, stSaving, stErr, stWriteMu, stCloser, stFlush>>
  BY StoreAssumption DEF StInv, StTypeOK, StWriters, StWrite, Inside, SnapInv, Writers
<1>2. PICK ok \in BOOLEAN :
        /\ stDisk' = IF ok THEN removeCanonicalLegacySettings(stWriter[w].snap) ELSE stDisk
        /\ stWriter' = [stWriter EXCEPT ![w].at = "written", ![w].ok = ok]
  BY DEF StWrite
<1>3. /\ stWriter' \in [StWriters -> Writers]
      /\ stWriter'[w].at = "written" /\ stWriter'[w].snap = stWriter[w].snap /\ stWriter'[w].ok = ok
      /\ \A v \in StWriters : v # w => stWriter'[v] = stWriter[v]
  <2>1. stWriter[w] \in Writers /\ [stWriter[w] EXCEPT !.at = "written", !.ok = ok] \in Writers
    BY <1>1 DEF Writers, Places
  <2>2. stWriter' = [stWriter EXCEPT ![w] = [stWriter[w] EXCEPT !.at = "written", !.ok = ok]]
    BY <1>1, <1>2, <2>1 DEF Writers
  <2> QED BY <1>1, <2>1, <2>2 DEF Writers
<1>4. /\ stDisk' \in AppStates /\ stDisk'.n \in {stDisk.n, stWriter[w].snap.n}
      /\ ok => stDisk'.n = stWriter[w].snap.n /\ ~(stDisk'.canon /\ stDisk'.legacy)
      /\ ~ok => stDisk' = stDisk
      /\ stDisk'.n >= stDisk.n /\ stDisk'.n <= stMem.n
  <2>1. /\ removeCanonicalLegacySettings(stWriter[w].snap) \in AppStates
        /\ removeCanonicalLegacySettings(stWriter[w].snap).n = stWriter[w].snap.n
        /\ LET r == removeCanonicalLegacySettings(stWriter[w].snap) IN ~(r.canon /\ r.legacy)
    BY <1>1 DEF removeCanonicalLegacySettings, AppStates
  <2>2. stDisk.n <= stMem.n /\ stDisk.n \in Int BY <1>1 DEF StInv, DiskInv, AppStates
  <2>3. CASE ok = TRUE
    <3>1. stDisk' = removeCanonicalLegacySettings(stWriter[w].snap) BY <1>2, <2>3
    <3> QED BY <1>1, <2>1, <2>2, <2>3, <3>1
  <2>4. CASE ok = FALSE
    <3>1. stDisk' = stDisk BY <1>2, <2>4
    <3> QED BY <1>1, <2>2, <2>4, <3>1
  <2> QED BY <2>3, <2>4
<1>5. StClosed' = StClosed BY <1>1 DEF StClosed
<1>6. \A v \in StWriters : Inside(v) => v = w BY <1>1 DEF StInv, MutexInv
<1>7. StTypeOK' /\ TicketInv' /\ MutexInv'
  BY <1>1, <1>3, <1>4, <1>5, <1>6 DEF StInv, StTypeOK, TicketInv, MutexInv, Inside
<1>8. SnapInv'
  <2> SUFFICES ASSUME NEW v \in StWriters, stWriter'[v].at \in {"writing", "written"}
               PROVE  /\ stWriter'[v].at = "writing" => stLoad' = "ok" /\ stWriter'[v].snap.n >= stDisk'.n
                      /\ stWriter'[v].at = "written" /\ stWriter'[v].ok => stDisk'.n = stWriter'[v].snap.n
                      /\ stWriter'[v].snap.n \in 0..stMem'.n
                      /\ \A t \in StTickets : t = v \/ stWriter'[t].at = "done" => stWriter'[v].snap.n >= t
    BY DEF SnapInv
  <2>1. v = w BY <1>3, <1>6 DEF Inside
  <2>2. \A t \in StTickets : stWriter'[t].at = "done" => stWriter[t].at = "done" BY <1>1, <1>3
  <2> QED BY <1>1, <1>3, <1>4, <2>1, <2>2
<1>9. DiskInv'
  <2>1. ASSUME NEW t \in StTickets, ~stErr, t = stMem.n, stWriter'[t].at = "done"
        PROVE  stDisk'.n >= t
    <3>1. stWriter[t].at = "done" /\ t \in Nat BY <1>1, <1>3, <2>1
    <3>2. stDisk.n >= t /\ stDisk.n \in Int BY <1>1, <2>1, <3>1 DEF StInv, DiskInv, AppStates
    <3> QED BY <1>4, <3>1, <3>2 DEF AppStates
  <2>2. stDisk'.n >= 0 BY <1>1, <1>4 DEF StInv, DiskInv, AppStates
  <2>3. stDisk'.n > 0 => ~(stDisk'.canon /\ stDisk'.legacy) BY <1>2, <1>4 DEF StInv, DiskInv
  <2> QED BY <1>1, <1>4, <2>1, <2>2, <2>3 DEF DiskInv
<1>10. FlushInv' BY <1>1, <1>4 DEF StInv, FlushInv, StTypeOK, AppStates
<1>11. CountInv' BY <1>1, <1>3, SameCount DEF CountInv
<1> QED BY <1>7, <1>8, <1>9, <1>10, <1>11 DEF StInv

\* The end of a write: the newest mutation's ticket is spent without an error
\* only when the file holds it.
LEMMA FinishKeeps ==
    ASSUME StInv, NEW w \in StWriters, StFinish(w)
    PROVE  StInv'
<1>1. /\ stWriter \in [StWriters -> Writers] /\ StTickets \subseteq StWriters
      /\ stWriter[w].at = "written" /\ Inside(w) /\ stWriter[w].ok \in BOOLEAN
      /\ stMem.n \in Nat /\ stDisk \in AppStates
      /\ stWriter' = [stWriter EXCEPT ![w].at = "done"] /\ stWriteMu' = {}
      /\ UNCHANGED <<stMem, stDisk, stLoad, stCloser, stFlush>>
      /\ \A t \in StTickets : t \in Nat \ {0}
      /\ stLoad # "unread"
  BY StoreAssumption DEF StInv, StTypeOK, StWriters, StFinish, Inside, DiskInv, Writers
<1>2. /\ stWriter' \in [StWriters -> Writers]
      /\ stWriter'[w].at = "done"
      /\ \A v \in StWriters : v # w => stWriter'[v] = stWriter[v]
  <2>1. stWriter[w] \in Writers /\ [stWriter[w] EXCEPT !.at = "done"] \in Writers BY <1>1 DEF Writers, Places
  <2> QED BY <1>1, <2>1 DEF Writers
<1>3. StClosed' = StClosed BY <1>1 DEF StClosed
<1>4. \A v \in StWriters : Inside(v) => v = w BY <1>1 DEF StInv, MutexInv
<1>5. /\ stTimer' \in StTickets \cup {NoTicket} /\ stSaving' \in Int /\ stErr' \in BOOLEAN
      /\ \A t \in StTickets : t # w /\ stTimer = t => stTimer' = t
      /\ w \notin StTickets => stPending' = stPending /\ stErr' = stErr
      /\ w \in StTickets => stPending' = stPending - 1 /\ stErr' = ~stWriter[w].ok
  <2>1. CASE w \in StTickets
    <3>1. /\ stErr' = ~stWriter[w].ok /\ stPending' = stPending - 1 /\ stSaving' = stSaving
          /\ stTimer' = IF stTimer = w THEN NoTicket ELSE stTimer
      BY <2>1 DEF StFinish
    <3> QED BY <1>1, <2>1, <3>1 DEF StInv, StTypeOK
  <2>2. CASE w \notin StTickets BY <2>2 DEF StFinish, StInv, StTypeOK
  <2> QED BY <2>1, <2>2
<1>6. StTypeOK' BY <1>1, <1>2, <1>5 DEF StInv, StTypeOK
<1>7. TicketInv'
  <2> SUFFICES ASSUME NEW t \in StTickets
               PROVE  /\ stWriter'[t].at = "idle" <=> t > stMem'.n
                      /\ stWriter'[t].at = "armed" => stTimer' = t
                      /\ t = stMem'.n /\ stWriter'[t].at = "stopped" => StClosed'
    BY <1>1 DEF StInv, TicketInv
  <2>1. /\ stWriter[t].at = "idle" <=> t > stMem.n
        /\ stWriter[t].at = "armed" => stTimer = t
        /\ t = stMem.n /\ stWriter[t].at = "stopped" => StClosed
    BY DEF StInv, TicketInv
  <2>2. CASE t = w BY <1>1, <1>2, <2>1, <2>2
  <2>3. CASE t # w BY <1>1, <1>2, <1>3, <1>5, <2>1, <2>3
  <2> QED BY <2>2, <2>3
<1>8. \A v \in StWriters : ~Inside(v)' BY <1>2, <1>4 DEF Inside
<1>9. MutexInv' /\ SnapInv' BY <1>8 DEF MutexInv, SnapInv, Inside
<1>10. DiskInv'
  <2>1. ASSUME NEW t \in StTickets, stLoad = "ok", ~stErr', t = stMem.n, stWriter'[t].at = "done"
        PROVE  stDisk.n >= t
    <3>1. CASE w \in StTickets
      <4>1. stWriter[w].ok BY <1>1, <1>5, <2>1, <3>1
      <4>2. stDisk.n = stWriter[w].snap.n BY <1>1, <4>1 DEF StInv, SnapInv
      <4>3. t = w \/ stWriter[t].at = "done" BY <1>1, <1>2, <2>1
      <4> QED BY <1>1, <4>2, <4>3 DEF StInv, SnapInv
    <3>2. CASE w \notin StTickets
      <4>1. t # w /\ stWriter[t].at = "done" /\ ~stErr BY <1>1, <1>2, <1>5, <2>1, <3>2
      <4> QED BY <2>1, <4>1 DEF StInv, DiskInv
    <3> QED BY <3>1, <3>2
  <2>2. stLoad = "failed" => stErr'
    <3> SUFFICES ASSUME stLoad = "failed" PROVE stErr' OBVIOUS
    <3>1. stMem.n = 0 /\ stErr BY DEF StInv, DiskInv
    <3>2. w \notin StTickets BY <1>1, <3>1 DEF StInv, TicketInv
    <3> QED BY <1>5, <3>1, <3>2
  <2> QED BY <1>1, <2>1, <2>2 DEF StInv, DiskInv
<1>11. FlushInv' BY <1>1 DEF StInv, FlushInv
<1>12. CountInv'
  <2>1. CASE w \in StTickets
    <3>1. w \in InFlightTickets BY <1>1, <2>1 DEF InFlightTickets
    <3>2. \A u \in StTickets : stWriter'[u].at = IF u = w THEN stWriter'[w].at ELSE stWriter[u].at BY <1>1, <1>2
    <3> QED BY <1>2, <1>5, <2>1, <3>1, <3>2, LeaveCount DEF CountInv
  <2>2. CASE w \notin StTickets
    <3>1. \A u \in StTickets : stWriter'[u].at = stWriter[u].at BY <1>1, <1>2, <2>2
    <3> QED BY <1>5, <2>2, <3>1, SameCount DEF CountInv
  <2> QED BY <2>1, <2>2
<1> QED BY <1>6, <1>7, <1>9, <1>10, <1>11, <1>12 DEF StInv

-----------------------------------------
(* Flush and Close. *)

\* A Flush returns without an error only when the newest mutation is in the file.
LEMMA FlushKeeps ==
    ASSUME StInv, FlushCall \/ FlushReturn
    PROVE  StInv'
<1>1. UNCHANGED <<stMem, stDisk, stLoad, stTimer, stPending, stSaving, stErr, stWriteMu,
                  stWriter, stCloser>>
  BY DEF FlushCall, FlushReturn
<1>2. InFlightTickets' = InFlightTickets /\ StClosed' = StClosed BY <1>1 DEF InFlightTickets, StClosed
<1>3. stMem.n \in Nat /\ stDisk \in AppStates /\ stErr \in BOOLEAN BY DEF StInv, StTypeOK
<1>4. /\ stFlush' \in [at : {"idle", "waiting", "overtaken", "returned"}, covers : Nat, ok : BOOLEAN]
      /\ stFlush'.covers <= stMem.n
      /\ stFlush'.at = "returned" /\ stFlush'.ok => stDisk.n >= stFlush'.covers
      /\ stLoad # "unread"
  <2>1. CASE FlushCall BY <1>3, <2>1 DEF FlushCall
  <2>2. CASE FlushReturn
    <3>1. /\ stFlush \in [at : {"idle", "waiting", "overtaken", "returned"}, covers : Nat, ok : BOOLEAN]
          /\ stFlush.at = "waiting" /\ stPending = 0 /\ stFlush.covers <= stMem.n
      BY <2>2 DEF FlushReturn, StQuiet, StInv, StTypeOK, FlushInv
    <3>2. /\ stFlush'.covers = stFlush.covers /\ stFlush'.ok = ~stErr
          /\ stFlush'.at = IF StClosed THEN "overtaken" ELSE "returned"
          /\ stFlush' \in [at : {"idle", "waiting", "overtaken", "returned"}, covers : Nat, ok : BOOLEAN]
      BY <1>3, <2>2, <3>1 DEF FlushReturn
    <3>3. stLoad # "unread" BY <3>1 DEF StInv, DiskInv
    <3>4. ASSUME ~StClosed, ~stErr PROVE stDisk.n >= stMem.n
      <4>1. stLoad = "ok" /\ stDisk.n >= 0 BY <3>3, <3>4 DEF StInv, DiskInv, StTypeOK
      <4>2. CASE stMem.n = 0 BY <4>1, <4>2
      <4>3. CASE stMem.n \in StTickets
        <5>1. stMem.n \notin InFlightTickets BY <3>1, QuietMeansNone
        <5>2. stWriter[stMem.n].at \in {"idle", "stopped", "done"} BY <4>3, <5>1 DEF InFlightTickets
        <5>3. stWriter[stMem.n].at = "done" BY <1>3, <3>4, <4>3, <5>2 DEF StInv, TicketInv
        <5> QED BY <3>4, <4>1, <4>3, <5>3 DEF StInv, DiskInv
      <4> QED BY <4>2, <4>3 DEF StInv, TicketInv
    <3> QED BY <1>3, <3>1, <3>2, <3>3, <3>4 DEF AppStates
  <2> QED BY <2>1, <2>2
<1> QED BY <1>1, <1>2, <1>4 DEF StInv, StTypeOK, TicketInv, MutexInv, Inside, SnapInv, DiskInv, FlushInv, CountInv

\* Close enters, stops the armed timer and gives its ticket back, and returns.
LEMMA CloseKeeps ==
    ASSUME StInv, NEW c \in StClosers, StCloseEnter(c) \/ StCloseStop(c) \/ StCloseReturn(c)
    PROVE  StInv'
<1>1. /\ stWriter \in [StWriters -> Writers] /\ StTickets \subseteq StWriters
      /\ stCloser \in [StClosers -> {"idle", "won", "draining", "waiting", "returned"}]
      /\ UNCHANGED <<stMem, stDisk, stLoad, stSaving, stErr, stWriteMu, stFlush>>
      /\ stMem.n \in Nat /\ \A t \in StTickets : t \in Nat \ {0}
  BY StoreAssumption DEF StCloseEnter, StCloseStop, StCloseReturn, StInv, StTypeOK, StWriters
<1>2. /\ stCloser' \in [StClosers -> {"idle", "won", "draining", "waiting", "returned"}]
      /\ StClosed => StClosed'
  <2>1. PICK p \in {"won", "draining", "waiting", "returned"} : stCloser' = [stCloser EXCEPT ![c] = p]
    BY DEF StCloseEnter, StCloseStop, StCloseReturn
  <2> QED BY <1>1, <2>1 DEF StClosed
<1>4. CASE StCloseEnter(c) \/ StCloseReturn(c)
  <2>1. UNCHANGED <<stTimer, stPending, stWriter>> BY <1>4 DEF StCloseEnter, StCloseReturn
  <2>2. InFlightTickets' = InFlightTickets BY <2>1 DEF InFlightTickets
  <2> QED
    BY <1>1, <1>2, <2>1, <2>2
    DEF StInv, StTypeOK, TicketInv, MutexInv, Inside, SnapInv, DiskInv, FlushInv, CountInv
<1>5. CASE StCloseStop(c)
  <2>1. /\ stCloser[c] = "won" /\ stTimer' = NoTicket
        /\ stPending' = stPending - (IF Stopped THEN 1 ELSE 0)
        /\ stWriter' = IF Stopped THEN [stWriter EXCEPT ![stTimer].at = "stopped"] ELSE stWriter
    BY <1>5 DEF StCloseStop
  <2>2. StClosed' BY <1>2, <2>1 DEF StClosed
  <2>3. CASE ~Stopped
    <3>1. stWriter' = stWriter /\ stPending' = stPending
      <4>1. stWriter' = stWriter BY <2>1, <2>3
      <4>2. stPending' = stPending - 0 BY <2>1, <2>3
      <4>3. stPending \in Nat BY InFlightFinite, FS_CardinalityType, Zenon DEF StInv, CountInv
      <4> QED BY <4>1, <4>2, <4>3
    <3>2. InFlightTickets' = InFlightTickets BY <3>1 DEF InFlightTickets
    <3>3. \A t \in StTickets : stWriter[t].at # "armed" BY <1>1, <2>3 DEF StInv, TicketInv, Stopped, NoTicket
    <3> QED
      BY <1>1, <1>2, <2>1, <2>2, <3>1, <3>2, <3>3
      DEF StInv, StTypeOK, TicketInv, MutexInv, Inside, SnapInv, DiskInv, FlushInv, CountInv
  <2>4. CASE Stopped
    <3>1. stTimer \in InFlightTickets /\ stTimer \in StTickets /\ stWriter[stTimer].at = "armed"
      BY <2>4, StoppedFacts DEF Stopped
    <3>2. /\ stWriter' \in [StWriters -> Writers]
          /\ stWriter'[stTimer].at = "stopped"
          /\ \A v \in StWriters : /\ stWriter'[v].snap = stWriter[v].snap
                                  /\ stWriter'[v].ok = stWriter[v].ok
                                  /\ v # stTimer => stWriter'[v].at = stWriter[v].at
      <4>1. /\ stWriter[stTimer] \in Writers /\ stTimer \in StWriters
            /\ [stWriter[stTimer] EXCEPT !.at = "stopped"] \in Writers
        BY <1>1, <3>1 DEF Writers, Places
      <4> QED BY <1>1, <2>1, <2>4, <4>1 DEF Writers
    <3>3. StTypeOK' /\ MutexInv' BY <1>1, <1>2, <2>1, <3>1, <3>2 DEF StInv, StTypeOK, MutexInv, Inside
    <3>4. TicketInv' BY <1>1, <2>1, <2>2, <3>1, <3>2 DEF StInv, TicketInv
    <3>5. SnapInv' /\ DiskInv' /\ FlushInv'
      <4>1. stLoad # "unread" BY <1>1, <3>1 DEF StInv, DiskInv
      <4> QED BY <1>1, <3>1, <3>2, <4>1 DEF StInv, SnapInv, DiskInv, FlushInv
    <3>6. CountInv'
      <4>1. \A u \in StTickets :
              stWriter'[u].at = IF u = stTimer THEN stWriter'[stTimer].at ELSE stWriter[u].at
        BY <1>1, <3>2
      <4>2. stPending' = stPending - 1 BY <2>1, <2>4
      <4> QED BY <3>1, <3>2, <4>1, <4>2, LeaveCount DEF CountInv
    <3> QED BY <3>3, <3>4, <3>5, <3>6 DEF StInv
  <2> QED BY <2>3, <2>4
<1> QED BY <1>4, <1>5

-----------------------------------------
(* The theorem. *)

LEMMA StInitHolds == StoreInit => StInv
<1> SUFFICES ASSUME StoreInit PROVE StInv OBVIOUS
<1>1. /\ stMem = [n |-> 0, canon |-> FALSE, legacy |-> FALSE] /\ stLoad = "unread"
      /\ stTimer = NoTicket /\ stPending = 0 /\ stSaving = 0 /\ stErr = FALSE
      /\ stCloser = [c \in StClosers |-> "idle"]
      /\ stFlush = [at |-> "idle", covers |-> 0, ok |-> FALSE]
      /\ stWriter = [w \in StWriters |-> [at |-> "idle", snap |-> Corrupt, ok |-> FALSE]]
  BY DEF StoreInit
<1>2. Corrupt \in AppStates /\ [at |-> "idle", snap |-> Corrupt, ok |-> FALSE] \in Writers
  BY DEF Corrupt, AppStates, Writers, Places
<1>3. /\ stDisk \in AppStates /\ (stDisk = Corrupt \/ stDisk.n = 0) /\ stDisk.n <= 0
  <2>1. CASE stDisk = Corrupt BY <1>2, <2>1 DEF Corrupt
  <2>2. ASSUME NEW c \in BOOLEAN, NEW l \in BOOLEAN, stDisk = [n |-> 0, canon |-> c, legacy |-> l]
        PROVE  stDisk \in AppStates /\ stDisk.n = 0
    BY <2>2 DEF AppStates
  <2> QED BY <2>1, <2>2 DEF StoreInit
<1>4. \A w \in StWriters : stWriter[w].at = "idle" /\ stWriter \in [StWriters -> Writers] BY <1>1, <1>2
<1>5. stWriter \in [StWriters -> Writers] BY <1>1, <1>2
<1>6. /\ stMem \in AppStates /\ stMem.n = 0
      /\ stFlush \in [at : {"idle", "waiting", "overtaken", "returned"}, covers : Nat, ok : BOOLEAN]
      /\ stFlush.covers = 0 /\ stFlush.at = "idle"
  BY <1>1 DEF AppStates
<1>7. StTypeOK
  <2>1. stErr \in BOOLEAN /\ stCloser \in [StClosers -> {"idle", "won", "draining", "waiting", "returned"}] BY <1>1
  <2>2. stLoad \in {"unread", "ok", "failed"} /\ stTimer \in StTickets \cup {NoTicket} BY <1>1
  <2>3. stMem.n \in Nat /\ stSaving \in Int BY <1>1, <1>6
  <2> QED BY <1>3, <1>5, <1>6, <2>1, <2>2, <2>3 DEF StTypeOK
<1>8. TicketInv /\ MutexInv /\ SnapInv /\ DiskInv /\ FlushInv
  <2>1. \A t \in StTickets : t \in StWriters /\ t > 0 BY StoreAssumption DEF StWriters
  <2>2. TicketInv BY <1>4, <1>6, <2>1 DEF TicketInv
  <2>3. MutexInv /\ SnapInv BY <1>4 DEF MutexInv, Inside, SnapInv
  <2>4. DiskInv BY <1>1, <1>3, <1>4, <1>6 DEF DiskInv, AppStates
  <2>5. FlushInv BY <1>6 DEF FlushInv
  <2> QED BY <2>2, <2>3, <2>4, <2>5
<1>9. CountInv
  <2>1. InFlightTickets = {} BY <1>4 DEF InFlightTickets, StWriters
  <2> QED BY <1>1, <2>1, FS_EmptySet DEF CountInv
<1> QED BY <1>7, <1>8, <1>9 DEF StInv

LEMMA StStepKeeps == StInv /\ [StoreNext]_storeVars => StInv'
<1> SUFFICES ASSUME StInv, [StoreNext]_storeVars PROVE StInv' OBVIOUS
<1>1. CASE StLoadFile BY <1>1, LoadKeeps
<1>2. CASE MutateAndSave
  <2>1. CASE Accepted /\ NextTicket \in StTickets /\ scheduleSaveLocked
                /\ stMem' = [stMem EXCEPT !.n = NextTicket] /\ stErr' = stErr
    <3>1. stMem' \in AppStates /\ stMem'.n = NextTicket BY <2>1 DEF StInv, StTypeOK, AppStates, NextTicket
    <3> QED BY <1>2, <2>1, <3>1, MutationKeeps DEF MutateAndSave
  <2>2. CASE stErr' = TRUE /\ UNCHANGED <<stMem, stTimer, stPending, stWriter>>
    BY <1>2, <2>2, RefusedKeeps DEF MutateAndSave
  <2> QED BY <1>2, <2>1, <2>2 DEF MutateAndSave
<1>3. CASE SetSessionSetting
  <2>1. stMem' \in AppStates /\ stMem'.n = NextTicket
    <3>1. PICK c \in BOOLEAN : stMem' = [n |-> NextTicket, canon |-> c, legacy |-> FALSE] BY <1>3 DEF SetSessionSetting
    <3>2. NextTicket \in Int BY DEF StInv, StTypeOK, NextTicket
    <3> QED BY <3>1, <3>2 DEF AppStates
  <2> QED BY <1>3, <2>1, MutationKeeps DEF SetSessionSetting
<1>4. CASE FlushCall \/ FlushReturn BY <1>4, FlushKeeps
<1>5. ASSUME NEW t \in StTickets, StFire(t) PROVE StInv'
  <2>1. t \in StWriters /\ stSaving' \in Int /\ stLoad # "unread"
    BY <1>5 DEF StFire, StWriters, StInv, StTypeOK, DiskInv
  <2> QED BY <1>5, <2>1, WaitKeeps DEF StFire
<1>6. ASSUME NEW w \in StSavers, StSave(w) PROVE StInv'
  <2>1. w \in StWriters /\ stSaving' \in Int BY <1>6 DEF StSave, StWriters, StInv, StTypeOK
  <2> QED BY <1>6, <2>1, WaitKeeps DEF StSave
<1>7. ASSUME NEW w \in StWriters, StLock(w) \/ saveSnapshot(w) \/ StWrite(w) \/ StFinish(w) PROVE StInv'
  BY <1>7, LockKeeps, SnapshotKeeps, WriteKeeps, FinishKeeps
<1>8. ASSUME NEW c \in StClosers, StCloseEnter(c) \/ StCloseStop(c) \/ StCloseReturn(c) PROVE StInv' BY <1>8, CloseKeeps
<1>9. CASE UNCHANGED storeVars
  <2>1. InFlightTickets' = InFlightTickets /\ StClosed' = StClosed BY <1>9 DEF InFlightTickets, StClosed, storeVars
  <2> QED
    BY <1>9, <2>1 DEF storeVars, StInv, StTypeOK, TicketInv, MutexInv, Inside, SnapInv, DiskInv,
                      FlushInv, CountInv
<1> QED BY <1>1, <1>2, <1>3, <1>4, <1>5, <1>6, <1>7, <1>8, <1>9 DEF StoreNext

\* The invariant of the store, with its types.
THEOREM StoreInvariant == StoreSpec => []StInv
<1> QED BY StInitHolds, StStepKeeps, PTL DEF StoreSpec

\* scheduleSaveLocked, debouncedFire, Flush, Close and saveSnapshot, with timers
\* that fire late, writes that fail and Close at any moment: the counter is exact,
\* a Flush without an error has the mutations in the file, the file never goes back,
\* and a file that could not be read is never overwritten.
THEOREM StoreTheorem == StoreSpec => []StoreKeepsPromises
<1>1. StInv => StoreKeepsPromises BY DEF StInv, StoreKeepsPromises, CountInv, FlushInv, SnapInv, DiskInv
<1> QED BY <1>1, StoreInvariant, PTL
=============================================================================
