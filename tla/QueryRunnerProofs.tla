------------------------- MODULE QueryRunnerProofs -------------------------
(***************************************************************************)
(* Every statement of the runner is answered once, every stream has one     *)
(* party that will close it, and no cancel reaches a younger action, for    *)
(* any number of actions, connections and cancels.                          *)
(***************************************************************************)
EXTENDS QueryRunner, FiniteSetTheorems, SequenceTheorems, TLAPS

AsyncKinds == {"run", "batch", "explain", "bound"}
Verdicts == {"ok", "failed", "canceled", "nosession", "refused"}
Opt(S) == S \cup {Nil}
BoundTo == Sessions \cup {NoSess}

ActRecs == [kind : AsyncKinds \cup {"none", "sync"}, binding : BoundTo, gen : Nat,
               ctx : BOOLEAN, abandoned : BOOLEAN, wire : BOOLEAN, nav : BOOLEAN,
               draining : BOOLEAN, done : BOOLEAN, acks : [1..2 -> Seq(Verdicts)],
               result : {"none", "unadopted", "adopted", "disposed"}]
RunRecs == [pc : {"idle", "wait", "check", "hook", "fence", "load", "lock", "exec", "return",
                  "publish", "ack", "next"},
            a : Actions \cup {0}, i : 0..2, b : BoundTo, h : Opt(Handles), calls : Int,
            err : Verdicts]
SessRecs == [st : {"free", "exec", "explain", "live"}, h : Opt(Handles), hit : BOOLEAN,
             fence : BOOLEAN, closed : BOOLEAN]
UiRecs == [pc : {"idle", "enqueue", "waitWire", "cancel", "syncCancel", "syncHook", "syncLoad",
                 "syncLock", "syncExec", "syncPublish", "quitWait", "drained", "closing",
                 "sweep", "stopping", "stopped"},
           a : Actions \cup {0}, h : Opt(Handles)]

RTypeOK ==
    /\ binding \in BoundTo /\ generation \in Nat
    /\ last \in Opt(Slots)
    /\ act \in [Actions -> ActRecs]
    /\ queue \in Seq(Actions) /\ launching \in BOOLEAN
    /\ run \in RunRecs
    /\ sess \in [Sessions -> SessRecs]
    /\ enq \in Opt(Requests)
    /\ canc \in [Threads -> Opt(Cancels)]
    /\ tabs \in [acked : SUBSET (Actions \X (1..2) \X Opt(Handles)), open : SUBSET Handles]
    /\ signal \in Actions \cup {0}
    /\ ui \in UiRecs
    /\ retirer \in {"idle", "unbind", "cancel"}
    /\ stray \in SUBSET Actions

Async(a) == act[a].kind \in AsyncKinds
Told(a, i) == Len(act[a].acks[i])
Finished(a) == act[a].draining \/ act[a].done
Running(a) == run.pc # "idle" /\ run.a = a
Queued(a) == \E j \in DOMAIN queue : queue[j] = a
Enqueuing(a) == enq # Nil /\ enq.a = a

\* Actions are numbered as the user makes them.
ActsInv ==
    /\ NextAction \in 1..(MaxActions + 1)
    /\ \A a \in Actions : act[a].kind # "none" <=> a < NextAction

\* A step of the UI thread is about the newest action; an enqueue is its own step.
UiInv ==
    /\ enq # Nil <=> ui.pc = "enqueue"
    /\ enq # Nil => /\ enq.a = NextAction - 1 /\ ui.a = enq.a
                     /\ ~act[enq.a].wire /\ canc[WireCancel(enq.a)] = Nil
    /\ ui.pc \in {"syncCancel", "syncHook", "syncLoad", "syncLock", "syncExec", "syncPublish"} =>
         ui.a = NextAction - 1 /\ ui.a \in Actions /\ act[ui.a].kind = "sync"
    /\ ui.pc = "syncLock" \/ ui.pc = "syncExec" => act[ui.a].binding \in Sessions
    /\ ui.pc = "syncPublish" => ui.h = <<ui.a, 1>>

\* An asynchronous action is in exactly one place, and the places are in order.
Fresh(a) == Told(a, 1) = 0 /\ Told(a, 2) = 0 /\ ~Finished(a)
PlaceInv ==
    /\ \A a \in Actions : Async(a) =>
         Finished(a) \/ Queued(a) \/ Running(a) \/ Enqueuing(a)
    /\ \A a \in Actions : Queued(a) \/ Enqueuing(a) => Async(a) /\ Fresh(a) /\ ~Running(a)
    /\ \A a \in Actions : Queued(a) => ~Enqueuing(a)
    /\ \A j, k \in DOMAIN queue : j < k => queue[j] < queue[k]
    /\ \A a \in Actions : ~Async(a) => Fresh(a) /\ ~act[a].wire
    /\ \A a, c \in Actions :
         Async(a) /\ Async(c) /\ c < a /\ (Running(a) \/ Finished(a)) => Finished(c)

\* Where the launcher is in its action.
RunInv ==
    run.pc # "idle" =>
        /\ run.a \in Actions /\ Async(run.a) /\ ~Finished(run.a)
        /\ run.i \in Stmts(act[run.a].kind)
        /\ \A j \in 1..2 : Told(run.a, j) = IF j < run.i \/ (j = run.i /\ run.pc = "next") THEN 1 ELSE 0
        /\ IF run.pc = "wait" THEN run.i = 1 ELSE act[run.a].wire
        /\ run.pc \in {"lock", "exec"} => run.b \in Sessions
        /\ run.h # Nil => run.pc \in {"return", "publish", "ack", "next"} /\ run.h = <<run.a, run.i>>
        /\ run.pc = "exec" => /\ sess[run.b].h = <<run.a, run.i>>
                              /\ sess[run.b].st = IF act[run.a].kind = "explain" THEN "explain" ELSE "exec"

\* What has been said of a statement, and what became of its rows.
AckInv ==
    /\ \A a \in Actions : Finished(a) => /\ act[a].wire
                                         /\ \A i \in Stmts(act[a].kind) : Told(a, i) = 1
    /\ \A k \in tabs.acked : /\ Told(k[1], k[2]) # 0 /\ k[2] \in Stmts(act[k[1]].kind)
                             /\ k[3] # Nil => /\ k[3] = <<k[1], k[2]>> /\ k[3] \notin tabs.open
                                              /\ act[k[1]].kind # "bound"
    /\ \A k, m \in tabs.acked : k[1] = m[1] /\ k[2] = m[2] => k = m
    /\ \A h \in tabs.open : \/ act[h[1]].kind = "sync"
                            \/ Told(h[1], h[2]) # 0 /\ (act[h[1]].kind = "bound" => act[h[1]].result = "adopted")
    /\ \A a \in Actions : act[a].result # "none" => act[a].kind = "bound" /\ Told(a, 1) # 0
    /\ \A a \in Actions : canc[Disposer(a)] # Nil => act[a].result = "disposed"

\* Who holds a session, and who will end its stream.
Claimed(h) ==
    \/ run.h = h /\ run.pc \in {"return", "publish", "ack"}
    \/ <<h[1], h[2], h>> \in tabs.acked
    \/ h \in tabs.open
    \/ act[h[1]].result = "unadopted"
    \/ canc[Disposer(h[1])] # Nil
HoldInv ==
    \A b \in Sessions :
        /\ sess[b].st # "free" => sess[b].h \in Handles
        /\ sess[b].h # Nil =>
             /\ sess[b].st # "free" /\ sess[b].h[2] \in Stmts(act[sess[b].h[1]].kind)
             /\ act[sess[b].h[1]].kind # "none"
        /\ sess[b].st \in {"exec", "explain"} =>
             \/ run.pc = "exec" /\ run.b = b /\ sess[b].h = <<run.a, run.i>>
             \/ ui.pc = "syncExec" /\ sess[b].h = <<ui.a, 1>>
        /\ sess[b].st = "live" =>
             \/ act[sess[b].h[1]].kind = "sync"
             \/ /\ act[sess[b].h[1]].kind # "explain" /\ Claimed(sess[b].h)
                /\ Running(sess[b].h[1]) \/ Finished(sess[b].h[1])
                /\ ~act[sess[b].h[1]].done

\* How far a cancel reaches while it is under way.
CancelInv ==
    /\ \A t \in Threads : canc[t] # Nil =>
         /\ canc[t].st = "hit" => canc[t].b \in Sessions
         /\ t \notin {UI, Retirer} => canc[t].st \in {"check", "hit"}
         /\ canc[t].st \in {"cas", "abandon"} => canc[t].root # Nil
    /\ canc[UI] # Nil => /\ ui.pc \in {"cancel", "syncCancel", "syncHook", "quitWait", "sweep"}
                         /\ \A a \in Actions : Async(a) => a <= canc[UI].upto
    /\ canc[Retirer] # Nil => canc[Retirer].upto = MaxActions
    /\ canc[Launcher] # Nil => run.pc = "hook" /\ canc[Launcher].upto = run.a
    /\ \A a \in Actions :
         /\ canc[WireCancel(a)] # Nil => ~act[a].wire /\ canc[WireCancel(a)].upto = a - 1
                                         /\ Async(a)
         /\ canc[NavWatch(a)] # Nil => Running(a) /\ run.pc \in {"lock", "exec", "return"}
                                       /\ canc[NavWatch(a)].upto = a
         /\ canc[Disposer(a)] # Nil =>
              /\ canc[Disposer(a)].upto = a /\ canc[Disposer(a)].h = <<a, 1>>
              /\ canc[Disposer(a)].st = "hit" =>
                   /\ sess[canc[Disposer(a)].b].st = "live"
                   /\ sess[canc[Disposer(a)].b].h = <<a, 1>>

\* The indicator shows a run.
SignalInv == SignalIsNewestRun /\ (signal # 0 => act[signal].kind \in {"run", "batch"})

\* What is published about a statement is about one that was executed.
Executed(h) ==
    \/ Told(h[1], h[2]) # 0
    \/ run.pc = "ack" /\ run.a = h[1] /\ run.i = h[2]
    \/ act[h[1]].kind = "sync" /\ ~(ui.a = h[1] /\ ui.pc \in {"syncCancel", "syncHook", "syncLoad",
                                                      "syncLock", "syncExec", "syncPublish"})
LastInv ==
    last # Nil =>
        /\ act[last.root].kind # "none"
        /\ last.st = "pending" => Async(last.root) /\ last.h = Nil
        /\ last.st = "resolved" /\ last.more => act[last.root].kind = "batch"
        /\ last.h # Nil => /\ last.h[1] = last.root /\ last.h[2] \in Stmts(act[last.root].kind)
                           /\ Executed(last.h)
        /\ act[last.root].kind = "sync" => last.st = "resolved" /\ last.h # Nil

\* What the quit path waits for.
QuitInv ==
    ui.pc \in {"quitWait", "drained"} /\ ui.a # 0 =>
        /\ act[ui.a].kind # "none"
        /\ \/ Async(ui.a) /\ (act[ui.a].kind = "batch" \/ ui.h = Nil)
                /\ (ui.pc = "drained" => act[ui.a].done)
           \/ /\ act[ui.a].kind # "batch" /\ ui.h = <<ui.a, 1>> /\ Executed(ui.h)
              /\ ui.pc = "drained" => ~Live(ui.h)

\* The synchronous run holds its session, and no other, from lock to answer.
SyncInv ==
    /\ ui.pc \in {"syncCancel", "syncHook", "syncLoad", "syncLock"} =>
         \A b \in Sessions : sess[b].h # <<ui.a, 1>>
    /\ ui.pc = "syncExec" =>
         \A b \in Sessions : IF b = act[ui.a].binding THEN sess[b].st = "exec" /\ sess[b].h = <<ui.a, 1>>
                                                     ELSE sess[b].h # <<ui.a, 1>>

RInv ==
    /\ RTypeOK /\ ActsInv /\ UiInv /\ PlaceInv /\ RunInv /\ AckInv /\ HoldInv
    /\ CancelInv /\ NoStrayCancel /\ SignalInv /\ LastInv /\ QuitInv

-----------------------------------------
(* Facts about the state. *)

LEMMA Spaces ==
    /\ Actions \subseteq Nat \ {0} /\ Sessions \subseteq Nat \ {0}
    /\ Nil \notin Actions /\ Nil \notin Handles /\ Nil \notin Slots
    /\ Nil \notin Requests /\ Nil \notin Cancels
    /\ MaxActions \in Nat /\ Actions = 1..MaxActions
    /\ \A a \in Actions : \A i \in 1..2 : <<a, i>> \in Handles
    /\ \A h \in Handles : h[1] \in Actions /\ h[2] \in 1..2 /\ h = <<h[1], h[2]>>
    /\ \A k : Stmts(k) \subseteq 1..2 /\ 1 \in Stmts(k)
BY RunnerAssumption DEF Actions, Sessions, Handles, Stmts

\* Threads are told apart by name and number.
LEMMA ThreadFacts ==
    /\ UI \in Threads /\ Launcher \in Threads /\ Retirer \in Threads
    /\ \A a \in Actions : WireCancel(a) \in Threads /\ Disposer(a) \in Threads /\ NavWatch(a) \in Threads
    /\ UI # Launcher /\ UI # Retirer /\ Launcher # Retirer
    /\ \A a, c \in Actions :
         /\ WireCancel(a) \notin {UI, Launcher, Retirer, Disposer(c), NavWatch(c)}
         /\ Disposer(a) \notin {UI, Launcher, Retirer, NavWatch(c)}
         /\ NavWatch(a) \notin {UI, Launcher, Retirer}
         /\ a # c => /\ WireCancel(a) # WireCancel(c) /\ Disposer(a) # Disposer(c)
                     /\ NavWatch(a) # NavWatch(c)
         /\ WireCancel(a)[1] = "wire" /\ WireCancel(a)[2] = a
         /\ Disposer(a)[1] = "dispose" /\ Disposer(a)[2] = a
         /\ NavWatch(a)[1] = "nav" /\ NavWatch(a)[2] = a
    /\ UI[1] = "ui" /\ Launcher[1] = "launcher" /\ Retirer[1] = "retirer"
BY DEF UI, Launcher, Retirer, Threads, WireCancel, Disposer, NavWatch

LEMMA ThreadKinds ==
    ASSUME NEW t \in Threads
    PROVE  \/ t \in {UI, Launcher, Retirer}
           \/ \E a \in Actions : t \in {WireCancel(a), Disposer(a), NavWatch(a)}
BY DEF Threads

\* An answer of a statement.
LEMMA ToldType ==
    ASSUME RTypeOK, NEW a \in Actions, NEW i \in 1..2
    PROVE  /\ act[a] \in ActRecs /\ act[a].acks[i] \in Seq(Verdicts)
           /\ Told(a, i) \in Nat /\ (act[a].acks[i] = <<>> <=> Told(a, i) = 0)
           /\ \A v \in Verdicts : /\ Append(act[a].acks[i], v) \in Seq(Verdicts)
                                  /\ Len(Append(act[a].acks[i], v)) = Told(a, i) + 1
<1>1. act[a] \in ActRecs /\ act[a].acks[i] \in Seq(Verdicts) BY DEF RTypeOK, ActRecs
<1> QED BY <1>1, EmptySeq DEF Told

\* Actions are numbered 1, 2, 3 ...
LEMMA NextSame ==
    ASSUME ActsInv, \A a \in Actions : act'[a].kind = act[a].kind
    PROVE  NextAction' = NextAction /\ ActsInv'
<1>1. {a \in Actions : act'[a].kind # "none"} = {a \in Actions : act[a].kind # "none"} OBVIOUS
<1>2. NextAction' = NextAction BY <1>1 DEF NextAction
<1> QED BY <1>2 DEF ActsInv

LEMMA NextFacts ==
    ASSUME ActsInv, NextAction \in Actions
    PROVE  act[NextAction].kind = "none" /\ NextAction \in Nat
BY Spaces DEF ActsInv

LEMMA NextAdds ==
    ASSUME ActsInv, NextAction \in Actions, act'[NextAction].kind # "none",
           \A a \in Actions \ {NextAction} : act'[a].kind = act[a].kind
    PROVE  NextAction' = NextAction + 1 /\ ActsInv'
<1> DEFINE Used == {a \in Actions : act'[a].kind # "none"}
<1>1. NextAction \in Nat \ {0} /\ NextAction <= MaxActions /\ MaxActions \in Nat BY Spaces
<1>2. \A a \in Actions : act'[a].kind # "none" <=> a \in 1..NextAction BY <1>1, Spaces DEF ActsInv
<1>3. Used = 1..NextAction BY <1>1, <1>2, Spaces
<1>4. Cardinality(1..NextAction) = NextAction BY <1>1, FS_Interval
<1>5. NextAction' = NextAction + 1 BY <1>3, <1>4 DEF NextAction
<1> QED BY <1>1, <1>2, <1>5, Spaces DEF ActsInv

-----------------------------------------
(* What a step leaves alone. *)

\* All of an action but its context, its generation and whether it was abandoned.
CoreSame ==
    \A a \in Actions :
        /\ act'[a].kind = act[a].kind /\ act'[a].wire = act[a].wire
        /\ act'[a].binding = act[a].binding /\ act'[a].acks = act[a].acks
        /\ act'[a].draining = act[a].draining /\ act'[a].done = act[a].done
        /\ act'[a].result = act[a].result

\* What kind of action it is, on which session, and whether it is over.
RoleSame ==
    \A a \in Actions :
        /\ act'[a].kind = act[a].kind /\ act'[a].wire = act[a].wire
        /\ act'[a].binding = act[a].binding /\ act'[a].done = act[a].done

LEMMA CoreRole == CoreSame => RoleSame
BY DEF CoreSame, RoleSame

\* Sessions are only freed, and only of a stream.
SessShrinks ==
    \A b \in Sessions :
        \/ sess'[b].st = sess[b].st /\ sess'[b].h = sess[b].h
        \/ sess[b].st = "live" /\ sess'[b].st = "free" /\ sess'[b].h = Nil

\* The launcher stays with its action.
RunStays == run'.a = run.a /\ (run'.pc = "idle" <=> run.pc = "idle")

LEMMA CoreFacts ==
    ASSUME CoreSame, ActsInv
    PROVE  /\ ActsInv' /\ NextAction' = NextAction
           /\ \A a \in Actions : /\ Async(a)' = Async(a) /\ Finished(a)' = Finished(a)
                                 /\ Fresh(a)' = Fresh(a)
                                 /\ \A i \in 1..2 : Told(a, i)' = Told(a, i)
BY NextSame DEF CoreSame, Async, Finished, Fresh, Told

LEMMA UiRole ==
    ASSUME RTypeOK, ActsInv, UiInv, RoleSame, UNCHANGED <<enq, ui>>,
           \A a \in Actions : canc'[WireCancel(a)] # Nil => canc[WireCancel(a)] # Nil
    PROVE  UiInv'
<1>1. NextAction' = NextAction BY NextSame DEF RoleSame
<1>2. enq # Nil => enq.a \in Actions BY DEF RTypeOK, Requests, Opt
<1>3. ui.pc = "syncLock" \/ ui.pc = "syncExec" => ui.a \in Actions BY DEF UiInv
<1> QED BY <1>1, <1>2, <1>3 DEF UiInv, RoleSame

LEMMA UiFrame ==
    ASSUME RTypeOK, ActsInv, UiInv, CoreSame, UNCHANGED <<enq, ui>>,
           \A a \in Actions : canc'[WireCancel(a)] # Nil => canc[WireCancel(a)] # Nil
    PROVE  UiInv'
BY UiRole, CoreRole

LEMMA PlaceFrame ==
    ASSUME ActsInv, PlaceInv, CoreSame, RunStays, UNCHANGED <<queue, enq>>
    PROVE  PlaceInv'
<1>1. \A a \in Actions : /\ Async(a)' = Async(a) /\ Finished(a)' = Finished(a)
                         /\ Fresh(a)' = Fresh(a) /\ act'[a].wire = act[a].wire
                         /\ Queued(a)' = Queued(a) /\ Enqueuing(a)' = Enqueuing(a)
                         /\ Running(a)' = Running(a)
  <2>1. \A a \in Actions : Queued(a)' = Queued(a) /\ Enqueuing(a)' = Enqueuing(a) BY DEF Queued, Enqueuing
  <2>2. \A a \in Actions : Running(a)' = Running(a) BY DEF RunStays, Running
  <2> QED BY <2>1, <2>2, CoreFacts DEF CoreSame
<1> QED BY <1>1 DEF PlaceInv

LEMMA RunFrame ==
    ASSUME RunInv, CoreSame, ActsInv, UNCHANGED run, SessShrinks
    PROVE  RunInv'
<1>1. CASE run.pc = "idle" BY <1>1 DEF RunInv
<1>2. CASE run.pc # "idle"
  <2>1. run.a \in Actions BY <1>2 DEF RunInv
  <2>2. /\ Async(run.a)' = Async(run.a) /\ Finished(run.a)' = Finished(run.a)
        /\ \A i \in 1..2 : Told(run.a, i)' = Told(run.a, i)
        /\ act'[run.a].kind = act[run.a].kind /\ act'[run.a].wire = act[run.a].wire
    BY <2>1, CoreFacts DEF CoreSame
  <2>3. run.pc = "exec" => run.b \in Sessions /\ sess'[run.b].st = sess[run.b].st
                           /\ sess'[run.b].h = sess[run.b].h
    BY <1>2 DEF RunInv, SessShrinks
  <2> QED BY <1>2, <2>1, <2>2, <2>3 DEF RunInv
<1> QED BY <1>1, <1>2

LEMMA AckFrame ==
    ASSUME RTypeOK, ActsInv, AckInv, CoreSame, UNCHANGED tabs,
           \A a \in Actions : canc'[Disposer(a)] # Nil => canc[Disposer(a)] # Nil
    PROVE  AckInv'
<1>1. \A a \in Actions : /\ Finished(a)' = Finished(a) /\ act'[a].wire = act[a].wire
                         /\ act'[a].kind = act[a].kind /\ act'[a].result = act[a].result
                         /\ \A i \in 1..2 : Told(a, i)' = Told(a, i)
  BY CoreFacts DEF CoreSame
<1>2. /\ \A k \in tabs.acked : k[1] \in Actions /\ k[2] \in 1..2
      /\ \A h \in tabs.open : h[1] \in Actions /\ h[2] \in 1..2
  BY Spaces DEF RTypeOK
<1> QED BY <1>1, <1>2, Spaces DEF AckInv

LEMMA SignalFrame ==
    ASSUME RTypeOK, SignalInv, CoreSame, UNCHANGED <<signal, tabs>>
    PROVE  SignalInv'
<1>1. \A a \in Actions : UnsettledStmts(a)' = UnsettledStmts(a) BY DEF UnsettledStmts, CoreSame
<1>2. {a \in Actions : act'[a].kind \in {"run", "batch"}} = {a \in Actions : act[a].kind \in {"run", "batch"}}
  BY DEF CoreSame
<1>3. signal # 0 => signal \in Actions BY DEF RTypeOK
<1> QED BY <1>1, <1>2, <1>3 DEF SignalInv, SignalIsNewestRun, CoreSame

LEMMA StrayFrame ==
    ASSUME NoStrayCancel, RTypeOK, CoreSame, stray' = stray
    PROVE  NoStrayCancel'
BY DEF NoStrayCancel, RTypeOK, CoreSame

LEMMA LastRole ==
    ASSUME RTypeOK, LastInv, RoleSame, last' = last, \A h \in Handles : Executed(h) => Executed(h)'
    PROVE  LastInv'
<1>1. last # Nil => last.root \in Actions /\ (last.h # Nil => last.h \in Handles) BY DEF RTypeOK, Slots, Opt
<1> QED BY <1>1 DEF LastInv, RoleSame, Async

LEMMA LastFrame ==
    ASSUME RTypeOK, LastInv, CoreSame, last' = last, \A h \in Handles : Executed(h) => Executed(h)'
    PROVE  LastInv'
BY LastRole, CoreRole

\* A statement that was executed stays so, but for the launcher's own steps.
LEMMA ExecutedFrame ==
    ASSUME CoreSame, UNCHANGED <<run, ui>>
    PROVE  \A h \in Handles : Executed(h) => Executed(h)'
BY Spaces DEF Executed, CoreSame, Told

LEMMA LiveShrinks ==
    ASSUME SessShrinks
    PROVE  \A h \in Handles : Live(h)' => Live(h)
BY Spaces DEF SessShrinks, Live, HeldBy

LEMMA QuitRole ==
    ASSUME RTypeOK, QuitInv, RoleSame, UNCHANGED ui, SessShrinks,
           \A h \in Handles : Executed(h) => Executed(h)'
    PROVE  QuitInv'
<1>1. ui.a # 0 => ui.a \in Actions /\ act'[ui.a].kind = act[ui.a].kind /\ act'[ui.a].done = act[ui.a].done
                  /\ <<ui.a, 1>> \in Handles
  BY Spaces DEF RTypeOK, UiRecs, RoleSame
<1> QED BY <1>1, LiveShrinks DEF QuitInv, Async

LEMMA QuitFrame ==
    ASSUME RTypeOK, QuitInv, CoreSame, UNCHANGED ui, SessShrinks,
           \A h \in Handles : Executed(h) => Executed(h)'
    PROVE  QuitInv'
BY QuitRole, CoreRole

LEMMA HoldRole ==
    ASSUME RTypeOK, HoldInv, RoleSame, SessShrinks,
           run.pc = "exec" => UNCHANGED run, ui.pc = "syncExec" => UNCHANGED ui,
           \A c \in Actions : Running(c) \/ Finished(c) => Running(c)' \/ Finished(c)',
           \A h \in Handles : Live(h)' /\ act[h[1]].kind # "sync" /\ Claimed(h) => Claimed(h)'
    PROVE  HoldInv'
<1> SUFFICES ASSUME NEW b \in Sessions
             PROVE  HoldInv!(b)'
  BY DEF HoldInv
<1>1. HoldInv!(b) BY DEF HoldInv
<1>2. sess[b].h # Nil => sess[b].h \in Handles /\ sess[b].h[1] \in Actions BY Spaces DEF RTypeOK, SessRecs, Opt
<1>3. \A a \in Actions : act'[a].kind = act[a].kind /\ act'[a].done = act[a].done BY DEF RoleSame
<1>4. CASE sess'[b].st = "free" /\ sess'[b].h = Nil BY <1>4
<1>5. CASE sess'[b].st = sess[b].st /\ sess'[b].h = sess[b].h /\ sess[b].h # Nil
  <2>1. PICK h \in Handles : h = sess[b].h BY <1>2, <1>5
  <2>2. sess'[b].st = "live" => Live(h)' BY <1>5, <2>1 DEF Live, HeldBy
  <2>3. h[1] \in Actions /\ act'[h[1]].kind = act[h[1]].kind /\ act'[h[1]].done = act[h[1]].done
        /\ (Finished(h[1]) \/ Running(h[1]) => Finished(h[1])' \/ Running(h[1])')
    BY <1>3, <2>1, Spaces
  <2>4. sess'[b].h = h /\ sess'[b].st = sess[b].st BY <1>5, <2>1
  <2>5. sess'[b].st = "live" => \/ act'[h[1]].kind = "sync"
                               \/ /\ act'[h[1]].kind # "explain" /\ Claimed(h)'
                                  /\ Running(h[1])' \/ Finished(h[1])'
                                  /\ ~act'[h[1]].done
    BY <1>1, <2>1, <2>2, <2>3, <2>4
  <2>6. /\ Claimed(sess[b].h)' = Claimed(h)' /\ Running(sess[b].h[1])' = Running(h[1])'
        /\ Finished(sess[b].h[1])' = Finished(h[1])'
    BY <2>1, <2>4 DEF Claimed, Running, Finished
  <2> QED BY <1>1, <1>3, <1>5, <2>1, <2>3, <2>4, <2>5, <2>6
<1>6. CASE sess'[b].st = sess[b].st /\ sess'[b].h = sess[b].h /\ sess[b].h = Nil BY <1>1, <1>2, <1>6, Spaces
<1> QED BY <1>4, <1>5, <1>6 DEF SessShrinks

LEMMA HoldFrame ==
    ASSUME RTypeOK, ActsInv, HoldInv, CoreSame, RunStays, SessShrinks,
           run.pc = "exec" => UNCHANGED run, ui.pc = "syncExec" => UNCHANGED ui,
           \A h \in Handles : Live(h)' /\ act[h[1]].kind # "sync" /\ Claimed(h) => Claimed(h)'
    PROVE  HoldInv'
<1>1. \A a \in Actions : Finished(a)' = Finished(a) /\ Running(a)' = Running(a) BY CoreFacts DEF Running, RunStays
<1> QED BY <1>1, CoreRole, HoldRole

LEMMA CancelFrame ==
    ASSUME RTypeOK, ActsInv, CancelInv, CoreSame, RunStays, UNCHANGED canc,
           canc[UI] # Nil => UNCHANGED ui, canc[Launcher] # Nil => UNCHANGED run,
           \A a \in Actions : canc[NavWatch(a)] # Nil => UNCHANGED run,
           \A a \in Actions : canc[Disposer(a)] # Nil /\ canc[Disposer(a)].st = "hit" =>
                /\ sess'[canc[Disposer(a)].b].st = sess[canc[Disposer(a)].b].st
                /\ sess'[canc[Disposer(a)].b].h = sess[canc[Disposer(a)].b].h
    PROVE  CancelInv'
<1>1. \A a \in Actions : /\ Async(a)' = Async(a) /\ Running(a)' = Running(a)
                         /\ act'[a].wire = act[a].wire
  BY CoreFacts DEF CoreSame, Running, RunStays
<1> QED BY <1>1 DEF CancelInv

-----------------------------------------
(* Steps that disturb one variable. *)

\* A disposed result is not read by a tab.
LEMMA DisposerSafe ==
    ASSUME RTypeOK, AckInv, NEW a \in Actions, canc[Disposer(a)] # Nil
    PROVE  act[a].kind = "bound" /\ act[a].result = "disposed" /\ <<a, 1>> \notin tabs.open
           /\ \A k \in tabs.acked : k[3] # <<a, 1>>
<1>1. act[a].kind = "bound" /\ act[a].result = "disposed" BY DEF AckInv
<1>2. <<a, 1>> \notin tabs.open BY <1>1 DEF AckInv
<1>3. ASSUME NEW k \in tabs.acked, k[3] = <<a, 1>> PROVE FALSE
  <2>1. k[3] # Nil BY <1>3, Spaces
  <2>2. k[3] = <<k[1], k[2]>> /\ act[k[1]].kind # "bound" BY <2>1 DEF AckInv
  <2>3. k[1] = a BY <1>3, <2>2
  <2> QED BY <1>1, <2>2, <2>3
<1> QED BY <1>1, <1>2, <1>3

\* Streams that tabs read are stopped or end; sessions are fenced or closed.
LEMMA StreamsEnd ==
    ASSUME RInv, RTypeOK', CoreSame, SessShrinks,
           \A b \in Sessions : sess'[b].st # sess[b].st => sess[b].h \in tabs.open,
           UNCHANGED <<last, queue, run, enq, canc, tabs, signal, ui, stray>>
    PROVE  RInv'
<1>1. RunStays BY DEF RunStays
<1>2. ActsInv' /\ PlaceInv' /\ NoStrayCancel' /\ SignalInv' /\ UiInv' /\ AckInv' /\ RunInv'
  BY <1>1, CoreFacts, PlaceFrame, StrayFrame, SignalFrame, UiFrame, AckFrame, RunFrame DEF RInv
<1>3. LastInv' /\ QuitInv' BY ExecutedFrame, LastFrame, QuitFrame DEF RInv
<1>4. \A a \in Actions : act'[a].kind = act[a].kind /\ act'[a].result = act[a].result BY DEF CoreSame
<1>5. HoldInv'
  <2>1. \A h \in Handles : Claimed(h) => Claimed(h)' BY <1>4, Spaces DEF Claimed
  <2> QED BY <1>1, <2>1, HoldFrame DEF RInv
<1>6. CancelInv'
  <2>1. ASSUME NEW a \in Actions, canc[Disposer(a)] # Nil, canc[Disposer(a)].st = "hit"
        PROVE  /\ sess'[canc[Disposer(a)].b].st = sess[canc[Disposer(a)].b].st
               /\ sess'[canc[Disposer(a)].b].h = sess[canc[Disposer(a)].b].h
    <3>1. canc[Disposer(a)].b \in Sessions /\ sess[canc[Disposer(a)].b].h = <<a, 1>>
      BY <2>1, ThreadFacts DEF RInv, CancelInv
    <3>2. <<a, 1>> \notin tabs.open BY <2>1, DisposerSafe DEF RInv
    <3>3. sess[canc[Disposer(a)].b].st = "live" BY <2>1 DEF RInv, CancelInv
    <3> QED BY <3>1, <3>2, <3>3 DEF SessShrinks
  <2> QED BY <1>1, <2>1, CancelFrame DEF RInv
<1> QED BY <1>2, <1>3, <1>5, <1>6 DEF RInv

\* The UI thread goes back to waiting, or on with quitting.
SyncPcs == {"syncCancel", "syncHook", "syncLoad", "syncLock", "syncExec", "syncPublish"}
LEMMA UiMoves ==
    ASSUME RInv, RTypeOK', ui'.pc \notin SyncPcs \cup {"enqueue"}, ui.pc # "syncExec",
           enq = Nil, canc[UI] = Nil, QuitInv',
           \A b \in Sessions : sess'[b].st = sess[b].st /\ sess'[b].h = sess[b].h,
           UNCHANGED <<last, act, queue, run, enq, canc, tabs, signal, stray>>
    PROVE  RInv'
<1>1. CoreSame /\ RunStays /\ SessShrinks BY DEF CoreSame, RunStays, SessShrinks
<1>2. ActsInv' /\ PlaceInv' /\ NoStrayCancel' /\ SignalInv' /\ AckInv' /\ RunInv'
  BY <1>1, CoreFacts, PlaceFrame, StrayFrame, SignalFrame, AckFrame, RunFrame DEF RInv
<1>3. UiInv' BY DEF RInv, UiInv, SyncPcs
<1>4. \A h \in Handles : Executed(h) => Executed(h)' BY DEF Executed, Told, SyncPcs
<1>5. LastInv' BY <1>1, <1>4, LastFrame DEF RInv
<1>6. HoldInv'
  <2>1. \A h \in Handles : Claimed(h) => Claimed(h)' BY DEF Claimed
  <2>2. run.pc = "exec" => UNCHANGED run OBVIOUS
  <2> QED BY <1>1, <2>1, <2>2, HoldFrame DEF RInv
<1>7. CancelInv'
  <2>1. ASSUME NEW a \in Actions, canc[Disposer(a)] # Nil, canc[Disposer(a)].st = "hit"
        PROVE  canc[Disposer(a)].b \in Sessions
    BY <2>1, ThreadFacts DEF RInv, CancelInv
  <2> QED BY <1>1, <2>1, CancelFrame DEF RInv
<1> QED BY <1>2, <1>3, <1>5, <1>6, <1>7 DEF RInv

\* The launcher moves on within a statement, outside the session.
LEMMA RunGoes ==
    ASSUME RInv, RTypeOK', run'.a = run.a, run'.i = run.i, run'.h = run.h,
           run.pc \notin {"idle", "ack", "exec", "next"}, run'.pc \notin {"idle", "wait", "exec", "next"},
           run.pc = "wait" => act[run.a].wire,
           run'.pc = "lock" => run'.b \in Sessions,
           run.h # Nil => run.pc \in {"return", "publish"} /\ run'.pc \in {"return", "publish"},
           \A a \in Actions : /\ canc'[Disposer(a)] = canc[Disposer(a)]
                              /\ canc'[WireCancel(a)] = canc[WireCancel(a)],
           CancelInv',
           UNCHANGED <<last, act, queue, sess, enq, tabs, signal, ui, stray>>
    PROVE  RInv'
<1>1. CoreSame /\ RunStays /\ SessShrinks BY DEF CoreSame, RunStays, SessShrinks
<1>2. ActsInv' /\ PlaceInv' /\ NoStrayCancel' /\ SignalInv' /\ AckInv' /\ UiInv'
  BY <1>1, CoreFacts, PlaceFrame, StrayFrame, SignalFrame, AckFrame, UiFrame DEF RInv
<1>3. RunInv' BY DEF RInv, RunInv, Async, Finished, Told
<1>4. \A h \in Handles : Executed(h) => Executed(h)' BY DEF Executed, Told
<1>5. LastInv' /\ QuitInv' BY <1>1, <1>4, LastFrame, QuitFrame DEF RInv
<1>6. HoldInv'
  <2>1. ASSUME NEW b \in Sessions, sess[b].h \in Handles, Claimed(sess[b].h)
        PROVE  Claimed(sess[b].h)'
    <3>1. sess[b].h[1] \in Actions /\ sess[b].h # Nil BY <2>1, Spaces
    <3> QED BY <2>1, <3>1 DEF Claimed
  <2>2. \A a : Running(a)' = Running(a) /\ Finished(a)' = Finished(a) BY DEF Running, Finished
  <2>3. \A b \in Sessions : sess[b].st = "live" => sess[b].h \in Handles BY Spaces DEF RInv, HoldInv
  <2> QED BY <2>1, <2>2, <2>3 DEF RInv, HoldInv
<1> QED BY <1>2, <1>3, <1>5, <1>6 DEF RInv

LEMMA RunMoves ==
    ASSUME RInv, RTypeOK', run'.a = run.a, run'.i = run.i, run'.h = run.h,
           run.pc \notin {"idle", "ack", "exec", "next"}, run'.pc \notin {"idle", "wait", "exec", "next"},
           run.pc = "wait" => act[run.a].wire,
           canc[Launcher] = Nil,
           \A a \in Actions : canc[NavWatch(a)] # Nil => run'.pc \in {"lock", "return"},
           run'.pc = "lock" => run'.b \in Sessions,
           run.h # Nil => run.pc \in {"return", "publish"} /\ run'.pc \in {"return", "publish"},
           UNCHANGED <<last, act, queue, sess, enq, canc, tabs, signal, ui, stray>>
    PROVE  RInv'
<1>1. CancelInv' BY DEF RInv, CancelInv, Running, Async
<1> QED BY <1>1, RunGoes

\* Nothing that the invariant speaks of changes.
LEMMA CoreKeeps ==
    ASSUME RInv, RTypeOK', CoreSame,
           UNCHANGED <<last, queue, run, sess, enq, canc, tabs, signal, ui, stray>>
    PROVE  RInv'
<1>1. SessShrinks /\ \A b \in Sessions : sess'[b].st = sess[b].st BY DEF SessShrinks
<1> QED BY <1>1, StreamsEnd

-----------------------------------------
(* Types. *)

LEMMA CancelTypes ==
    ASSUME NEW u \in 0..MaxActions
    PROVE  /\ \A w \in BOOLEAN : CancelSlot(u, w) \in Cancels
           /\ \A b \in BoundTo : CancelCurrent(b, u) \in Cancels
           /\ \A h \in Handles : CancelHandle(h, u) \in Cancels
BY DEF CancelSlot, CancelCurrent, CancelHandle, Cancels, BoundTo

\* Every action number is a reach of a cancel.
LEMMA Reaches ==
    /\ MaxActions \in 0..MaxActions
    /\ \A a \in Actions : a \in 0..MaxActions /\ a - 1 \in 0..MaxActions
    /\ ActsInv => NextAction - 1 \in 0..MaxActions
BY Spaces DEF ActsInv

LEMMA RootTypes ==
    ASSUME NEW s \in Opt(Slots)
    PROVE  /\ PendingRoot(s) \in Opt(Actions)
           /\ PendingRoot(s) # Nil => s # Nil /\ PendingRoot(s) = s.root
           /\ s # Nil => s \in Slots /\ s.root \in Actions /\ s.h \in Opt(Handles)
           /\ \A c \in Cancels : AfterSlot(c, s) \in Opt(Cancels)
<1>1. s # Nil => s \in Slots /\ s.root \in Actions /\ s.h \in Opt(Handles) BY DEF Opt, Slots
<1>2. ASSUME NEW c \in Cancels PROVE AfterSlot(c, s) \in Opt(Cancels)
  <2>1. c.upto \in 0..MaxActions BY DEF Cancels
  <2> QED BY <1>1, <2>1, CancelTypes DEF AfterSlot, Opt
<1> QED BY <1>1, <1>2 DEF PendingRoot, Opt

\* What a discard does to one action and to one thread.
LEMMA DiscardActs ==
    ASSUME NEW as \in [Actions -> ActRecs], NEW set \in SUBSET Actions
    PROVE  /\ Discard(as, set) \in [Actions -> ActRecs]
           /\ \A a \in Actions :
                Discard(as, set)[a] = IF a \in set THEN [as[a] EXCEPT !.result = "disposed"] ELSE as[a]
<1>1. Discard(as, set) \in [Actions -> ActRecs] BY ZenonT(40) DEF Discard, ActRecs
<1> QED BY <1>1 DEF Discard

LEMMA DiscardCancs ==
    ASSUME NEW cs \in [Threads -> Opt(Cancels)], NEW set \in SUBSET Actions
    PROVE  /\ DiscardCanc(cs, set) \in [Threads -> Opt(Cancels)]
           /\ \A a \in Actions :
                /\ DiscardCanc(cs, set)[Disposer(a)] =
                     IF a \in set THEN CancelHandle(<<a, 1>>, a) ELSE cs[Disposer(a)]
                /\ DiscardCanc(cs, set)[WireCancel(a)] = cs[WireCancel(a)]
                /\ DiscardCanc(cs, set)[NavWatch(a)] = cs[NavWatch(a)]
           /\ \A t \in {UI, Launcher, Retirer} : DiscardCanc(cs, set)[t] = cs[t]
<1>2. ASSUME NEW t \in Threads PROVE DiscardCanc(cs, set)[t] \in Opt(Cancels)
  <2>1. CASE t[1] = "dispose" /\ t[2] \in set
    <3>1. t[2] \in Actions /\ t[2] \in 0..MaxActions /\ <<t[2], 1>> \in Handles BY <2>1, Reaches, Spaces
    <3> QED BY <2>1, <3>1, CancelTypes DEF DiscardCanc, Opt
  <2>2. CASE ~(t[1] = "dispose" /\ t[2] \in set) BY <2>2 DEF DiscardCanc
  <2> QED BY <2>1, <2>2
<1>3. DiscardCanc(cs, set) \in [Threads -> Opt(Cancels)] BY <1>2 DEF DiscardCanc
<1>5. ASSUME NEW a \in Actions
      PROVE  /\ DiscardCanc(cs, set)[Disposer(a)] =
                  IF a \in set THEN CancelHandle(<<a, 1>>, a) ELSE cs[Disposer(a)]
             /\ DiscardCanc(cs, set)[WireCancel(a)] = cs[WireCancel(a)]
             /\ DiscardCanc(cs, set)[NavWatch(a)] = cs[NavWatch(a)]
  BY ThreadFacts DEF DiscardCanc
<1>6. \A t \in {UI, Launcher, Retirer} : DiscardCanc(cs, set)[t] = cs[t] BY ThreadFacts DEF DiscardCanc
<1> QED BY <1>3, <1>5, <1>6

LEMMA DisposeCancel ==
    ASSUME NEW a \in Actions
    PROVE  CancelHandle(<<a, 1>>, a) \in Cancels /\ CancelHandle(<<a, 1>>, a) # Nil
<1>1. a \in 0..MaxActions /\ <<a, 1>> \in Handles BY Reaches, Spaces
<1>2. CancelHandle(<<a, 1>>, a) \in Cancels BY <1>1, CancelTypes
<1> QED BY <1>2, Spaces

LEMMA DiscardOne ==
    ASSUME RTypeOK, NEW a \in Actions, canc' = DiscardCanc(canc, {a})
    PROVE  /\ canc' \in [Threads -> Opt(Cancels)]
           /\ \A c \in Actions : /\ canc'[Disposer(c)] = IF c = a THEN CancelHandle(<<a, 1>>, a) ELSE canc[Disposer(c)]
                                 /\ canc'[WireCancel(c)] = canc[WireCancel(c)]
                                 /\ canc'[NavWatch(c)] = canc[NavWatch(c)]
           /\ \A t \in {UI, Launcher, Retirer} : canc'[t] = canc[t]
           /\ CancelHandle(<<a, 1>>, a) \in Cancels /\ CancelHandle(<<a, 1>>, a) # Nil
<1>1. PICK set \in SUBSET Actions : set = {a} OBVIOUS
<1>2. CancelHandle(<<a, 1>>, a) \in Cancels /\ CancelHandle(<<a, 1>>, a) # Nil BY DisposeCancel
<1>3. canc \in [Threads -> Opt(Cancels)] /\ act \in [Actions -> ActRecs] BY DEF RTypeOK
<1>4. /\ DiscardCanc(canc, set) \in [Threads -> Opt(Cancels)]
      /\ \A c \in Actions :
           /\ DiscardCanc(canc, set)[Disposer(c)] =
                IF c \in set THEN CancelHandle(<<c, 1>>, c) ELSE canc[Disposer(c)]
           /\ DiscardCanc(canc, set)[WireCancel(c)] = canc[WireCancel(c)]
           /\ DiscardCanc(canc, set)[NavWatch(c)] = canc[NavWatch(c)]
      /\ \A t \in {UI, Launcher, Retirer} : DiscardCanc(canc, set)[t] = canc[t]
  BY <1>3, DiscardCancs
<1>5. canc' = DiscardCanc(canc, set) BY <1>1
<1> QED BY <1>1, <1>2, <1>4, <1>5

LEMMA ActionTypes ==
    ASSUME NEW r \in ActRecs
    PROVE  /\ [r EXCEPT !.wire = TRUE] \in ActRecs
           /\ [r EXCEPT !.ctx = TRUE] \in ActRecs
           /\ [r EXCEPT !.nav = TRUE] \in ActRecs
           /\ [r EXCEPT !.abandoned = TRUE, !.ctx = TRUE] \in ActRecs
           /\ [r EXCEPT !.draining = FALSE, !.done = TRUE] \in ActRecs
           /\ [r EXCEPT !.result = "adopted"] \in ActRecs
           /\ \A b \in BoundTo : [r EXCEPT !.binding = b] \in ActRecs
BY DEF ActRecs

LEMMA FreedType ==
    ASSUME NEW s \in SessRecs
    PROVE  /\ FreedSess(s) \in SessRecs /\ FreedSess(s).st = "free" /\ FreedSess(s).h = Nil
           /\ FreedSess(s).closed = s.closed
BY DEF FreedSess, SessRecs, Opt

\* A cancel that returns: what its thread does next.
LEMMA ReturnedFacts ==
    ASSUME NEW t \in Threads, NEW cs \in [Threads -> Opt(Cancels)],
           NEW ss \in [Sessions -> SessRecs], NEW as \in [Actions -> ActRecs],
           Returned(t, cs, ss, as)
    PROVE  /\ canc' \in [Threads -> Opt(Cancels)] /\ canc' = [cs EXCEPT ![t] = Nil]
           /\ sess' \in [Sessions -> SessRecs]
           /\ \A b \in Sessions :
                \/ sess'[b] = ss[b]
                \/ /\ \E a \in Actions : t = Disposer(a) /\ ss[b].h = <<a, 1>>
                   /\ ss[b].st = "live" /\ sess'[b] = FreedSess(ss[b])
           /\ act' \in [Actions -> ActRecs]
           /\ \A a \in Actions : act'[a] = IF t = WireCancel(a) THEN [as[a] EXCEPT !.wire = TRUE] ELSE as[a]
<1>1. canc' \in [Threads -> Opt(Cancels)] /\ canc' = [cs EXCEPT ![t] = Nil] BY DEF Returned, Opt
<1>2. t[1] = "dispose" => t[2] \in Actions /\ t = Disposer(t[2])
  BY DEF Threads, UI, Launcher, Retirer, WireCancel, Disposer, NavWatch
<1>3. t[1] = "wire" => t[2] \in Actions /\ t = WireCancel(t[2])
  BY DEF Threads, UI, Launcher, Retirer, WireCancel, Disposer, NavWatch
<1>4. \A b \in Sessions : FreedSess(ss[b]) \in SessRecs BY FreedType
<1>5. sess' \in [Sessions -> SessRecs] BY <1>4 DEF Returned
<1>6. \A b \in Sessions :
        \/ sess'[b] = ss[b]
        \/ /\ \E a \in Actions : t = Disposer(a) /\ ss[b].h = <<a, 1>>
           /\ ss[b].st = "live" /\ sess'[b] = FreedSess(ss[b])
  BY <1>2 DEF Returned
<1>7. CASE t[1] = "wire"
  <2>1. act' = [as EXCEPT ![t[2]] = [as[t[2]] EXCEPT !.wire = TRUE]] /\ t[2] \in Actions BY <1>3, <1>7 DEF Returned
  <2>2. [as[t[2]] EXCEPT !.wire = TRUE] \in ActRecs BY <2>1, ActionTypes, Zenon
  <2>3. act' \in [Actions -> ActRecs] BY <2>1, <2>2
  <2>4. \A a \in Actions : t = WireCancel(a) <=> a = t[2] BY <1>3, <1>7, ThreadFacts
  <2> QED BY <1>1, <1>5, <1>6, <2>1, <2>3, <2>4
<1>8. CASE t[1] # "wire"
  <2>1. \A a \in Actions : t # WireCancel(a) BY <1>8, ThreadFacts
  <2>2. act' = as BY <1>8 DEF Returned
  <2> QED BY <1>1, <1>5, <1>6, <2>1, <2>2
<1> QED BY <1>7, <1>8

\* A disposer ends the stream of its result.
LEMMA ReturnedDisposes ==
    ASSUME NEW a \in Actions, NEW cs, NEW ss, NEW as, Returned(Disposer(a), cs, ss, as),
           NEW b \in Sessions, ss[b].st = "live", ss[b].h = <<a, 1>>
    PROVE  sess'[b] = FreedSess(ss[b])
BY ThreadFacts DEF Returned

-----------------------------------------
(* The UI thread returns to its loop, or goes on with quitting. *)

LEMMA UiReturns ==
    ASSUME RInv, WaitWire \/ UserCancelled \/ QuitDrained \/ QuitExpires
    PROVE  RInv'
<1>1. /\ ui.pc \in {"waitWire", "cancel", "quitWait"} /\ enq = Nil /\ canc[UI] = Nil
      /\ UNCHANGED <<binding, generation, last, act, queue, launching, run, sess, enq, canc,
                     tabs, signal, retirer, stray>>
  BY DEF WaitWire, UserCancelled, QuitDrained, QuitExpires, RInv, UiInv, CancelInv
<1>2. /\ ui' \in UiRecs /\ ui'.pc \in {"idle", "drained", "closing"}
      /\ ui'.pc = "drained" => ui'.a = ui.a /\ ui'.h = ui.h /\ QuitTargetDone /\ ui.pc = "quitWait"
  BY <1>1, Spaces DEF WaitWire, UserCancelled, QuitDrained, QuitExpires, IdleUi, UiRecs, Opt, RInv, RTypeOK
<1>3. RTypeOK' BY <1>1, <1>2 DEF RInv, RTypeOK
<1>4. QuitInv'
  <2> SUFFICES ASSUME ui'.pc = "drained", ui.a # 0
               PROVE  QuitInv'
    BY <1>1, <1>2 DEF QuitInv
  <2>1. ui.a \in Actions /\ <<ui.a, 1>> \in Handles /\ QuitInv BY Spaces DEF RInv, RTypeOK, UiRecs
  <2>2. CASE Async(ui.a) /\ (act[ui.a].kind = "batch" \/ ui.h = Nil)
    <3>1. act[ui.a].done BY <1>2, <2>1, <2>2 DEF QuitTargetDone, Async, AsyncKinds
    <3> QED BY <1>1, <1>2, <2>1, <2>2, <3>1 DEF QuitInv, Async
  <2>3. CASE act[ui.a].kind # "batch" /\ ui.h = <<ui.a, 1>> /\ Executed(ui.h)
    <3>1. ~Live(ui.h) BY <1>2, <2>1, <2>3, Spaces DEF QuitTargetDone
    <3>2. ~Live(ui.h)' BY <1>1, <1>2, <3>1 DEF Live, HeldBy
    <3>3. Executed(ui.h)' BY <1>1, <1>2, <2>3 DEF Executed, Told
    <3> QED BY <1>1, <1>2, <2>1, <2>3, <3>2, <3>3 DEF QuitInv
  <2> QED BY <1>2, <2>1, <2>2, <2>3 DEF QuitInv
<1> QED BY <1>1, <1>2, <1>3, <1>4, UiMoves DEF SyncPcs

-----------------------------------------
(* The launcher. *)

LEMMA RunRecordKeeps ==
    ASSUME NEW r \in RunRecs
    PROVE  /\ \A pc \in {"check", "hook", "fence", "load", "publish", "exec", "next"} : [r EXCEPT !.pc = pc] \in RunRecs
           /\ \A e \in Verdicts : [r EXCEPT !.pc = "publish", !.h = Nil, !.err = e] \in RunRecs
           /\ \A e \in Verdicts : [r EXCEPT !.pc = "return", !.err = e] \in RunRecs
           /\ \A h \in Handles : [r EXCEPT !.pc = "return", !.h = h] \in RunRecs
           /\ [r EXCEPT !.pc = "lock", !.calls = @ - 1] \in RunRecs
           /\ \A h \in Opt(Handles) : \A e \in Verdicts : [r EXCEPT !.pc = "ack", !.h = h, !.err = e] \in RunRecs
<1>1. \A pc \in {"check", "hook", "fence", "load", "publish", "exec", "next"} : [r EXCEPT !.pc = pc] \in RunRecs
  BY DEF RunRecs
<1>2. /\ \A e \in Verdicts : [r EXCEPT !.pc = "publish", !.h = Nil, !.err = e] \in RunRecs
      /\ \A e \in Verdicts : [r EXCEPT !.pc = "return", !.err = e] \in RunRecs
  BY Zenon DEF RunRecs, Opt
<1>3. \A h \in Handles : [r EXCEPT !.pc = "return", !.h = h] \in RunRecs BY DEF RunRecs, Opt
<1>4. ASSUME NEW b \in BoundTo, NEW n \in Int
      PROVE  [r EXCEPT !.pc = "lock", !.b = b, !.calls = n] \in RunRecs
  BY DEF RunRecs
<1>5. [r EXCEPT !.pc = "lock", !.calls = @ - 1] \in RunRecs
  <2>1. r.calls - 1 \in Int BY DEF RunRecs
  <2>2. [r EXCEPT !.pc = "lock", !.b = r.b, !.calls = r.calls - 1] \in RunRecs /\ r.b \in BoundTo
    BY <1>4, <2>1, Zenon DEF RunRecs
  <2>3. [r EXCEPT !.pc = "lock", !.calls = @ - 1] = [r EXCEPT !.pc = "lock", !.b = r.b, !.calls = r.calls - 1]
    BY DEF RunRecs
  <2> QED BY <2>2, <2>3
<1>6. \A h \in Opt(Handles) : \A e \in Verdicts : [r EXCEPT !.pc = "ack", !.h = h, !.err = e] \in RunRecs BY DEF RunRecs
<1> QED BY <1>1, <1>2, <1>3, <1>5, <1>6, Zenon

LEMMA RunLocks ==
    ASSUME NEW r \in RunRecs, NEW b \in BoundTo, NEW n \in Int
    PROVE  [r EXCEPT !.pc = "lock", !.b = b, !.calls = n] \in RunRecs
BY DEF RunRecs

LEMMA WaitCancelKeeps ==
    ASSUME RInv, WaitCancel
    PROVE  RInv'
<1>1. run.pc = "wait" /\ act[run.a].wire /\ run' = [run EXCEPT !.pc = "check"] /\ run \in RunRecs
  BY DEF WaitCancel, Goto, RInv, RTypeOK
<1>2. RTypeOK' BY <1>1, RunRecordKeeps, Zenon DEF WaitCancel, RInv, RTypeOK
<1>3. run'.a = run.a /\ run'.i = run.i /\ run'.h = run.h /\ run'.pc = "check" /\ run'.b = run.b BY <1>1 DEF RunRecs
<1>4. run.h = Nil /\ canc[Launcher] = Nil /\ \A a \in Actions : canc[NavWatch(a)] = Nil
  BY <1>1 DEF RInv, RunInv, CancelInv
<1> QED BY <1>1, <1>2, <1>3, <1>4, RunMoves DEF WaitCancel

LEMMA FenceKeeps ==
    ASSUME RInv, Fence
    PROVE  RInv'
<1>1. run.pc = "fence" /\ run \in RunRecs BY DEF Fence, RInv, RTypeOK
<1>2. \/ run' = [run EXCEPT !.pc = "publish", !.h = Nil, !.err = "canceled"]
      \/ run' = [run EXCEPT !.pc = "load"]
  BY DEF Fence, Goto, OpFailed
<1>3. RTypeOK' BY <1>1, <1>2, RunRecordKeeps, Zenon DEF Fence, RInv, RTypeOK, Verdicts
<1>4. run.h = Nil /\ canc[Launcher] = Nil /\ \A a \in Actions : canc[NavWatch(a)] = Nil
  BY <1>1 DEF RInv, RunInv, CancelInv
<1>5. run'.a = run.a /\ run'.i = run.i /\ run'.h = run.h /\ run'.pc \in {"load", "publish"} /\ run'.b = run.b
  BY <1>1, <1>2, <1>4 DEF RunRecs
<1> QED BY <1>1, <1>3, <1>4, <1>5, RunMoves DEF Fence

LEMMA LoadKeeps ==
    ASSUME RInv, Load
    PROVE  RInv'
<1> DEFINE b == IF BoundKind(run.a) THEN act[run.a].binding ELSE binding
<1>1. run.pc = "load" /\ run \in RunRecs /\ run.a \in Actions BY Zenon DEF Load, RInv, RTypeOK, RunInv
<1>2. b \in BoundTo BY <1>1 DEF RInv, RTypeOK, ActRecs
<1>3. \/ run' = [run EXCEPT !.pc = "publish", !.h = Nil, !.err = "nosession"]
      \/ /\ b # NoSess
         /\ \E n \in {1, 3} : run' = [run EXCEPT !.pc = "lock", !.b = b, !.calls = n]
  BY Zenon DEF Load, OpFailed, CallsOf
<1>4. RTypeOK'
  <2>1. run' \in RunRecs
    <3> HIDE DEF b
    <3>1. CASE run' = [run EXCEPT !.pc = "publish", !.h = Nil, !.err = "nosession"]
      BY <1>1, <3>1, RunRecordKeeps, Zenon DEF Verdicts
    <3>2. ASSUME NEW n \in {1, 3}, run' = [run EXCEPT !.pc = "lock", !.b = b, !.calls = n]
          PROVE  run' \in RunRecs
      <4>1. n \in Int OBVIOUS
      <4> QED BY <1>1, <1>2, <3>2, <4>1, RunLocks, Zenon
    <3> QED BY <1>3, <3>1, <3>2
  <2> QED BY <2>1, Zenon DEF Load, RInv, RTypeOK
<1>5. run.h = Nil /\ canc[Launcher] = Nil /\ \A a \in Actions : canc[NavWatch(a)] = Nil
  BY <1>1 DEF RInv, RunInv, CancelInv
<1>6. run'.a = run.a /\ run'.i = run.i /\ run'.h = run.h /\ run'.pc \in {"lock", "publish"}
      /\ (run'.pc = "lock" => run'.b \in Sessions)
  BY <1>1, <1>2, <1>3, <1>5, Zenon DEF RunRecs, BoundTo
<1> QED BY <1>1, <1>4, <1>5, <1>6, RunMoves, Zenon DEF Load

LEMMA OpReturnsKeeps ==
    ASSUME RInv, OpReturns
    PROVE  RInv'
<1>1. run.pc = "return" /\ run' = [run EXCEPT !.pc = "publish"] /\ run \in RunRecs BY DEF OpReturns, Goto, RInv, RTypeOK
<1>2. RTypeOK' BY <1>1, RunRecordKeeps, Zenon DEF OpReturns, RInv, RTypeOK
<1>3. run'.a = run.a /\ run'.i = run.i /\ run'.h = run.h /\ run'.pc = "publish" /\ run'.b = run.b BY <1>1 DEF RunRecs
<1>4. canc[Launcher] = Nil /\ \A a \in Actions : canc[NavWatch(a)] = Nil BY <1>1 DEF OpReturns, RInv, CancelInv, Running
<1> QED BY <1>1, <1>2, <1>3, <1>4, RunMoves DEF OpReturns

\* An operation that is refused comes back without rows.
LEMMA RefusedKeeps ==
    ASSUME RInv, Lock, sess' = sess
    PROVE  RInv'
<1>1. run.pc = "lock" /\ run \in RunRecs /\ run.a \in Actions /\ run.b \in Sessions /\ run.h = Nil
  BY DEF Lock, RInv, RTypeOK, RunInv
<1>2. ASSUME sess[run.b].st = "free",
             sess' = [sess EXCEPT ![run.b].h = <<run.a, run.i>>, ![run.b].st =
                        IF act[run.a].kind = "explain" THEN "explain" ELSE "exec"]
      PROVE  FALSE
  <2>1. sess[run.b] \in SessRecs BY <1>1 DEF RInv, RTypeOK
  <2>2. sess'[run.b].st \in {"explain", "exec"} BY <1>1, <1>2, <2>1 DEF SessRecs, RInv, RTypeOK
  <2> QED BY <1>2, <2>2
<1>3. run' = [run EXCEPT !.pc = "return", !.err = "refused"] BY <1>2 DEF Lock
<1>4. RTypeOK' BY <1>1, <1>3, RunRecordKeeps, Zenon DEF Lock, RInv, RTypeOK, Verdicts
<1>5. canc[Launcher] = Nil BY <1>1 DEF RInv, CancelInv
<1>6. run'.a = run.a /\ run'.i = run.i /\ run'.h = run.h /\ run'.pc = "return" /\ run'.b = run.b
  BY <1>1, <1>3 DEF RunRecs
<1> QED BY <1>1, <1>4, <1>5, <1>6, RunMoves DEF Lock

\* What is left in the queue after the first.
LEMMA QueueHead ==
    ASSUME RTypeOK, PlaceInv, queue # <<>>, queue' = Tail(queue)
    PROVE  /\ Head(queue) \in Actions /\ Queued(Head(queue))
           /\ queue' \in Seq(Actions)
           /\ \A a \in Actions : Queued(a)' <=> Queued(a) /\ a # Head(queue)
           /\ \A a \in Actions : Queued(a) => Head(queue) <= a
           /\ \A j, k \in DOMAIN queue' : j < k => queue'[j] < queue'[k]
<1>1. /\ queue \in Seq(Actions) /\ Len(queue) \in Nat \ {0} /\ DOMAIN queue = 1..Len(queue)
      /\ Head(queue) = queue[1] /\ Head(queue) \in Actions
  BY EmptySeq, HeadTailProperties DEF RTypeOK
<1>2. /\ queue' \in Seq(Actions) /\ Len(queue') = Len(queue) - 1
      /\ DOMAIN queue' = 1..(Len(queue) - 1)
      /\ \A j \in DOMAIN queue' : queue'[j] = queue[j + 1]
  BY <1>1, HeadTailProperties DEF RTypeOK
<1>3. \A j, k \in DOMAIN queue' : j < k => queue'[j] < queue'[k] BY <1>1, <1>2 DEF PlaceInv
<1>4. \A j \in DOMAIN queue : j # 1 => queue[1] < queue[j] BY <1>1 DEF PlaceInv
<1>5. \A j \in DOMAIN queue : j # 1 => j - 1 \in DOMAIN queue' /\ queue'[j - 1] = queue[j] BY <1>1, <1>2
<1>6. \A j \in DOMAIN queue : queue[j] \in Actions BY <1>1
<1>7. \A a \in Actions : Queued(a) => Head(queue) <= a BY <1>1, <1>4, Spaces DEF Queued
<1>8. ASSUME NEW a \in Actions PROVE Queued(a)' <=> Queued(a) /\ a # Head(queue)
  <2>1. ASSUME Queued(a)' PROVE Queued(a) /\ a # Head(queue)
    <3>1. PICK j \in DOMAIN queue' : queue'[j] = a BY <2>1 DEF Queued
    <3>2. j + 1 \in DOMAIN queue /\ queue[j + 1] = a /\ j + 1 # 1 BY <1>1, <1>2, <3>1
    <3> QED BY <1>1, <1>4, <3>2, Spaces DEF Queued
  <2>2. ASSUME Queued(a), a # Head(queue) PROVE Queued(a)'
    <3>1. PICK j \in DOMAIN queue : queue[j] = a BY <2>2 DEF Queued
    <3>2. j # 1 BY <1>1, <2>2, <3>1
    <3> QED BY <1>5, <3>1, <3>2 DEF Queued
  <2> QED BY <2>1, <2>2
<1> QED BY <1>1, <1>2, <1>3, <1>7, <1>8 DEF Queued

LEMMA PopKeeps ==
    ASSUME RInv, Pop
    PROVE  RInv'
<1>1. /\ run.pc = "idle" /\ queue # <<>> /\ queue' = Tail(queue) /\ RTypeOK /\ PlaceInv
      /\ UNCHANGED <<binding, generation, last, act, launching, sess, enq, canc, tabs,
                     signal, ui, retirer, stray>>
  BY DEF Pop, RInv
<1> PICK a \in Actions : a = Head(queue) BY <1>1, QueueHead
<1>2. run' = [pc |-> "wait", a |-> a, i |-> 1, b |-> NoSess, h |-> Nil, calls |-> 1, err |-> "ok"] BY DEF Pop, IdleRun
<1>3. /\ Queued(a) /\ queue' \in Seq(Actions)
      /\ \A c \in Actions : Queued(c)' <=> Queued(c) /\ c # a
      /\ \A c \in Actions : Queued(c) => a <= c
      /\ \A j, k \in DOMAIN queue' : j < k => queue'[j] < queue'[k]
  BY <1>1, QueueHead
<1>4. run' \in RunRecs BY <1>2, <1>3, Spaces DEF RunRecs, BoundTo, NoSess, Opt, Verdicts
<1>5. RTypeOK' BY <1>1, <1>3, <1>4 DEF RTypeOK
<1>6. CoreSame /\ SessShrinks BY <1>1 DEF CoreSame, SessShrinks
<1>7. ActsInv' /\ NoStrayCancel' /\ SignalInv' /\ AckInv' /\ UiInv'
  BY <1>1, <1>6, CoreFacts, StrayFrame, SignalFrame, AckFrame, UiFrame DEF RInv
<1>8. Async(a) /\ Fresh(a) /\ ~Enqueuing(a) BY <1>3 DEF RInv, PlaceInv
<1>9. PlaceInv'
  <2>1. \A c \in Actions : Running(c)' <=> c = a BY <1>2 DEF Running
  <2>2. \A c \in Actions : Finished(c)' = Finished(c) /\ Async(c)' = Async(c)
                           /\ Fresh(c)' = Fresh(c) /\ Enqueuing(c)' = Enqueuing(c) /\ ~Running(c)
    BY <1>1 DEF Finished, Async, Fresh, Told, Enqueuing, Running
  <2>3. ASSUME NEW c \in Actions, Async(c), c < a PROVE Finished(c)
    <3>1. ~Queued(c) BY <1>3, <2>3, Spaces
    <3>2. ~Enqueuing(c) BY <1>3, <1>8, <2>3, Spaces DEF RInv, UiInv, ActsInv, Enqueuing, Async, AsyncKinds
    <3> QED BY <2>2, <2>3, <3>1, <3>2 DEF RInv, PlaceInv
  <2>4. \A c \in Actions : Async(c)' => Finished(c)' \/ Queued(c)' \/ Running(c)' \/ Enqueuing(c)'
    BY <1>1, <1>3, <2>1, <2>2 DEF PlaceInv
  <2>5. \A c \in Actions : Queued(c)' \/ Enqueuing(c)' => Async(c)' /\ Fresh(c)' /\ ~Running(c)'
    BY <1>1, <1>3, <1>8, <2>1, <2>2 DEF PlaceInv
  <2>6. \A c \in Actions : (Queued(c)' => ~Enqueuing(c)') /\ (~Async(c)' => Fresh(c)' /\ ~act'[c].wire)
    BY <1>1, <1>3, <2>2 DEF PlaceInv
  <2>7. \A d, c \in Actions :
          Async(d)' /\ Async(c)' /\ c < d /\ (Running(d)' \/ Finished(d)') => Finished(c)'
    BY <1>1, <2>1, <2>2, <2>3 DEF PlaceInv
  <2> QED BY <1>3, <2>4, <2>5, <2>6, <2>7 DEF PlaceInv
<1>10. RunInv'
  <2>1. Async(a) /\ ~Finished(a) /\ \A j \in 1..2 : Told(a, j) = 0
    <3>1. \A j \in 1..2 : j = 1 \/ j = 2 OBVIOUS
    <3> QED BY <1>8, <3>1 DEF Fresh
  <2>2. run'.a = a /\ run'.i = 1 /\ run'.pc = "wait" /\ run'.h = Nil BY <1>2
  <2>3. \A j \in 1..2 : Told(a, j)' = (IF j < 1 \/ (j = 1 /\ "wait" = "next") THEN 1 ELSE 0) BY <1>1, <2>1 DEF Told
  <2>4. Async(a)' /\ ~Finished(a)' /\ 1 \in Stmts(act'[a].kind) BY <1>1, <2>1, Spaces DEF Async, Finished
  <2> QED BY <1>3, <2>2, <2>3, <2>4 DEF RunInv, Async, Finished, Told
<1>11. \A h \in Handles : Executed(h) => Executed(h)' BY <1>1, <1>2 DEF Executed, Told
<1>12. LastInv' /\ QuitInv' BY <1>1, <1>6, <1>11, LastFrame, QuitFrame DEF RInv
<1>13. HoldInv' BY <1>1, <1>2 DEF RInv, HoldInv, Claimed, Running, Finished
<1>14. CancelInv' BY <1>1, <1>2 DEF RInv, CancelInv, Running, Async
<1> QED BY <1>5, <1>7, <1>9, <1>10, <1>12, <1>13, <1>14 DEF RInv

LEMMA ExitKeeps ==
    ASSUME RInv, LauncherExits
    PROVE  RInv'
<1>1. RTypeOK' BY DEF LauncherExits, RInv, RTypeOK
<1> QED BY <1>1, CoreKeeps DEF LauncherExits, CoreSame

\* The statement goes to the chokepoint; an unbound one cancels the last run.
LEMMA ToHook ==
    ASSUME RInv, Check, run'.pc = "hook"
    PROVE  RInv'
<1>1. run.pc = "check" /\ run \in RunRecs /\ run.a \in Actions /\ run.h = Nil
      /\ \A a \in Actions : canc[NavWatch(a)] = Nil
  BY DEF Check, RInv, RTypeOK, RunInv, CancelInv
<1>2. canc[Launcher] = Nil BY <1>1 DEF RInv, CancelInv
<1>3. /\ run' = [run EXCEPT !.pc = "hook"]
      /\ \/ canc' = canc
         \/ /\ last # Nil /\ last.h # Nil
            /\ canc' = [canc EXCEPT ![Launcher] = CancelHandle(last.h, run.a)]
      /\ UNCHANGED <<binding, generation, last, act, queue, launching, sess, enq, tabs,
                     signal, ui, retirer, events, stray>>
  BY DEF Check, Goto, IdleRun
<1>4. run' \in RunRecs /\ run'.a = run.a /\ run'.i = run.i /\ run'.h = run.h
  <2>1. run' \in RunRecs BY <1>1, <1>3, RunRecordKeeps, Zenon
  <2> QED BY <1>1, <1>3, <2>1 DEF RunRecs
<1>5. last # Nil /\ last.h # Nil => CancelHandle(last.h, run.a) \in Cancels
  <2>1. last # Nil /\ last.h # Nil => last.h \in Handles BY RootTypes DEF RInv, RTypeOK, Opt
  <2> QED BY <1>1, <2>1, Reaches, CancelTypes
<1>6. canc' \in [Threads -> Opt(Cancels)] BY <1>3, <1>5 DEF RInv, RTypeOK, Opt
<1>7. /\ \A t \in Threads \ {Launcher} : canc'[t] = canc[t]
      /\ canc'[Launcher] = Nil \/ canc'[Launcher] = CancelHandle(last.h, run.a)
  BY <1>2, <1>3, ThreadFacts DEF RInv, RTypeOK
<1>8. RTypeOK' BY <1>3, <1>4, <1>6 DEF RInv, RTypeOK
<1>9. \A a \in Actions : /\ canc'[Disposer(a)] = canc[Disposer(a)]
                         /\ canc'[WireCancel(a)] = canc[WireCancel(a)]
                         /\ canc'[NavWatch(a)] = Nil
  BY <1>1, <1>7, ThreadFacts
<1>10. /\ canc'[UI] = canc[UI] /\ canc'[Retirer] = canc[Retirer]
       /\ canc'[Launcher] # Nil => canc'[Launcher].st = "check" /\ canc'[Launcher].upto = run.a
  BY <1>7, ThreadFacts DEF CancelHandle
<1>11. CancelInv'
  <2>1. ASSUME NEW t \in Threads, canc'[t] # Nil
        PROVE  /\ canc'[t].st = "hit" => canc'[t].b \in Sessions
               /\ t \notin {UI, Retirer} => canc'[t].st \in {"check", "hit"}
               /\ canc'[t].st \in {"cas", "abandon"} => canc'[t].root # Nil
    BY <1>7, <1>10, <2>1 DEF RInv, CancelInv
  <2> QED BY <1>3, <1>4, <1>9, <1>10, <2>1 DEF RInv, CancelInv, Async
<1> QED BY <1>1, <1>3, <1>4, <1>8, <1>9, <1>11, RunGoes


\* Answering a statement.
LEMMA AnswerFacts ==
    ASSUME NEW r \in ActRecs, NEW i \in 1..2, NEW v \in Verdicts
    PROVE  /\ [r EXCEPT !.acks[i] = Append(@, v)] \in ActRecs
           /\ [r EXCEPT !.acks[i] = Append(@, v), !.draining = TRUE] \in ActRecs
           /\ [r EXCEPT !.acks[i] = Append(@, v), !.result = "unadopted"] \in ActRecs
           /\ [r EXCEPT !.acks[i] = Append(@, v), !.result = "disposed"] \in ActRecs
<1>1. r.acks \in [1..2 -> Seq(Verdicts)] /\ Append(r.acks[i], v) \in Seq(Verdicts) BY DEF ActRecs
<1>2. [r.acks EXCEPT ![i] = Append(r.acks[i], v)] \in [1..2 -> Seq(Verdicts)] BY <1>1
<1> QED BY <1>2 DEF ActRecs

\* The launcher gives one answer: what follows for the other parts of the state.
LEMMA Answering ==
    ASSUME RInv, NEW a \in Actions, run.a = a, run.pc # "idle",
           \A c \in Actions \ {a} : act'[c] = act[c], RoleSame,
           \A j \in 1..2 : Told(a, j)' = Told(a, j) \/ Told(a, j)' = 1
    PROVE  /\ ActsInv' /\ Async(a) /\ ~Finished(a) /\ run.i \in Stmts(act[a].kind)
           /\ \A c \in Actions : Async(c)' = Async(c)
           /\ \A c \in Actions \ {a} : Finished(c)' = Finished(c) /\ Fresh(c)' = Fresh(c)
           /\ \A c \in Actions : \A j \in 1..2 : Told(c, j) # 0 => Told(c, j)' # 0
<1>1. Async(a) /\ ~Finished(a) /\ run.i \in Stmts(act[a].kind) BY DEF RInv, RunInv
<1>2. \A c \in Actions : act'[c].kind = act[c].kind BY DEF RoleSame
<1>3. ActsInv' BY <1>2, NextSame DEF RInv
<1>4. \A c \in Actions \ {a} : Finished(c)' = Finished(c) /\ Fresh(c)' = Fresh(c) BY DEF Finished, Fresh, Told
<1>5. \A c \in Actions : \A j \in 1..2 : Told(c, j) # 0 => Told(c, j)' # 0
  <2> SUFFICES ASSUME NEW c \in Actions, NEW j \in 1..2, Told(c, j) # 0
               PROVE  Told(c, j)' # 0
    OBVIOUS
  <2>1. CASE c = a BY <2>1
  <2>2. CASE c # a BY <2>2 DEF Told
  <2> QED BY <2>1, <2>2
<1> QED BY <1>1, <1>2, <1>3, <1>4, <1>5 DEF Async

\* The launcher is done with its action.
LEMMA PlaceEnds ==
    ASSUME RInv, NEW a \in Actions, run.a = a, run.pc # "idle", run'.pc = "idle",
           RoleSame, \A c \in Actions \ {a} : Finished(c)' = Finished(c) /\ Fresh(c)' = Fresh(c),
           Finished(a)', UNCHANGED <<queue, enq>>
    PROVE  PlaceInv'
<1>1. \A c \in Actions : /\ Queued(c)' = Queued(c) /\ Enqueuing(c)' = Enqueuing(c)
                         /\ Running(c)' = FALSE /\ (Running(c) <=> c = a)
                         /\ Async(c)' = Async(c) /\ act'[c].wire = act[c].wire
  BY DEF Queued, Enqueuing, Running, Async, RoleSame
<1>2. Async(a) /\ ~Queued(a) /\ ~Enqueuing(a) BY <1>1 DEF RInv, RunInv, PlaceInv
<1>3. \A c \in Actions : c # a => Finished(c)' = Finished(c) /\ Fresh(c)' = Fresh(c) OBVIOUS
<1>4. \A c \in Actions : Async(c)' => Finished(c)' \/ Queued(c)' \/ Running(c)' \/ Enqueuing(c)'
  BY <1>1, <1>3 DEF RInv, PlaceInv
<1>5. \A c \in Actions : Queued(c)' \/ Enqueuing(c)' => Async(c)' /\ Fresh(c)' /\ ~Running(c)'
  BY <1>1, <1>2, <1>3 DEF RInv, PlaceInv
<1>6. \A c \in Actions : (Queued(c)' => ~Enqueuing(c)') /\ (~Async(c)' => Fresh(c)' /\ ~act'[c].wire)
  BY <1>1, <1>2, <1>3 DEF RInv, PlaceInv
<1>7. \A d, c \in Actions :
        Async(d)' /\ Async(c)' /\ c < d /\ (Running(d)' \/ Finished(d)') => Finished(c)'
  BY <1>1, <1>3 DEF RInv, PlaceInv
<1>8. \A j, k \in DOMAIN queue' : j < k => queue'[j] < queue'[k] BY DEF RInv, PlaceInv
<1> QED BY <1>4, <1>5, <1>6, <1>7, <1>8 DEF PlaceInv

\* A bound request that is no longer current.
LEMMA StaleKeeps ==
    ASSUME RInv, Check, run'.pc # "hook"
    PROVE  RInv'
<1> PICK a \in Actions : a = run.a BY DEF RInv, RunInv, Check
<1>1. /\ run.pc = "check" /\ act[a].kind = "bound" /\ run.i = 1 /\ run.h = Nil
      /\ act[a] \in ActRecs /\ act \in [Actions -> ActRecs]
      /\ \A c \in Actions : canc[NavWatch(c)] = Nil
      /\ canc[Launcher] = Nil
  BY DEF Check, Goto, RInv, RTypeOK, RunInv, CancelInv, Stmts, BoundKind, RunRecs
<1>2. /\ act' = [act EXCEPT ![a] = [act[a] EXCEPT !.acks[1] = Append(@, "canceled"), !.draining = TRUE]]
      /\ run' = IdleRun
      /\ UNCHANGED <<binding, generation, last, queue, launching, sess, enq, canc, tabs,
                     signal, ui, retirer, events, stray>>
  BY <1>1 DEF Check, Goto, RInv, RTypeOK, RunRecs
<1>3. act' \in [Actions -> ActRecs]
  <2>1. [act[a] EXCEPT !.acks[1] = Append(@, "canceled"), !.draining = TRUE] \in ActRecs
    <3>1. 1 \in 1..2 /\ "canceled" \in Verdicts BY DEF Verdicts
    <3> HIDE DEF Verdicts
    <3>2. act[a].acks \in [1..2 -> Seq(Verdicts)] /\ Append(act[a].acks[1], "canceled") \in Seq(Verdicts)
      BY <1>1, <3>1 DEF ActRecs
    <3>3. [act[a].acks EXCEPT ![1] = Append(act[a].acks[1], "canceled")] \in [1..2 -> Seq(Verdicts)] BY <3>1, <3>2
    <3> QED BY <1>1, <3>3 DEF ActRecs
  <2> QED BY <1>1, <1>2, <2>1
<1>4. RoleSame /\ act'[a].result = act[a].result /\ act'[a].draining = TRUE
      /\ \A c \in Actions \ {a} : act'[c] = act[c]
  BY <1>1, <1>2 DEF RoleSame, ActRecs
<1>5. \A j \in 1..2 : Told(a, j)' = IF j = 1 THEN 1 ELSE Told(a, j)
  <2>1. Told(a, 1) = 0 BY <1>1, Spaces DEF RInv, RunInv
  <2>2. Len(Append(act[a].acks[1], "canceled")) = 1 BY <2>1, ToldType DEF RInv, Verdicts
  <2>3. act'[a].acks = [act[a].acks EXCEPT ![1] = Append(act[a].acks[1], "canceled")] BY <1>1, <1>2 DEF ActRecs
  <2>4. act[a].acks \in [1..2 -> Seq(Verdicts)] BY <1>1 DEF ActRecs
  <2> QED BY <2>2, <2>3, <2>4 DEF Told
<1>6. RTypeOK' BY <1>2, <1>3, Spaces DEF RInv, RTypeOK, IdleRun, RunRecs, BoundTo, NoSess, Opt, Verdicts
<1>7. /\ ActsInv' /\ Async(a)
      /\ \A c \in Actions : Async(c)' = Async(c)
      /\ \A c \in Actions \ {a} : Finished(c)' = Finished(c) /\ Fresh(c)' = Fresh(c)
      /\ \A c \in Actions : \A j \in 1..2 : Told(c, j) # 0 => Told(c, j)' # 0
  BY <1>1, <1>4, <1>5, Answering
<1>8. Finished(a)' /\ run'.pc = "idle" /\ run'.h = Nil BY <1>2, <1>4 DEF Finished, IdleRun
<1>9. PlaceInv' /\ UiInv' BY <1>1, <1>2, <1>4, <1>7, <1>8, PlaceEnds, UiRole DEF RInv
<1>10. RunInv' BY <1>8 DEF RunInv
<1>11. AckInv'
  <2>1. ASSUME NEW c \in Actions, Finished(c)'
        PROVE  act'[c].wire /\ \A i \in Stmts(act'[c].kind) : Told(c, i)' = 1
    <3>1. CASE c = a BY <1>1, <1>4, <1>5, <3>1 DEF RInv, RunInv, RoleSame, Stmts
    <3>2. CASE c # a BY <1>4, <1>7, <2>1, <3>2 DEF RInv, AckInv, Told
    <3> QED BY <3>1, <3>2
  <2>2. \A c \in Actions : act'[c].kind = act[c].kind /\ act'[c].result = act[c].result BY <1>4 DEF RoleSame
  <2>3. /\ \A k \in tabs.acked : k[1] \in Actions /\ k[2] \in 1..2
        /\ \A h \in tabs.open : h[1] \in Actions /\ h[2] \in 1..2
    BY Spaces DEF RInv, RTypeOK
  <2> QED BY <1>2, <1>7, <2>1, <2>2, <2>3, Spaces DEF RInv, AckInv
<1>12. \A h \in Handles : Executed(h) => Executed(h)' BY <1>1, <1>2, <1>4, <1>7, Spaces DEF Executed, RoleSame
<1>13. SessShrinks BY <1>2 DEF SessShrinks
<1>14. LastInv' /\ QuitInv' BY <1>2, <1>4, <1>12, <1>13, LastRole, QuitRole DEF RInv
<1>15. NoStrayCancel' BY <1>2, <1>4 DEF RInv, RTypeOK, NoStrayCancel, RoleSame
<1>16. SignalInv'
  <2>1. \A c \in Actions : act'[c].kind = act[c].kind BY <1>4 DEF RoleSame
  <2>2. \A c \in Actions : act[c].kind \in {"run", "batch"} => UnsettledStmts(c)' = UnsettledStmts(c)
    BY <1>1, <1>2, <1>4 DEF UnsettledStmts
  <2>3. signal # 0 => signal \in Actions BY DEF RInv, RTypeOK
  <2> QED BY <1>2, <2>1, <2>2, <2>3 DEF RInv, SignalInv, SignalIsNewestRun
<1>17. HoldInv'
  <2> SUFFICES ASSUME NEW b \in Sessions
               PROVE  HoldInv!(b)'
    BY DEF HoldInv
  <2>1. HoldInv!(b) BY DEF RInv, HoldInv
  <2>2. \A c \in Actions : /\ act'[c].kind = act[c].kind /\ act'[c].done = act[c].done
                           /\ act'[c].result = act[c].result
                           /\ Running(c) \/ Finished(c) => Running(c)' \/ Finished(c)'
    BY <1>4, <1>7, <1>8 DEF RoleSame, Running
  <2>3. sess[b].h # Nil => sess[b].h \in Handles /\ sess[b].h[1] \in Actions BY Spaces DEF RInv, RTypeOK, SessRecs, Opt
  <2>4. ASSUME sess[b].h # Nil, Claimed(sess[b].h) PROVE Claimed(sess[b].h)' BY <1>1, <1>2, <2>2, <2>3, <2>4 DEF Claimed
  <2>5. sess[b].st = "live" => sess[b].h # Nil BY <2>1, Spaces
  <2> QED BY <1>1, <1>2, <2>1, <2>2, <2>3, <2>4, <2>5
<1>18. CancelInv' BY <1>1, <1>2, <1>4, <1>7 DEF RInv, CancelInv, RoleSame
<1> QED BY <1>6, <1>7, <1>9, <1>10, <1>11, <1>14, <1>15, <1>16, <1>17, <1>18 DEF RInv

LEMMA CheckKeeps == RInv /\ Check => RInv'
BY ToHook, StaleKeeps

\* Every stream that is read belongs to an action that the launcher has reached.
LEMMA StreamReached ==
    ASSUME RInv, NEW b \in Sessions, sess[b].st = "live"
    PROVE  LET c == sess[b].h[1]
           IN /\ c \in Actions /\ act[c].kind # "none"
              /\ act[c].kind # "sync" => Async(c) /\ (Running(c) \/ Finished(c))
              /\ act[c].kind # "sync" /\ run.pc # "idle" => c <= run.a
<1>1. /\ sess[b].h \in Handles /\ sess[b].h[1] \in Actions /\ sess[b].h # Nil BY Spaces DEF RInv, HoldInv
<1> PICK c \in Actions : c = sess[b].h[1] BY <1>1
<1>2. act[c].kind # "none" /\ (act[c].kind # "sync" => Running(c) \/ Finished(c)) BY <1>1 DEF RInv, HoldInv
<1>3. act[c].kind # "sync" => Async(c) BY <1>2 DEF Async, AsyncKinds, RInv, RTypeOK, ActRecs
<1>4. ASSUME act[c].kind # "sync", run.pc # "idle" PROVE c <= run.a
  <2>1. run.a \in Actions /\ Async(run.a) /\ ~Finished(run.a) BY <1>4 DEF RInv, RunInv
  <2>2. CASE Running(c) BY <2>1, <2>2, Spaces DEF Running
  <2>3. CASE Finished(c) BY <1>3, <1>4, <2>1, <2>3, Spaces DEF RInv, PlaceInv
  <2> QED BY <1>2, <1>4, <2>2, <2>3
<1> QED BY <1>1, <1>2, <1>3, <1>4

\* The chokepoint: streams end, or a session is fenced.
LEMMA PreemptFacts ==
    ASSUME RInv, NEW a, NEW b, PreemptHook(a, b),
           \A d \in Streaming : sess[d].h[1] > a => act[sess[d].h[1]].kind = "sync"
    PROVE  /\ SessShrinks /\ sess' \in [Sessions -> SessRecs]
           /\ \A d \in Sessions : sess'[d].st # sess[d].st => d \in Streaming
           /\ stray' \in SUBSET Actions /\ \A c \in stray' : act[c].kind = "sync"
<1>1. sess \in [Sessions -> SessRecs] /\ stray \in SUBSET Actions /\ \A c \in stray : act[c].kind = "sync"
  BY DEF RInv, RTypeOK, NoStrayCancel
<1>2. CASE /\ sess' = [c \in Sessions |-> IF c \in Streaming THEN FreedSess(sess[c]) ELSE sess[c]]
           /\ stray' = stray \cup {sess[c].h[1] : c \in {d \in Streaming : sess[d].h[1] > a}}
  <2>1. \A d \in Sessions : FreedSess(sess[d]) \in SessRecs /\ FreedSess(sess[d]).st = "free" /\ FreedSess(sess[d]).h = Nil
    BY <1>1, FreedType
  <2>2. \A d \in Sessions : sess'[d] = IF d \in Streaming THEN FreedSess(sess[d]) ELSE sess[d] BY <1>2
  <2>3. \A d \in Streaming : d \in Sessions /\ sess[d].st = "live" /\ sess[d].h[1] \in Actions
    BY StreamReached DEF Streaming
  <2>4. \A d \in Sessions : sess'[d] \in SessRecs BY <1>1, <2>1, <2>2
  <2>5. sess' \in [Sessions -> SessRecs] BY <1>2, <2>4
  <2>6. SessShrinks BY <2>1, <2>2, <2>3 DEF SessShrinks
  <2> QED BY <1>1, <1>2, <2>2, <2>3, <2>5, <2>6
<1>3. CASE /\ sess' = IF b \in Streaming THEN [sess EXCEPT ![b].fence = TRUE] ELSE sess
           /\ UNCHANGED stray
  <2>1. sess' \in [Sessions -> SessRecs] BY <1>1, <1>3 DEF SessRecs, Streaming
  <2>2. \A d \in Sessions : sess'[d].st = sess[d].st /\ sess'[d].h = sess[d].h BY <1>1, <1>3 DEF SessRecs
  <2> QED BY <1>1, <1>3, <2>1, <2>2 DEF SessShrinks
<1> QED BY <1>2, <1>3 DEF PreemptHook

\* A chokepoint passed by the launcher, by the synchronous run, or by quit.
LEMMA PreemptKeeps ==
    ASSUME RInv, SessShrinks, \A d \in Sessions : sess'[d].st # sess[d].st => d \in Streaming,
           RunStays, run.pc = "exec" => UNCHANGED run, ui.pc = "syncExec" => UNCHANGED ui,
           run'.h = run.h, run'.pc \in {"return", "publish", "ack"} <=> run.pc \in {"return", "publish", "ack"},
           UNCHANGED <<act, queue, enq, tabs, signal>>,
           \A a \in Actions : canc'[Disposer(a)] = canc[Disposer(a)]
    PROVE  CoreSame /\ ActsInv' /\ PlaceInv' /\ SignalInv' /\ AckInv' /\ HoldInv'
           /\ \A a \in Actions : canc[Disposer(a)] # Nil /\ canc[Disposer(a)].st = "hit" =>
                /\ sess'[canc[Disposer(a)].b].st = sess[canc[Disposer(a)].b].st
                /\ sess'[canc[Disposer(a)].b].h = sess[canc[Disposer(a)].b].h
<1>1. CoreSame BY DEF CoreSame
<1>2. ActsInv' /\ PlaceInv' /\ SignalInv' /\ AckInv' BY <1>1, CoreFacts, PlaceFrame, SignalFrame, AckFrame DEF RInv
<1>3. \A h \in Handles : Claimed(h) => Claimed(h)' BY Spaces DEF Claimed
<1>4. HoldInv' BY <1>1, <1>3, HoldFrame DEF RInv
<1>5. ASSUME NEW a \in Actions, canc[Disposer(a)] # Nil, canc[Disposer(a)].st = "hit"
      PROVE  /\ sess'[canc[Disposer(a)].b].st = sess[canc[Disposer(a)].b].st
             /\ sess'[canc[Disposer(a)].b].h = sess[canc[Disposer(a)].b].h
  <2>1. canc[Disposer(a)].b \in Sessions /\ sess[canc[Disposer(a)].b].h = <<a, 1>>
    BY <1>5, ThreadFacts DEF RInv, CancelInv
  <2>2. <<a, 1>> \notin tabs.open BY <1>5, DisposerSafe DEF RInv
  <2>3. canc[Disposer(a)].b \notin Streaming BY <2>1, <2>2 DEF Streaming
  <2>4. sess[canc[Disposer(a)].b].st = "live" BY <1>5 DEF RInv, CancelInv
  <2> QED BY <2>1, <2>3, <2>4, Spaces DEF SessShrinks
<1> QED BY <1>1, <1>2, <1>4, <1>5

LEMMA HookKeeps ==
    ASSUME RInv, Hook
    PROVE  RInv'
<1> DEFINE b == IF BoundKind(run.a) THEN act[run.a].binding ELSE binding
<1>1. /\ run.pc = "hook" /\ canc[Launcher] = Nil /\ run \in RunRecs
      /\ PreemptHook(run.a, b) /\ run' = [run EXCEPT !.pc = "fence"]
      /\ UNCHANGED <<binding, generation, last, act, queue, launching, enq, canc, tabs,
                     signal, ui, retirer>>
  BY DEF Hook, Goto, RInv, RTypeOK
<1> HIDE DEF b
<1>2. \A d \in Streaming : sess[d].h[1] > run.a => act[sess[d].h[1]].kind = "sync"
  <2> SUFFICES ASSUME NEW d \in Streaming, sess[d].h[1] > run.a, act[sess[d].h[1]].kind # "sync"
               PROVE  FALSE
    OBVIOUS
  <2>1. d \in Sessions /\ sess[d].st = "live" /\ run.a \in Actions BY <1>1 DEF Streaming, RInv, RunInv
  <2>2. sess[d].h[1] \in Actions /\ sess[d].h[1] <= run.a BY <1>1, <2>1, StreamReached
  <2> QED BY <2>1, <2>2, Spaces
<1>3. /\ SessShrinks /\ sess' \in [Sessions -> SessRecs]
      /\ \A d \in Sessions : sess'[d].st # sess[d].st => d \in Streaming
      /\ stray' \in SUBSET Actions /\ \A c \in stray' : act[c].kind = "sync"
  BY <1>1, <1>2, PreemptFacts
<1>4. run' \in RunRecs BY <1>1, RunRecordKeeps, Zenon
<1>5. run'.a = run.a /\ run'.i = run.i /\ run'.h = run.h /\ run'.pc = "fence" /\ RunStays BY <1>1 DEF RunRecs, RunStays
<1>6. RTypeOK' BY <1>1, <1>3, <1>4 DEF RInv, RTypeOK
<1>7. /\ CoreSame /\ ActsInv' /\ PlaceInv' /\ SignalInv' /\ AckInv' /\ HoldInv'
      /\ \A a \in Actions : canc[Disposer(a)] # Nil /\ canc[Disposer(a)].st = "hit" =>
                /\ sess'[canc[Disposer(a)].b].st = sess[canc[Disposer(a)].b].st
                /\ sess'[canc[Disposer(a)].b].h = sess[canc[Disposer(a)].b].h
  BY <1>1, <1>3, <1>5, PreemptKeeps
<1>8. UiInv' /\ NoStrayCancel' BY <1>1, <1>3, <1>7, UiFrame DEF RInv, NoStrayCancel
<1>9. RunInv' BY <1>1, <1>5 DEF RInv, RunInv, Async, Finished, Told
<1>10. \A h \in Handles : Executed(h) => Executed(h)' BY <1>1, <1>5 DEF Executed, Told
<1>11. LastInv' /\ QuitInv' BY <1>1, <1>3, <1>7, <1>10, LastFrame, QuitFrame DEF RInv
<1>12. \A a \in Actions : canc[NavWatch(a)] = Nil BY <1>1 DEF RInv, CancelInv
<1>13. CancelInv' BY <1>1, <1>5, <1>7, <1>12, CancelFrame DEF RInv
<1> QED BY <1>6, <1>7, <1>8, <1>9, <1>11, <1>13 DEF RInv

\* The operation takes the session.
LEMMA TakesKeeps ==
    ASSUME RInv, Lock, sess' # sess
    PROVE  RInv'
<1> PICK a \in Actions : a = run.a BY DEF RInv, RunInv, Lock
<1> PICK b \in Sessions : b = run.b BY DEF RInv, RunInv, Lock
<1> DEFINE st == IF act[a].kind = "explain" THEN "explain" ELSE "exec"
<1>1. /\ run.pc = "lock" /\ run \in RunRecs /\ run.h = Nil /\ sess[b].st = "free" /\ sess[b] \in SessRecs
      /\ sess' = [sess EXCEPT ![b] = [sess[b] EXCEPT !.h = <<a, run.i>>, !.st = st]]
      /\ run' = [run EXCEPT !.pc = "exec"]
      /\ UNCHANGED <<binding, generation, last, act, queue, launching, enq, canc, tabs,
                     signal, ui, retirer, events, stray>>
  BY DEF Lock, Goto, RInv, RTypeOK, RunInv
<1>2. <<a, run.i>> \in Handles /\ run.i \in Stmts(act[a].kind) /\ Async(a) BY <1>1, Spaces DEF RInv, RunInv
<1>3. [sess[b] EXCEPT !.h = <<a, run.i>>, !.st = st] \in SessRecs BY <1>1, <1>2 DEF SessRecs, Opt
<1>4. /\ sess' \in [Sessions -> SessRecs]
      /\ sess'[b].st = st /\ sess'[b].h = <<a, run.i>> /\ st \in {"exec", "explain"}
      /\ \A c \in Sessions : c # b => sess'[c] = sess[c]
  BY <1>1, <1>3 DEF SessRecs, RInv, RTypeOK
<1>5. run' \in RunRecs /\ run'.a = a /\ run'.i = run.i /\ run'.h = Nil /\ run'.pc = "exec" /\ run'.b = b
  <2>1. run' \in RunRecs BY <1>1, RunRecordKeeps, Zenon
  <2> QED BY <1>1, <2>1 DEF RunRecs
<1>6. RTypeOK' BY <1>1, <1>4, <1>5 DEF RInv, RTypeOK
<1>7. CoreSame /\ RunStays BY <1>1, <1>5 DEF CoreSame, RunStays
<1>8. ActsInv' /\ PlaceInv' /\ NoStrayCancel' /\ SignalInv' /\ AckInv' /\ UiInv'
  BY <1>1, <1>7, CoreFacts, PlaceFrame, StrayFrame, SignalFrame, AckFrame, UiFrame DEF RInv
<1>9. RunInv' BY <1>1, <1>4, <1>5 DEF RInv, RunInv, Async, Finished, Told
<1>10. \A h \in Handles : Executed(h) => Executed(h)' BY <1>1, <1>5 DEF Executed, Told
<1>11. \A h \in Handles : Live(h)' => Live(h) BY <1>4, Spaces DEF Live, HeldBy
<1>12. LastInv' BY <1>1, <1>7, <1>10, LastFrame DEF RInv
<1>13. QuitInv' BY <1>1, <1>10, <1>11, Spaces, ZenonT(40) DEF RInv, QuitInv, Async, RTypeOK, UiRecs
<1>14. HoldInv'
  <2> SUFFICES ASSUME NEW c \in Sessions
               PROVE  HoldInv!(c)'
    BY DEF HoldInv
  <2>1. HoldInv!(c) BY DEF RInv, HoldInv
  <2>2. CASE c = b BY <1>1, <1>2, <1>4, <1>5, <2>2, Spaces DEF Async, AsyncKinds
  <2>3. CASE c # b
    <3>1. sess'[c] = sess[c] BY <1>4, <2>3
    <3>2. sess[c].st = "live" => sess[c].h \in Handles BY <2>1
    <3>3. ASSUME sess[c].h \in Handles, Claimed(sess[c].h) PROVE Claimed(sess[c].h)'
      BY <1>1, <1>5, <3>1, <3>3, Spaces DEF Claimed
    <3>4. \A d : Running(d)' = Running(d) /\ Finished(d)' = Finished(d) BY <1>1, <1>5 DEF Running, Finished
    <3> QED BY <1>1, <2>1, <3>1, <3>2, <3>3, <3>4
  <2> QED BY <2>2, <2>3
<1>15. CancelInv'
  <2>1. \A d \in Actions : canc[Disposer(d)] # Nil /\ canc[Disposer(d)].st = "hit" => canc[Disposer(d)].b # b
    BY <1>1 DEF RInv, CancelInv
  <2>2. \A d \in Actions : canc[Disposer(d)] # Nil /\ canc[Disposer(d)].st = "hit" => canc[Disposer(d)].b \in Sessions
    BY ThreadFacts DEF RInv, CancelInv
  <2>3. \A d : Running(d)' = Running(d) /\ Async(d)' = Async(d) BY <1>1, <1>5 DEF Running, Async
  <2> QED BY <1>1, <1>4, <1>5, <2>1, <2>2, <2>3 DEF RInv, CancelInv
<1> QED BY <1>6, <1>8, <1>9, <1>12, <1>13, <1>14, <1>15 DEF RInv

LEMMA LockKeeps == RInv /\ Lock => RInv'
BY RefusedKeeps, TakesKeeps

\* The session call has returned, with rows or without.
LEMMA Returns ==
    ASSUME RInv, RTypeOK', NEW a \in Actions, NEW b \in Sessions, a = run.a, b = run.b,
           run.pc = "exec", run'.a = a, run'.i = run.i, run'.b = b, run'.pc \in {"return", "lock"},
           \A c \in Sessions : c # b => sess'[c] = sess[c],
           \/ sess'[b].st = "free" /\ sess'[b].h = Nil /\ run'.h = Nil
           \/ /\ act[a].kind # "explain" /\ sess'[b].st = "live" /\ sess'[b].h = <<a, run.i>>
              /\ run'.h = <<a, run.i>> /\ run'.pc = "return",
           UNCHANGED <<last, act, queue, enq, canc, tabs, signal, ui, stray>>
    PROVE  RInv'
<1>1. /\ run.i \in Stmts(act[a].kind) /\ run.i \in 1..2 /\ Async(a) /\ Told(a, run.i) = 0 /\ ~Finished(a)
      /\ sess[b].st \in {"exec", "explain"} /\ run.h = Nil
  BY Spaces DEF RInv, RunInv
<1>2. CoreSame /\ RunStays BY DEF CoreSame, RunStays
<1>3. ActsInv' /\ PlaceInv' /\ NoStrayCancel' /\ SignalInv' /\ AckInv' /\ UiInv'
  BY <1>2, CoreFacts, PlaceFrame, StrayFrame, SignalFrame, AckFrame, UiFrame DEF RInv
<1>4. RunInv' BY DEF RInv, RunInv, Async, Finished, Told
<1>5. \A h \in Handles : Executed(h) => Executed(h)' BY DEF Executed, Told
<1>6. LastInv' BY <1>2, <1>5, LastFrame DEF RInv
<1>7. QuitInv'
  <2>1. ~Executed(<<a, run.i>>) BY <1>1, Spaces DEF Executed, Async, AsyncKinds
  <2>2. \A h \in Handles : Live(h)' => Live(h) \/ h = <<a, run.i>> BY Spaces DEF Live, HeldBy
  <2>3. ui.a # 0 => ui.a \in Actions /\ <<ui.a, 1>> \in Handles BY Spaces DEF RInv, RTypeOK, UiRecs
  <2>4. CASE ~(ui.pc \in {"quitWait", "drained"} /\ ui.a # 0) BY <2>4 DEF QuitInv
  <2>5. CASE ui.pc \in {"quitWait", "drained"} /\ ui.a # 0 /\ Async(ui.a) /\ (act[ui.a].kind = "batch" \/ ui.h = Nil)
                /\ (ui.pc = "drained" => act[ui.a].done)
    BY <2>5 DEF RInv, QuitInv, Async
  <2>6. CASE ui.pc \in {"quitWait", "drained"} /\ ui.a # 0
                /\ act[ui.a].kind # "batch" /\ ui.h = <<ui.a, 1>> /\ Executed(ui.h)
                /\ (ui.pc = "drained" => ~Live(ui.h))
    <3>1. ui.h \in Handles /\ ui.h # <<a, run.i>> BY <2>1, <2>3, <2>6
    <3>2. ui.pc = "drained" => ~Live(ui.h)' BY <2>2, <2>6, <3>1
    <3>3. Executed(ui.h)' BY <1>5, <2>6, <3>1
    <3> QED BY <2>6, <3>2, <3>3 DEF RInv, QuitInv
  <2> QED BY <2>4, <2>5, <2>6 DEF RInv, QuitInv
<1>8. HoldInv'
  <2> SUFFICES ASSUME NEW c \in Sessions
               PROVE  HoldInv!(c)'
    BY DEF HoldInv
  <2>1. HoldInv!(c) BY DEF RInv, HoldInv
  <2>2. CASE c = b
    <3>1. CASE sess'[b].st = "free" /\ sess'[b].h = Nil BY <2>2, <3>1
    <3>2. CASE act[a].kind # "explain" /\ sess'[b].st = "live" /\ sess'[b].h = <<a, run.i>>
               /\ run'.h = <<a, run.i>> /\ run'.pc = "return"
      <4> PICK h \in Handles : h = <<a, run.i>> BY <1>1, Spaces
      <4>1. h[1] = a /\ h[2] = run.i OBVIOUS
      <4>2. Claimed(h)' /\ Running(a)' /\ ~act'[a].done /\ act'[a].kind = act[a].kind
        BY <1>1, <3>2 DEF Claimed, Running, Finished
      <4>3. act[a].kind \notin {"none", "sync", "explain"} BY <1>1, <3>2 DEF Async, AsyncKinds
      <4>4. Claimed(sess[c].h)' = Claimed(h)' /\ Running(sess[c].h[1])' = Running(a)'
        BY <2>2, <3>2, <4>1 DEF Claimed, Running
      <4> QED BY <1>1, <2>2, <3>2, <4>1, <4>2, <4>3, <4>4
    <3> QED BY <3>1, <3>2
  <2>3. CASE c # b
    <3>1. sess'[c] = sess[c] BY <2>3
    <3>2. sess[c].st = "live" => sess[c].h \in Handles BY <2>1
    <3>3. ASSUME sess[c].h \in Handles, Claimed(sess[c].h) PROVE Claimed(sess[c].h)'
      BY <1>1, <3>1, <3>3, Spaces DEF Claimed
    <3>4. \A d : Running(d)' = Running(d) /\ Finished(d)' = Finished(d) BY DEF Running, Finished
    <3> QED BY <2>1, <2>3, <3>1, <3>2, <3>3, <3>4
  <2> QED BY <2>2, <2>3
<1>9. CancelInv'
  <2>1. \A d \in Actions : canc[Disposer(d)] # Nil /\ canc[Disposer(d)].st = "hit" => canc[Disposer(d)].b # b
    BY <1>1 DEF RInv, CancelInv
  <2>2. \A d \in Actions : canc[Disposer(d)] # Nil /\ canc[Disposer(d)].st = "hit" => canc[Disposer(d)].b \in Sessions
    BY ThreadFacts DEF RInv, CancelInv
  <2>3. \A d : Running(d)' = Running(d) /\ Async(d)' = Async(d) BY DEF Running, Async
  <2> QED BY <2>1, <2>2, <2>3 DEF RInv, CancelInv
<1> QED BY <1>3, <1>4, <1>6, <1>7, <1>8, <1>9 DEF RInv

LEMMA ExecKeeps ==
    ASSUME RInv, Exec
    PROVE  RInv'
<1> PICK a \in Actions : a = run.a BY Zenon DEF RInv, RunInv, Exec
<1> PICK b \in Sessions : b = run.b BY Zenon DEF RInv, RunInv, Exec
<1>1. /\ run.pc = "exec" /\ run \in RunRecs /\ run.h = Nil /\ sess[b] \in SessRecs
      /\ sess[b].h = <<a, run.i>> /\ <<a, run.i>> \in Handles
      /\ UNCHANGED <<binding, generation, last, act, queue, launching, enq, canc, tabs,
                     signal, ui, retirer, events, stray>>
  BY Spaces, Zenon DEF Exec, RInv, RTypeOK, RunInv
<1>2. CASE /\ sess' = [sess EXCEPT ![b] = FreedSess(@)]
           /\ \/ \E e \in {"ok", "failed"} : run' = [run EXCEPT !.pc = "return", !.err = e]
              \/ run' = [run EXCEPT !.pc = "lock", !.calls = @ - 1]
  <2>1. /\ sess' \in [Sessions -> SessRecs] /\ sess'[b].st = "free" /\ sess'[b].h = Nil
        /\ \A c \in Sessions : c # b => sess'[c] = sess[c]
    BY <1>1, <1>2, FreedType DEF RInv, RTypeOK
  <2>2. run' \in RunRecs /\ run'.a = a /\ run'.i = run.i /\ run'.b = b /\ run'.pc \in {"return", "lock"} /\ run'.h = Nil
    <3>1. ASSUME NEW e \in {"ok", "failed"}, run' = [run EXCEPT !.pc = "return", !.err = e]
          PROVE  run' \in RunRecs /\ run'.a = a /\ run'.i = run.i /\ run'.b = b /\ run'.pc = "return" /\ run'.h = Nil
      <4>1. e \in Verdicts BY DEF Verdicts
      <4> HIDE DEF Verdicts
      <4> QED BY <1>1, <3>1, <4>1 DEF RunRecs
    <3>2. ASSUME run' = [run EXCEPT !.pc = "lock", !.calls = @ - 1]
          PROVE  run' \in RunRecs /\ run'.a = a /\ run'.i = run.i /\ run'.b = b /\ run'.pc = "lock" /\ run'.h = Nil
      <4>1. run' \in RunRecs BY <1>1, <3>2, RunRecordKeeps, Zenon
      <4> QED BY <1>1, <3>2, <4>1 DEF RunRecs
    <3> QED BY <1>2, <3>1, <3>2
  <2>3. RTypeOK' BY <1>1, <2>1, <2>2 DEF RInv, RTypeOK
  <2> QED BY <1>1, <2>1, <2>2, <2>3, Returns
<1>3. CASE /\ act[a].kind # "explain"
           /\ sess' = [sess EXCEPT ![b] = [sess[b] EXCEPT !.st = "live"]]
           /\ run' = [run EXCEPT !.pc = "return", !.h = <<a, run.i>>]
  <2>1. /\ sess' \in [Sessions -> SessRecs] /\ sess'[b].st = "live" /\ sess'[b].h = <<a, run.i>>
        /\ \A c \in Sessions : c # b => sess'[c] = sess[c]
    BY <1>1, <1>3, Zenon DEF RInv, RTypeOK, SessRecs
  <2>2. run' \in RunRecs /\ run'.a = a /\ run'.i = run.i /\ run'.b = b /\ run'.pc = "return" /\ run'.h = <<a, run.i>>
    <3>1. run' \in RunRecs BY <1>1, <1>3, RunRecordKeeps, Zenon
    <3> QED BY <1>1, <1>3, <3>1 DEF RunRecs
  <2>3. RTypeOK' BY <1>1, <2>1, <2>2 DEF RInv, RTypeOK
  <2> QED BY <1>1, <1>3, <2>1, <2>2, <2>3, Returns
<1> QED
  <2>1. \/ /\ act[a].kind # "explain" /\ sess' = [sess EXCEPT ![b] = FreedSess(@)]
           /\ run' = [run EXCEPT !.pc = "return", !.err = "failed"]
        \/ /\ act[a].kind # "explain" /\ sess' = [sess EXCEPT ![b].st = "live"]
           /\ run' = [run EXCEPT !.pc = "return", !.h = <<a, run.i>>]
        \/ /\ sess' = [sess EXCEPT ![b] = FreedSess(@)]
           /\ \/ \E e \in {"ok", "failed"} : run' = [run EXCEPT !.pc = "return", !.err = e]
              \/ run' = [run EXCEPT !.pc = "lock", !.calls = @ - 1]
    BY Zenon DEF Exec
  <2> QED BY <1>2, <1>3, <2>1

LEMMA ReleasedFacts ==
    ASSUME sess \in [Sessions -> SessRecs], NEW h \in Handles, sess' = Released(h)
    PROVE  /\ sess' \in [Sessions -> SessRecs] /\ SessShrinks /\ ~Live(h)'
           /\ \A b \in Sessions : sess[b].h # h => sess'[b] = sess[b]
<1>1. \A b \in Sessions : sess'[b] = IF sess[b].h = h /\ sess[b].st = "live" THEN FreedSess(sess[b]) ELSE sess[b]
  BY Zenon DEF Released, FreedSess
<1>2. \A b \in Sessions : FreedSess(sess[b]) \in SessRecs /\ FreedSess(sess[b]).st = "free" /\ FreedSess(sess[b]).h = Nil
  BY FreedType
<1>3. sess' \in [Sessions -> SessRecs]
  <2>1. \A b \in Sessions : sess'[b] \in SessRecs BY <1>1, <1>2
  <2> QED BY <2>1, Zenon DEF Released
<1>4. SessShrinks BY <1>1, <1>2 DEF SessShrinks
<1>5. ~Live(h)' BY <1>1, <1>2, Spaces DEF Live, HeldBy
<1> QED BY <1>1, <1>3, <1>4, <1>5

LEMMA PublishKeeps ==
    ASSUME RInv, PublishHandle
    PROVE  RInv'
<1> PICK a \in Actions : a = run.a BY DEF RInv, RunInv, PublishHandle
<1> PICK i \in 1..2 : i = run.i BY Spaces DEF RInv, RunInv, PublishHandle
<1> PICK h \in Opt(Handles) : h = run.h BY DEF RInv, RTypeOK, RunRecs
<1> DEFINE more == i + 1 \in Stmts(act[a].kind)
<1>1. /\ run.pc = "publish" /\ run \in RunRecs /\ Async(a) /\ ~Finished(a) /\ Told(a, i) = 0
      /\ i \in Stmts(act[a].kind) /\ (h # Nil => h = <<a, i>>)
      /\ UNCHANGED <<binding, generation, act, queue, launching, enq, canc, tabs, signal, ui,
                     retirer, events, stray>>
  BY Spaces DEF PublishHandle, RInv, RTypeOK, RunInv
<1>2. \/ /\ last' = Resolved(a, h, more) /\ sess' = sess
         /\ run' = [run EXCEPT !.pc = "ack", !.h = h, !.err = run.err]
      \/ /\ last' = last /\ sess' = IF h = Nil THEN sess ELSE Released(h)
         /\ run' = [run EXCEPT !.pc = "ack", !.h = Nil, !.err = "canceled"]
  <2>1. CASE ~act[a].abandoned /\ last # Nil /\ last.root = a BY <1>1, <2>1 DEF PublishHandle, RunRecs
  <2>2. CASE ~(~act[a].abandoned /\ last # Nil /\ last.root = a) BY <1>1, <2>2 DEF PublishHandle
  <2> QED BY <2>1, <2>2
<1> HIDE DEF more
<1>3. /\ run' \in RunRecs /\ run'.a = a /\ run'.i = i /\ run'.pc = "ack" /\ RunStays
      /\ run'.h \in {Nil, h}
  <2>1. ASSUME NEW g \in Opt(Handles), NEW e \in Verdicts, run' = [run EXCEPT !.pc = "ack", !.h = g, !.err = e]
        PROVE  run' \in RunRecs /\ run'.a = a /\ run'.i = i /\ run'.pc = "ack" /\ run'.h = g
    BY <1>1, <2>1 DEF RunRecs
  <2>2. run.err \in Verdicts /\ "canceled" \in Verdicts /\ Nil \in Opt(Handles) BY <1>1 DEF RunRecs, Verdicts, Opt
  <2> QED BY <1>1, <1>2, <2>1, <2>2, Zenon DEF RunStays
<1>4. last' \in Opt(Slots)
  <2>1. Resolved(a, h, more) \in Slots BY DEF Resolved, Slots, Opt, more
  <2> QED BY <1>2, <2>1 DEF RInv, RTypeOK, Opt
<1>5. /\ sess' \in [Sessions -> SessRecs] /\ SessShrinks
      /\ \A b \in Sessions : h = Nil \/ sess[b].h # h => sess'[b] = sess[b]
  <2>1. CASE sess' = sess BY <2>1 DEF RInv, RTypeOK, SessShrinks
  <2>2. CASE h # Nil /\ sess' = Released(h) BY <2>2, ReleasedFacts DEF RInv, RTypeOK, Opt
  <2> QED BY <1>2, <2>1, <2>2
<1>6. run'.h # h => h # Nil /\ ~Live(h)'
  <2>1. CASE run' = [run EXCEPT !.pc = "ack", !.h = h, !.err = run.err] BY <1>1, <2>1 DEF RunRecs
  <2>2. CASE h # Nil /\ sess' = Released(h) BY <2>2, ReleasedFacts DEF RInv, RTypeOK, Opt
  <2>3. CASE h = Nil BY <1>3, <2>3
  <2> QED BY <1>2, <2>1, <2>2, <2>3
<1>7. RTypeOK' BY <1>1, <1>3, <1>4, <1>5 DEF RInv, RTypeOK
<1>8. CoreSame BY <1>1 DEF CoreSame
<1>9. ActsInv' /\ PlaceInv' /\ NoStrayCancel' /\ SignalInv' /\ AckInv' /\ UiInv'
  BY <1>1, <1>3, <1>8, CoreFacts, PlaceFrame, StrayFrame, SignalFrame, AckFrame, UiFrame DEF RInv
<1>10. RunInv' BY <1>1, <1>3 DEF RInv, RunInv, Async, Finished, Told
<1>11. \A g \in Handles : Executed(g) => Executed(g)' BY <1>1, <1>3 DEF Executed, Told
<1>12. LastInv'
  <2>1. CASE last' = last BY <1>8, <1>11, <2>1, LastFrame DEF RInv
  <2>2. CASE last' = Resolved(a, h, more)
    <3>1. more => act[a].kind = "batch" BY DEF more, Stmts
    <3>2. act[a].kind \notin {"none", "sync"} /\ act'[a].kind = act[a].kind BY <1>1 DEF Async, AsyncKinds
    <3>3. h # Nil => h[1] = a /\ h[2] = i /\ Executed(h)' BY <1>1, <1>3 DEF Executed
    <3>4. last'.root = a /\ last'.st = "resolved" /\ last'.h = h /\ (last'.more <=> more) BY <2>2 DEF Resolved
    <3> QED BY <1>1, <3>1, <3>2, <3>3, <3>4 DEF LastInv, Executed
  <2> QED BY <1>2, <2>1, <2>2
<1>13. QuitInv' BY <1>1, <1>5, <1>8, <1>11, QuitFrame DEF RInv
<1>14. HoldInv'
  <2>1. ASSUME NEW g \in Handles, Live(g)', Claimed(g) PROVE Claimed(g)'
    <3>1. g[1] \in Actions BY Spaces
    <3>2. CASE g = h BY <1>3, <1>6, <2>1, <3>2 DEF Claimed
    <3>3. CASE g # h BY <1>1, <2>1, <3>1, <3>3 DEF Claimed
    <3> QED BY <3>2, <3>3
  <2> QED BY <1>1, <1>3, <1>5, <1>8, <2>1, HoldFrame DEF RInv
<1>15. CancelInv'
  <2>1. canc[Launcher] = Nil /\ \A d \in Actions : canc[NavWatch(d)] = Nil BY <1>1 DEF RInv, CancelInv
  <2>2. ASSUME NEW d \in Actions, canc[Disposer(d)] # Nil, canc[Disposer(d)].st = "hit"
        PROVE  /\ sess'[canc[Disposer(d)].b].st = sess[canc[Disposer(d)].b].st
               /\ sess'[canc[Disposer(d)].b].h = sess[canc[Disposer(d)].b].h
    <3>1. canc[Disposer(d)].b \in Sessions /\ sess[canc[Disposer(d)].b].h = <<d, 1>>
      BY <2>2, ThreadFacts DEF RInv, CancelInv
    <3>2. Told(d, 1) # 0 BY <2>2 DEF RInv, AckInv
    <3>3. h = Nil \/ h # <<d, 1>> BY <1>1, <3>2
    <3> QED BY <1>5, <3>1, <3>3
  <2> QED BY <1>1, <1>3, <1>8, <2>1, <2>2, CancelFrame DEF RInv
<1> QED BY <1>7, <1>9, <1>10, <1>12, <1>13, <1>14, <1>15 DEF RInv

\* The launcher stays with its action and says something about it.
LEMMA PlaceStays ==
    ASSUME RInv, NEW a \in Actions, run.a = a, run.pc # "idle", RunStays,
           RoleSame, \A c \in Actions \ {a} : Finished(c)' = Finished(c) /\ Fresh(c)' = Fresh(c),
           Finished(a)' = Finished(a), UNCHANGED <<queue, enq>>
    PROVE  PlaceInv'
<1>1. \A c \in Actions : /\ Queued(c)' = Queued(c) /\ Enqueuing(c)' = Enqueuing(c)
                         /\ Running(c)' = Running(c) /\ (Running(c) <=> c = a)
                         /\ Async(c)' = Async(c) /\ act'[c].wire = act[c].wire
                         /\ Finished(c)' = Finished(c)
  BY DEF Queued, Enqueuing, Running, Async, RoleSame, RunStays
<1>2. Async(a) /\ ~Queued(a) /\ ~Enqueuing(a) BY <1>1 DEF RInv, RunInv, PlaceInv
<1>3. \A c \in Actions : c # a => Fresh(c)' = Fresh(c) OBVIOUS
<1>4. \A c \in Actions : Async(c)' => Finished(c)' \/ Queued(c)' \/ Running(c)' \/ Enqueuing(c)'
  BY <1>1 DEF RInv, PlaceInv
<1>5. \A c \in Actions : Queued(c)' \/ Enqueuing(c)' => Async(c)' /\ Fresh(c)' /\ ~Running(c)'
  BY <1>1, <1>2, <1>3 DEF RInv, PlaceInv
<1>6. \A c \in Actions : (Queued(c)' => ~Enqueuing(c)') /\ (~Async(c)' => Fresh(c)' /\ ~act'[c].wire)
  BY <1>1, <1>2, <1>3 DEF RInv, PlaceInv
<1>7. \A d, c \in Actions :
        Async(d)' /\ Async(c)' /\ c < d /\ (Running(d)' \/ Finished(d)') => Finished(c)'
  BY <1>1 DEF RInv, PlaceInv
<1>8. \A j, k \in DOMAIN queue' : j < k => queue'[j] < queue'[k] BY DEF RInv, PlaceInv
<1> QED BY <1>4, <1>5, <1>6, <1>7, <1>8 DEF PlaceInv

\* The ack, whichever way the rows go.
LEMMA Acks ==
    ASSUME RInv, RTypeOK', NEW a \in Actions, NEW i \in 1..2, NEW h \in Opt(Handles),
           run.a = a, run.i = i, run.h = h, run.pc = "ack",
           run'.a = a, run'.i = i, run'.h = h, run'.pc = "next",
           RoleSame, \A c \in Actions \ {a} : act'[c] = act[c], act'[a].draining = act[a].draining,
           Told(a, i)' = 1, \A j \in 1..2 \ {i} : act'[a].acks[j] = act[a].acks[j],
           NEW owned \in BOOLEAN, owned <=> act[a].kind = "bound" /\ h # Nil,
           ~owned => UNCHANGED <<canc>> /\ tabs'.open = tabs.open /\ tabs'.acked = tabs.acked \cup {<<a, i, h>>}
                     /\ act'[a].result = act[a].result,
           owned => tabs' = tabs /\ \/ act'[a].result = "unadopted" /\ canc' = canc
                                    \/ act'[a].result = "disposed" /\ canc' = DiscardCanc(canc, {a}),
           UNCHANGED <<last, queue, sess, enq, signal, ui, stray>>
    PROVE  RInv'
<1>1. /\ Async(a) /\ ~Finished(a) /\ Told(a, i) = 0 /\ i \in Stmts(act[a].kind) /\ act[a].wire
      /\ h # Nil => h = <<a, i>>
      /\ \A j \in 1..2 : Told(a, j) = IF j < i THEN 1 ELSE 0
  BY DEF RInv, RunInv
<1>2. owned => i = 1 /\ act[a].kind = "bound" /\ h = <<a, 1>> BY <1>1 DEF Stmts
<1>3. \A j \in 1..2 \ {i} : Told(a, j)' = Told(a, j) BY DEF Told
<1>4. /\ ActsInv' /\ Async(a)
      /\ \A c \in Actions : Async(c)' = Async(c)
      /\ \A c \in Actions \ {a} : Finished(c)' = Finished(c) /\ Fresh(c)' = Fresh(c)
      /\ \A c \in Actions : \A j \in 1..2 : Told(c, j) # 0 => Told(c, j)' # 0
  <2>1. \A j \in 1..2 : Told(a, j)' = Told(a, j) \/ Told(a, j)' = 1 BY <1>3
  <2> QED BY <2>1, Answering
<1>5. Finished(a)' = Finished(a) /\ RunStays /\ SessShrinks BY DEF Finished, RoleSame, RunStays, SessShrinks
<1>6. PlaceInv' BY <1>4, <1>5, PlaceStays DEF RInv
<1>7. RunInv'
  <2>1. \A j \in 1..2 : Told(a, j)' = IF j < i \/ j = i THEN 1 ELSE 0 BY <1>1, <1>3
  <2>2. \A j \in 1..2 : Len(act'[a].acks[j]) = IF j < i \/ j = i THEN 1 ELSE 0 BY <2>1 DEF Told
  <2>3. ~Finished(a)' /\ Async(a)' /\ i \in Stmts(act'[a].kind) /\ act'[a].wire BY <1>1, <1>4, <1>5 DEF RoleSame
  <2> QED BY <1>1, <2>2, <2>3 DEF RunInv, Async, Finished, Told
<1>8. /\ \A c \in Actions : /\ canc'[WireCancel(c)] = canc[WireCancel(c)]
                            /\ canc'[NavWatch(c)] = canc[NavWatch(c)]
                            /\ canc'[Disposer(c)] = IF c = a /\ act'[a].result = "disposed" /\ owned
                                                      THEN CancelHandle(<<a, 1>>, a) ELSE canc[Disposer(c)]
      /\ \A t \in {UI, Launcher, Retirer} : canc'[t] = canc[t]
      /\ canc[Disposer(a)] = Nil
      /\ canc[Launcher] = Nil /\ \A c \in Actions : canc[NavWatch(c)] = Nil
  <2>1. canc[Disposer(a)] = Nil BY <1>1, <1>2 DEF RInv, AckInv, Stmts
  <2>2. canc[Launcher] = Nil /\ \A c \in Actions : canc[NavWatch(c)] = Nil BY DEF RInv, CancelInv
  <2>3. act[a].result # "disposed" BY <1>1 DEF RInv, AckInv, Stmts
  <2>4. CASE canc' = canc /\ ~(owned /\ act'[a].result = "disposed") BY <2>1, <2>2, <2>4
  <2>5. CASE owned /\ act'[a].result = "disposed" /\ canc' = DiscardCanc(canc, {a})
    BY <2>1, <2>2, <2>5, DiscardOne DEF RInv
  <2> QED BY <2>3, <2>4, <2>5
<1>17. UiInv' BY <1>4, <1>8, UiRole DEF RInv
<1>9. \A c \in Actions : /\ act'[c].kind = act[c].kind /\ act'[c].wire = act[c].wire /\ act'[c].done = act[c].done
                         /\ c # a => act'[c].result = act[c].result
  BY DEF RoleSame
<1>10. AckInv'
  <2>1. \A c \in Actions : Finished(c)' => act'[c].wire /\ \A j \in Stmts(act'[c].kind) : Told(c, j)' = 1
    <3> SUFFICES ASSUME NEW c \in Actions, Finished(c)'
                 PROVE  act'[c].wire /\ \A j \in Stmts(act'[c].kind) : Told(c, j)' = 1
      OBVIOUS
    <3>1. c # a BY <1>1, <1>5
    <3> QED BY <1>4, <1>9, <3>1 DEF RInv, AckInv, Told
  <2>2. tabs'.open = tabs.open /\ \A k \in tabs'.acked : k \in tabs.acked \/ (~owned /\ k = <<a, i, h>>) OBVIOUS
  <2>3. \A k \in tabs.acked : k[1] \in Actions /\ k[2] \in 1..2 /\ k[3] \in Opt(Handles) BY DEF RInv, RTypeOK
  <2>4. \A g \in tabs.open : g \in Handles /\ g[1] \in Actions /\ g[2] \in 1..2 BY Spaces DEF RInv, RTypeOK
  <2>5. \A k \in tabs.acked : ~(k[1] = a /\ k[2] = i) BY <1>1 DEF RInv, AckInv
  <2>6. h # Nil => h \notin tabs.open BY <1>1, <1>4 DEF RInv, AckInv, Async, AsyncKinds
  <2>7. ASSUME NEW k \in tabs'.acked
        PROVE  /\ Told(k[1], k[2])' # 0 /\ k[2] \in Stmts(act'[k[1]].kind)
               /\ k[3] # Nil => /\ k[3] = <<k[1], k[2]>> /\ k[3] \notin tabs'.open
                                /\ act'[k[1]].kind # "bound"
    <3>1. CASE k \in tabs.acked BY <1>4, <1>9, <2>2, <2>3, <3>1 DEF RInv, AckInv
    <3>2. CASE ~owned /\ k = <<a, i, h>> BY <1>1, <1>9, <2>2, <2>6, <3>2 DEF Told
    <3> QED BY <2>2, <3>1, <3>2
  <2>8. \A k, m \in tabs'.acked : k[1] = m[1] /\ k[2] = m[2] => k = m BY <2>2, <2>5 DEF RInv, AckInv
  <2>9. \A g \in tabs'.open : \/ act'[g[1]].kind = "sync"
                              \/ Told(g[1], g[2])' # 0 /\ (act'[g[1]].kind = "bound" => act'[g[1]].result = "adopted")
    <3> SUFFICES ASSUME NEW g \in tabs.open, act[g[1]].kind # "sync"
                 PROVE  Told(g[1], g[2])' # 0 /\ (act[g[1]].kind = "bound" => act'[g[1]].result = "adopted")
      BY <1>9, <2>2, <2>4
    <3>1. Told(g[1], g[2]) # 0 /\ (act[g[1]].kind = "bound" => act[g[1]].result = "adopted" /\ Told(g[1], 1) # 0)
      BY <2>4 DEF RInv, AckInv
    <3>2. g[1] = a => ~owned BY <1>1, <1>2, <3>1
    <3> QED BY <1>4, <1>9, <2>4, <3>1, <3>2
  <2>10. \A c \in Actions : act'[c].result # "none" => act'[c].kind = "bound" /\ Told(c, 1)' # 0
    <3> SUFFICES ASSUME NEW c \in Actions, act'[c].result # "none"
                 PROVE  act'[c].kind = "bound" /\ Told(c, 1)' # 0
      OBVIOUS
    <3>1. CASE owned /\ c = a BY <1>2, <1>9, <3>1
    <3>2. CASE ~(owned /\ c = a) BY <1>4, <1>9, <3>2 DEF RInv, AckInv
    <3> QED BY <3>1, <3>2
  <2>11. \A c \in Actions : canc'[Disposer(c)] # Nil => act'[c].result = "disposed" BY <1>8, <1>9 DEF RInv, AckInv
  <2> QED BY <2>1, <2>7, <2>8, <2>9, <2>10, <2>11 DEF AckInv
<1>11. \A g \in Handles : Executed(g) => Executed(g)' BY <1>4, <1>9, Spaces DEF Executed
<1>12. LastInv' /\ QuitInv' BY <1>5, <1>11, LastRole, QuitRole DEF RInv
<1>13. NoStrayCancel' BY <1>9 DEF RInv, RTypeOK, NoStrayCancel
<1>14. SignalInv'
  <2>1. ASSUME act[a].kind \in {"run", "batch"} PROVE UnsettledStmts(a)' = UnsettledStmts(a)
    <3>1. ~owned /\ <<a, i, h>> \in tabs'.acked BY <2>1
    <3>2. i \in UnsettledStmts(a) /\ i \in UnsettledStmts(a)'
      BY <1>1, <1>9, <3>1, ToldType, ZenonT(40) DEF UnsettledStmts, Opt, RInv
    <3>3. \A j \in 1..2 \ {i} : \A g \in Handles \cup {Nil} : <<a, j, g>> \in tabs'.acked <=> <<a, j, g>> \in tabs.acked
      BY <3>1
    <3>4. \A j \in 1..2 \ {i} : j \in UnsettledStmts(a)' <=> j \in UnsettledStmts(a) BY <1>9, <3>3 DEF UnsettledStmts
    <3>5. UnsettledStmts(a) \subseteq 1..2 /\ UnsettledStmts(a)' \subseteq 1..2 BY Spaces DEF UnsettledStmts
    <3> QED BY <3>2, <3>4, <3>5, SMTT(30)
  <2>2. ASSUME NEW c \in Actions \ {a} PROVE UnsettledStmts(c)' = UnsettledStmts(c)
    <3>1. \A j : \A g \in Handles \cup {Nil} : <<c, j, g>> \in tabs'.acked <=> <<c, j, g>> \in tabs.acked OBVIOUS
    <3> QED BY <3>1 DEF UnsettledStmts
  <2>3. signal # 0 => signal \in Actions BY DEF RInv, RTypeOK
  <2>4. \A c \in Actions : act[c].kind \in {"run", "batch"} => UnsettledStmts(c)' = UnsettledStmts(c) BY <2>1, <2>2
  <2> QED BY <1>9, <2>3, <2>4 DEF RInv, SignalInv, SignalIsNewestRun
<1>15. HoldInv'
  <2>1. \A c \in Actions : Running(c) \/ Finished(c) => Running(c)' \/ Finished(c)' BY <1>4, <1>5 DEF Running, RunStays
  <2>2. ASSUME NEW g \in Handles, Claimed(g) PROVE Claimed(g)'
    <3>1. g[1] \in Actions BY Spaces
    <3>2. CASE g = h
      <4>1. g[1] = a /\ g[2] = i BY <1>1, <3>2, Spaces
      <4>2. CASE owned /\ act'[a].result = "unadopted" BY <4>1, <4>2 DEF Claimed
      <4>3. CASE owned /\ act'[a].result = "disposed"
        <5>1. CancelHandle(<<a, 1>>, a) # Nil BY DisposeCancel
        <5>2. canc'[Disposer(a)] # Nil BY <1>8, <4>3, <5>1
        <5> QED BY <4>1, <5>2 DEF Claimed
      <4>4. CASE ~owned BY <3>2, <4>1, <4>4 DEF Claimed
      <4> QED BY <4>2, <4>3, <4>4
    <3>3. CASE g # h
      <4>1. ~(run.h = g) BY <3>3
      <4>2. act[a].result # "unadopted" \/ ~owned BY <1>1, <1>2 DEF RInv, AckInv
      <4>3. canc[Disposer(g[1])] # Nil => canc'[Disposer(g[1])] # Nil BY <1>8, <3>1
      <4>4. act[g[1]].result = "unadopted" => act'[g[1]].result = "unadopted" BY <1>9, <3>1, <4>2
      <4> QED BY <2>2, <4>1, <4>3, <4>4 DEF Claimed
    <3> QED BY <3>2, <3>3
  <2> QED BY <1>5, <2>1, <2>2, HoldRole DEF RInv
<1>16. CancelInv'
  <2>1. \A c \in Actions : (Async(c)' <=> Async(c)) /\ (Running(c)' <=> Running(c)) BY <1>4, <1>5 DEF Running, RunStays
  <2>2. canc'[Disposer(a)] # Nil => /\ canc'[Disposer(a)].upto = a /\ canc'[Disposer(a)].h = <<a, 1>>
                                    /\ canc'[Disposer(a)].st = "check"
    BY <1>8 DEF CancelHandle
  <2>3. ASSUME NEW t \in Threads, canc'[t] # Nil
        PROVE  /\ canc'[t].st = "hit" => canc'[t].b \in Sessions
               /\ t \notin {UI, Retirer} => canc'[t].st \in {"check", "hit"}
               /\ canc'[t].st \in {"cas", "abandon"} => canc'[t].root # Nil
    <3>1. CASE t = Disposer(a) BY <2>2, <2>3, <3>1
    <3>2. CASE t # Disposer(a)
      <4>1. canc'[t] = canc[t] BY <1>8, <3>2, ThreadKinds
      <4> QED BY <2>3, <4>1 DEF RInv, CancelInv
    <3> QED BY <3>1, <3>2
  <2>4. ASSUME NEW c \in Actions
        PROVE  /\ canc'[WireCancel(c)] # Nil => ~act'[c].wire /\ canc'[WireCancel(c)].upto = c - 1 /\ Async(c)'
               /\ canc'[NavWatch(c)] # Nil => Running(c)' /\ run'.pc \in {"lock", "exec", "return"}
                                              /\ canc'[NavWatch(c)].upto = c
               /\ canc'[Disposer(c)] # Nil =>
                    /\ canc'[Disposer(c)].upto = c /\ canc'[Disposer(c)].h = <<c, 1>>
                    /\ canc'[Disposer(c)].st = "hit" =>
                         /\ sess'[canc'[Disposer(c)].b].st = "live"
                         /\ sess'[canc'[Disposer(c)].b].h = <<c, 1>>
    <3>1. canc'[WireCancel(c)] = canc[WireCancel(c)] /\ canc'[NavWatch(c)] = canc[NavWatch(c)] BY <1>8, ThreadKinds
    <3>2. canc'[WireCancel(c)] # Nil =>
            ~act'[c].wire /\ canc'[WireCancel(c)].upto = c - 1 /\ Async(c)'
      BY <1>9, <2>1, <3>1 DEF RInv, CancelInv
    <3>3. canc'[NavWatch(c)] # Nil => /\ Running(c)' /\ run'.pc \in {"lock", "exec", "return"}
                                      /\ canc'[NavWatch(c)].upto = c
      <4>1. canc[NavWatch(c)] # Nil => /\ Running(c) /\ run.pc \in {"lock", "exec", "return"}
                                       /\ canc[NavWatch(c)].upto = c
        BY DEF RInv, CancelInv
      <4> QED BY <1>8, <2>1, <3>1, <4>1
    <3>4. CASE c = a BY <2>2, <3>2, <3>3, <3>4
    <3>5. CASE c # a
      <4>1. canc'[Disposer(c)] = canc[Disposer(c)] BY <1>8, <3>5, ThreadKinds
      <4>2. canc[Disposer(c)] # Nil =>
              /\ canc[Disposer(c)].upto = c /\ canc[Disposer(c)].h = <<c, 1>>
              /\ canc[Disposer(c)].st = "hit" =>
                   /\ sess[canc[Disposer(c)].b].st = "live"
                   /\ sess[canc[Disposer(c)].b].h = <<c, 1>>
        BY DEF RInv, CancelInv
      <4>3. sess' = sess BY <1>8
      <4> QED BY <3>2, <3>3, <4>1, <4>2, <4>3
    <3> QED BY <3>4, <3>5
  <2> QED BY <1>8, <2>1, <2>3, <2>4 DEF RInv, CancelInv
<1> QED BY <1>4, <1>6, <1>7, <1>10, <1>12, <1>13, <1>14, <1>15, <1>16, <1>17 DEF RInv

LEMMA AckKeeps ==
    ASSUME RInv, Ack
    PROVE  RInv'
<1> PICK a \in Actions : a = run.a BY DEF RInv, RunInv, Ack
<1> PICK i \in 1..2 : i = run.i BY Spaces DEF RInv, RunInv, Ack
<1> PICK h \in Opt(Handles) : h = run.h BY DEF RInv, RTypeOK, RunRecs
<1> PICK owned \in BOOLEAN : owned <=> act[a].kind = "bound" /\ h # Nil OBVIOUS
<1> PICK valid \in BOOLEAN : valid <=> Valid(a) OBVIOUS
<1> PICK told \in Verdicts : told = IF owned /\ ~valid THEN "canceled" ELSE run.err
  BY DEF RInv, RTypeOK, RunRecs, Verdicts
<1> DEFINE said == [act[a] EXCEPT !.acks[i] = Append(@, told)]
           acked == [act EXCEPT ![a] = said]
<1>1. /\ run.pc = "ack" /\ run \in RunRecs /\ act \in [Actions -> ActRecs] /\ act[a] \in ActRecs
      /\ Told(a, i) = 0
      /\ run' = [run EXCEPT !.pc = "next"]
      /\ UNCHANGED <<binding, generation, last, queue, launching, sess, enq, signal, ui,
                     retirer, events, stray>>
  BY DEF Ack, Goto, RInv, RTypeOK, RunInv
<1>2. /\ act' = IF ~owned THEN acked
                ELSE IF valid THEN [acked EXCEPT ![a].result = "unadopted"]
                ELSE Discard(acked, {a})
      /\ canc' = IF owned /\ ~valid THEN DiscardCanc(canc, {a}) ELSE canc
      /\ tabs' = IF owned THEN tabs ELSE [tabs EXCEPT !.acked = @ \cup {<<a, i, h>>}]
  BY Zenon DEF Ack, BoundKind
<1>3. said \in ActRecs /\ said.acks = [act[a].acks EXCEPT ![i] = Append(act[a].acks[i], told)]
      /\ [said EXCEPT !.result = "unadopted"] \in ActRecs
      /\ [said EXCEPT !.result = "disposed"] \in ActRecs
      /\ said.kind = act[a].kind /\ said.wire = act[a].wire /\ said.binding = act[a].binding
      /\ said.draining = act[a].draining /\ said.done = act[a].done /\ said.result = act[a].result
  <2> HIDE DEF said
  <2>1. said \in ActRecs BY <1>1, AnswerFacts, ZenonT(40) DEF said
  <2>2. [said EXCEPT !.result = "unadopted"] \in ActRecs /\ [said EXCEPT !.result = "disposed"] \in ActRecs
    BY <2>1 DEF ActRecs
  <2>3. /\ said.acks = [act[a].acks EXCEPT ![i] = Append(act[a].acks[i], told)]
        /\ said.kind = act[a].kind /\ said.wire = act[a].wire /\ said.binding = act[a].binding
        /\ said.draining = act[a].draining /\ said.done = act[a].done /\ said.result = act[a].result
    BY <1>1 DEF said, ActRecs
  <2> QED BY <2>1, <2>2, <2>3
<1> HIDE DEF said
<1> DEFINE rec == IF ~owned THEN said ELSE IF valid THEN [said EXCEPT !.result = "unadopted"]
                  ELSE [said EXCEPT !.result = "disposed"]
<1>4. act' = [act EXCEPT ![a] = rec]
  <2>1. acked \in [Actions -> ActRecs] /\ acked[a] = said /\ \A c \in Actions \ {a} : acked[c] = act[c] BY <1>1, <1>3
  <2>2. PICK set \in SUBSET Actions : set = {a} OBVIOUS
  <2>3. /\ Discard(acked, set) \in [Actions -> ActRecs]
        /\ \A c \in Actions : Discard(acked, set)[c] =
             IF c \in set THEN [acked[c] EXCEPT !.result = "disposed"] ELSE acked[c]
    BY <2>1, DiscardActs, ZenonT(40)
  <2> HIDE DEF acked
  <2>4. CASE owned /\ ~valid
    <3>1. act' = Discard(acked, set) BY <1>2, <2>2, <2>4
    <3>2. \A c \in Actions : act'[c] = IF c = a THEN rec ELSE act[c] BY <2>1, <2>2, <2>3, <2>4, <3>1
    <3>3. act' \in [Actions -> ActRecs] BY <2>3, <3>1
    <3> HIDE DEF rec
    <3> QED BY <1>1, <3>2, <3>3
  <2>5. CASE ~(owned /\ ~valid) BY <1>1, <1>2, <1>3, <2>1, <2>5 DEF acked
  <2> QED BY <2>4, <2>5
<1>5. rec \in ActRecs /\ rec.acks = said.acks /\ rec.kind = act[a].kind /\ rec.wire = act[a].wire
      /\ rec.binding = act[a].binding /\ rec.draining = act[a].draining /\ rec.done = act[a].done
      /\ rec.result = IF ~owned THEN act[a].result ELSE IF valid THEN "unadopted" ELSE "disposed"
  BY <1>3 DEF ActRecs
<1> HIDE DEF rec
<1>6. /\ act' \in [Actions -> ActRecs] /\ act'[a] = rec /\ \A c \in Actions \ {a} : act'[c] = act[c] BY <1>1, <1>4, <1>5
<1>7. RoleSame BY <1>5, <1>6 DEF RoleSame
<1>8. Told(a, i)' = 1 /\ \A j \in 1..2 \ {i} : act'[a].acks[j] = act[a].acks[j]
  <2>1. Len(Append(act[a].acks[i], told)) = 1 BY <1>1, ToldType DEF RInv
  <2>2. act[a].acks \in [1..2 -> Seq(Verdicts)] BY <1>1 DEF ActRecs
  <2>3. act'[a].acks = [act[a].acks EXCEPT ![i] = Append(act[a].acks[i], told)] BY <1>3, <1>5, <1>6
  <2>4. act'[a].acks[i] = Append(act[a].acks[i], told) /\ \A j \in 1..2 \ {i} : act'[a].acks[j] = act[a].acks[j]
    BY <2>2, <2>3, Zenon
  <2> QED BY <2>1, <2>4, Zenon DEF Told
<1>9. run' \in RunRecs /\ run'.a = a /\ run'.i = i /\ run'.h = h /\ run'.pc = "next"
  <2>1. run' \in RunRecs BY <1>1, RunRecordKeeps, Zenon
  <2> QED BY <1>1, <2>1 DEF RunRecs
<1>10. canc' \in [Threads -> Opt(Cancels)]
  <2>1. CASE owned /\ ~valid BY <1>2, <2>1, DiscardOne DEF RInv
  <2>2. CASE ~(owned /\ ~valid) BY <1>2, <2>2 DEF RInv, RTypeOK
  <2> QED BY <2>1, <2>2
<1>11. /\ tabs' \in [acked : SUBSET (Actions \X (1..2) \X Opt(Handles)), open : SUBSET Handles]
       /\ ~owned => tabs'.open = tabs.open /\ tabs'.acked = tabs.acked \cup {<<a, i, h>>}
  <2>1. tabs \in [acked : SUBSET (Actions \X (1..2) \X Opt(Handles)), open : SUBSET Handles] BY DEF RInv, RTypeOK
  <2> QED BY <1>2, <2>1
<1>12. RTypeOK' BY <1>1, <1>6, <1>9, <1>10, <1>11 DEF RInv, RTypeOK
<1>13. owned => tabs' = tabs /\ \/ act'[a].result = "unadopted" /\ canc' = canc
                                \/ act'[a].result = "disposed" /\ canc' = DiscardCanc(canc, {a})
  BY <1>2, <1>5, <1>6
<1>14. ~owned => canc' = canc /\ act'[a].result = act[a].result BY <1>2, <1>5, <1>6
<1>15. /\ ~owned => UNCHANGED <<canc>> /\ tabs'.open = tabs.open /\ tabs'.acked = tabs.acked \cup {<<a, i, h>>}
                      /\ act'[a].result = act[a].result
       /\ owned => tabs' = tabs /\ \/ act'[a].result = "unadopted" /\ canc' = canc
                                   \/ act'[a].result = "disposed" /\ canc' = DiscardCanc(canc, {a})
  BY <1>11, <1>13, <1>14
<1>16. UNCHANGED <<last, queue, sess, enq, signal, ui, stray>> /\ run.pc = "ack" BY <1>1
<1>17. run.a = a /\ run.i = i /\ run.h = h /\ act'[a].draining = act[a].draining
       /\ \A c \in Actions \ {a} : act'[c] = act[c]
  BY <1>5, <1>6
<1> QED BY <1>7, <1>8, <1>9, <1>12, <1>15, <1>16, <1>17, Acks

\* On to the next statement of the request.
LEMMA MovesOn ==
    ASSUME RInv, NextStatement, ~act[run.a].ctx, Rest # {}
    PROVE  RInv'
<1> PICK a \in Actions : a = run.a BY DEF RInv, RunInv, NextStatement
<1>1. /\ run.pc = "next" /\ Async(a) /\ ~Finished(a) /\ act[a].wire
      /\ run.i \in Stmts(act[a].kind)
      /\ \A j \in 1..2 : Told(a, j) = IF j < run.i \/ j = run.i THEN 1 ELSE 0
      /\ run' = [IdleRun EXCEPT !.pc = "check", !.a = a, !.i = run.i + 1]
      /\ UNCHANGED <<binding, generation, last, act, queue, launching, sess, enq, canc, tabs,
                     signal, ui, retirer, events, stray>>
  BY DEF NextStatement, RInv, RunInv
<1>2. run.i = 1 /\ 2 \in Stmts(act[a].kind)
  <2>1. PICK j \in Stmts(act[a].kind) : j > run.i BY DEF Rest
  <2>2. j \in 1..2 /\ run.i \in 1..2 BY <1>1, <2>1, Spaces
  <2>3. run.i = 1 /\ j = 2 BY <2>1, <2>2
  <2> QED BY <2>1, <2>3
<1>3. run' = [pc |-> "check", a |-> a, i |-> 2, b |-> NoSess, h |-> Nil, calls |-> 1, err |-> "ok"]
  <2>1. run.i + 1 = 2 BY <1>2
  <2>2. run' = [IdleRun EXCEPT !.pc = "check", !.a = a, !.i = 2] BY <1>1, <2>1
  <2> QED BY <2>2 DEF IdleRun
<1>4. RTypeOK'
  <2>1. run' \in RunRecs BY <1>3, Spaces DEF RunRecs, BoundTo, NoSess, Opt, Verdicts
  <2> QED BY <1>1, <2>1 DEF RInv, RTypeOK
<1>5. CoreSame /\ RunStays /\ SessShrinks BY <1>1, <1>3 DEF CoreSame, RunStays, SessShrinks
<1>6. ActsInv' /\ PlaceInv' /\ NoStrayCancel' /\ SignalInv' /\ AckInv' /\ UiInv'
  BY <1>1, <1>5, CoreFacts, PlaceFrame, StrayFrame, SignalFrame, AckFrame, UiFrame DEF RInv
<1>7. RunInv'
  <2>1. Async(a)' /\ ~Finished(a)' /\ act'[a] = act[a] BY <1>1 DEF Async, Finished
  <2>2. \A j \in 1..2 : Told(a, j) = IF j < 2 THEN 1 ELSE 0 BY <1>1, <1>2
  <2>3. \A j \in 1..2 : Told(a, j)' = IF j < 2 THEN 1 ELSE 0 BY <1>1, <2>2 DEF Told
  <2>4. run'.a = a /\ run'.i = 2 /\ run'.pc = "check" /\ run'.h = Nil BY <1>3
  <2> QED BY <1>1, <1>2, <2>1, <2>3, <2>4 DEF RunInv, Async, Finished, Told
<1>8. \A h \in Handles : Executed(h) => Executed(h)' BY <1>1, <1>3 DEF Executed, Told
<1>9. LastInv' /\ QuitInv' BY <1>1, <1>5, <1>8, LastFrame, QuitFrame DEF RInv
<1>10. HoldInv'
  <2>1. \A h \in Handles : Claimed(h) => Claimed(h)' BY <1>1 DEF Claimed
  <2> QED BY <1>1, <1>5, <2>1, HoldFrame DEF RInv
<1>11. CancelInv'
  <2>1. canc[Launcher] = Nil /\ \A d \in Actions : canc[NavWatch(d)] = Nil BY <1>1 DEF RInv, CancelInv
  <2> QED BY <1>1, <1>5, <2>1, CancelFrame DEF RInv
<1> QED BY <1>4, <1>6, <1>7, <1>9, <1>10, <1>11 DEF RInv

\* The last statement, or a cancelled action, whose other statements are told so.
LEMMA EndsKeeps ==
    ASSUME RInv, NextStatement, act[run.a].ctx \/ Rest = {}
    PROVE  RInv'
<1> PICK a \in Actions : a = run.a BY DEF RInv, RunInv, NextStatement
<1> PICK R \in SUBSET (1..2) : R = Rest BY Spaces DEF Rest
<1>1. /\ run.pc = "next" /\ Async(a) /\ ~Finished(a) /\ act[a].wire
      /\ run.i \in Stmts(act[a].kind) /\ run.i \in 1..2
      /\ \A j \in 1..2 : Told(a, j) = IF j < run.i \/ j = run.i THEN 1 ELSE 0
      /\ act \in [Actions -> ActRecs] /\ act[a] \in ActRecs
      /\ act[a].acks \in [1..2 -> Seq(Verdicts)]
  BY Spaces DEF NextStatement, RInv, RunInv, RTypeOK, ActRecs
<1>2. /\ run' = IdleRun
      /\ tabs' = [tabs EXCEPT !.acked = @ \cup {<<a, j, Nil>> : j \in R}]
      /\ UNCHANGED <<binding, generation, last, queue, launching, sess, enq, canc,
                     signal, ui, retirer, events, stray>>
      /\ act' = [act EXCEPT ![a].draining = TRUE, ![a].acks = [j \in 1..2 |->
                              IF j \in R THEN Append(@[j], "canceled") ELSE @[j]]]
  BY DEF NextStatement
<1>3. \A j \in R : j \in Stmts(act[a].kind) /\ j \in 1..2 /\ Told(a, j) = 0 BY <1>1 DEF Rest
<1>4. \A j \in Stmts(act[a].kind) : j \in 1..2 /\ (j \notin R => Told(a, j) = 1) BY <1>1, Spaces DEF Rest
<1> DEFINE acks == [j \in 1..2 |-> IF j \in R THEN Append(act[a].acks[j], "canceled") ELSE act[a].acks[j]]
<1>5. acks \in [1..2 -> Seq(Verdicts)]
  <2>1. "canceled" \in Verdicts BY DEF Verdicts
  <2>2. \A j \in 1..2 : acks[j] \in Seq(Verdicts) BY <1>1, <2>1
  <2> QED BY <2>2
<1>6. /\ \A j \in R : Len(acks[j]) = 1
      /\ \A j \in 1..2 \ R : acks[j] = act[a].acks[j]
  <2>1. \A j \in R : Len(Append(act[a].acks[j], "canceled")) = 1 BY <1>3, ToldType DEF RInv, Verdicts
  <2> QED BY <2>1
<1>7. act' = [act EXCEPT ![a] = [act[a] EXCEPT !.draining = TRUE, !.acks = acks]] BY <1>1, <1>2 DEF ActRecs
<1> HIDE DEF acks
<1>8. [act[a] EXCEPT !.draining = TRUE, !.acks = acks] \in ActRecs BY <1>1, <1>5 DEF ActRecs
<1>9. /\ act' \in [Actions -> ActRecs] /\ act'[a].acks = acks /\ act'[a].draining
      /\ \A c \in Actions \ {a} : act'[c] = act[c]
      /\ RoleSame /\ \A c \in Actions : act'[c].result = act[c].result
  BY <1>1, <1>7, <1>8 DEF ActRecs, RoleSame
<1>10. /\ \A j \in R : Told(a, j)' = 1
       /\ \A j \in 1..2 \ R : Told(a, j)' = Told(a, j)
       /\ \A j \in 1..2 : Told(a, j)' = Told(a, j) \/ Told(a, j)' = 1
  <2>1. \A j \in R : Told(a, j)' = 1 BY <1>6, <1>9 DEF Told
  <2>2. \A j \in 1..2 \ R : Told(a, j)' = Told(a, j) BY <1>6, <1>9 DEF Told
  <2> QED BY <2>1, <2>2
<1>11. tabs' \in [acked : SUBSET (Actions \X (1..2) \X Opt(Handles)), open : SUBSET Handles]
       /\ tabs'.acked = tabs.acked \cup {<<a, j, Nil>> : j \in R} /\ tabs'.open = tabs.open
  <2>1. tabs \in [acked : SUBSET (Actions \X (1..2) \X Opt(Handles)), open : SUBSET Handles] BY DEF RInv, RTypeOK
  <2>2. {<<a, j, Nil>> : j \in R} \subseteq Actions \X (1..2) \X Opt(Handles) BY DEF Opt
  <2> QED BY <1>2, <2>1, <2>2
<1>12. run' \in RunRecs /\ run'.pc = "idle" /\ run'.h = Nil
  BY <1>2, Spaces, SMTT(30) DEF IdleRun, RunRecs, BoundTo, NoSess, Opt, Verdicts
<1>13. RTypeOK' BY <1>2, <1>9, <1>11, <1>12 DEF RInv, RTypeOK
<1>14. /\ ActsInv'
       /\ \A c \in Actions : Async(c)' = Async(c)
       /\ \A c \in Actions \ {a} : Finished(c)' = Finished(c) /\ Fresh(c)' = Fresh(c)
       /\ \A c \in Actions : \A j \in 1..2 : Told(c, j) # 0 => Told(c, j)' # 0
  BY <1>1, <1>9, <1>10, Answering
<1>15. Finished(a)' /\ SessShrinks BY <1>2, <1>9, SMTT(30) DEF Finished, SessShrinks
<1>16. PlaceInv' /\ UiInv' /\ RunInv' BY <1>1, <1>2, <1>9, <1>12, <1>14, <1>15, PlaceEnds, UiRole DEF RInv, RunInv
<1>17. \A c \in Actions : act'[c].kind = act[c].kind /\ act'[c].wire = act[c].wire /\ act'[c].done = act[c].done
  BY <1>9 DEF RoleSame
<1>18. \A k \in tabs'.acked : k \in tabs.acked \/ \E j \in R : k = <<a, j, Nil>> BY <1>11
<1>19. AckInv'
  <2>1. ASSUME NEW c \in Actions, Finished(c)'
        PROVE  act'[c].wire /\ \A i \in Stmts(act'[c].kind) : Told(c, i)' = 1
    <3>1. CASE c = a BY <1>1, <1>3, <1>4, <1>10, <1>17, <3>1
    <3>2. CASE c # a BY <1>9, <1>14, <1>17, <2>1, <3>2 DEF RInv, AckInv, Told
    <3> QED BY <3>1, <3>2
  <2>2. ASSUME NEW k \in tabs'.acked
        PROVE  /\ k[1] \in Actions /\ Told(k[1], k[2])' # 0 /\ k[2] \in Stmts(act'[k[1]].kind)
               /\ k[3] # Nil => /\ k[3] = <<k[1], k[2]>> /\ k[3] \notin tabs'.open
                                /\ act'[k[1]].kind # "bound"
    <3>1. CASE k \in tabs.acked
      <4>1. k[1] \in Actions /\ k[2] \in 1..2 BY <3>1 DEF RInv, RTypeOK
      <4> QED BY <1>11, <1>14, <1>17, <3>1, <4>1 DEF RInv, AckInv
    <3>2. ASSUME NEW j \in R, k = <<a, j, Nil>> PROVE k[1] = a /\ k[2] = j /\ k[3] = Nil /\ Told(a, j)' # 0
                                                      /\ j \in Stmts(act'[a].kind)
      BY <1>3, <1>10, <1>17, <3>2
    <3> QED BY <1>18, <3>1, <3>2
  <2>3. \A k, m \in tabs'.acked : k[1] = m[1] /\ k[2] = m[2] => k = m
    <3>1. \A k \in tabs.acked : \A j \in R : ~(k[1] = a /\ k[2] = j)
      <4>1. \A k \in tabs.acked : Told(k[1], k[2]) # 0 BY DEF RInv, AckInv
      <4> QED BY <1>3, <4>1
    <3> QED BY <1>18, <3>1 DEF RInv, AckInv
  <2>4. \A h \in tabs'.open : h[1] \in Actions /\ h[2] \in 1..2 BY <1>11, Spaces
  <2>5. \A h \in tabs'.open : \/ act'[h[1]].kind = "sync"
                              \/ Told(h[1], h[2])' # 0 /\ (act'[h[1]].kind = "bound" => act'[h[1]].result = "adopted")
    BY <1>9, <1>11, <1>14, <1>17, <2>4 DEF RInv, AckInv
  <2>6. \A c \in Actions : act'[c].result # "none" => act'[c].kind = "bound" /\ Told(c, 1)' # 0
    BY <1>9, <1>14, <1>17, SMTT(30) DEF RInv, AckInv
  <2>7. \A c \in Actions : canc'[Disposer(c)] # Nil => act'[c].result = "disposed" BY <1>2, <1>9 DEF RInv, AckInv
  <2> QED BY <2>1, <2>2, <2>3, <2>5, <2>6, <2>7 DEF AckInv
<1>20. \A h \in Handles : Executed(h) => Executed(h)'
  <2> SUFFICES ASSUME NEW h \in Handles, Executed(h) PROVE Executed(h)' OBVIOUS
  <2>1. h[1] \in Actions /\ h[2] \in 1..2 BY Spaces, SMTT(30)
  <2> QED BY <1>1, <1>2, <1>14, <1>17, <2>1 DEF Executed
<1>21. LastInv' /\ QuitInv' BY <1>2, <1>9, <1>15, <1>20, LastRole, QuitRole DEF RInv
<1>22. NoStrayCancel' BY <1>2, <1>17 DEF RInv, RTypeOK, NoStrayCancel
<1>23. SignalInv'
  <2>1. UnsettledStmts(a)' = UnsettledStmts(a)
    <3>1. \A j \in R : j \in UnsettledStmts(a) /\ j \in UnsettledStmts(a)'
      <4> SUFFICES ASSUME NEW j \in R PROVE j \in UnsettledStmts(a) /\ j \in UnsettledStmts(a)' OBVIOUS
      <4>1. act[a].acks[j] = <<>> /\ j \in Stmts(act[a].kind) BY <1>3, ToldType DEF RInv
      <4>2. <<a, j, Nil>> \in tabs'.acked BY <1>11
      <4> QED BY <1>17, <4>1, <4>2 DEF UnsettledStmts
    <3>2. \A j \in 1..2 \ R : \A g \in Handles \cup {Nil} : <<a, j, g>> \in tabs'.acked <=> <<a, j, g>> \in tabs.acked
      BY <1>11
    <3>3. \A j \in 1..2 \ R : j \in UnsettledStmts(a)' <=> j \in UnsettledStmts(a)
      BY <1>6, <1>9, <1>17, <3>2 DEF UnsettledStmts
    <3>4. UnsettledStmts(a) \subseteq 1..2 /\ UnsettledStmts(a)' \subseteq 1..2 BY Spaces DEF UnsettledStmts
    <3> QED BY <3>1, <3>3, <3>4
  <2>2. ASSUME NEW c \in Actions \ {a} PROVE UnsettledStmts(c)' = UnsettledStmts(c)
    <3>1. \A j : \A g \in Handles \cup {Nil} : <<c, j, g>> \in tabs'.acked <=> <<c, j, g>> \in tabs.acked BY <1>11
    <3> QED BY <1>9, <3>1 DEF UnsettledStmts
  <2>3. signal # 0 => signal \in Actions BY DEF RInv, RTypeOK
  <2>4. \A c \in Actions : UnsettledStmts(c)' = UnsettledStmts(c) BY <2>1, <2>2
  <2> QED BY <1>2, <1>17, <2>3, <2>4 DEF RInv, SignalInv, SignalIsNewestRun
<1>24. HoldInv'
  <2>1. \A c \in Actions : Running(c) \/ Finished(c) => Running(c)' \/ Finished(c)'
    BY <1>14, <1>15, SMTT(30) DEF Running
  <2>2. ASSUME NEW h \in Handles, Claimed(h) PROVE Claimed(h)'
    <3>1. h[1] \in Actions BY Spaces
    <3> QED BY <1>1, <1>2, <1>9, <1>11, <2>2, <3>1 DEF Claimed
  <2>3. ui.pc = "syncExec" => UNCHANGED ui BY <1>2
  <2> QED BY <1>1, <1>9, <1>15, <2>1, <2>2, <2>3, HoldRole DEF RInv
<1>25. CancelInv' BY <1>1, <1>2, <1>14, <1>17 DEF RInv, CancelInv
<1> QED BY <1>13, <1>14, <1>16, <1>19, <1>21, <1>22, <1>23, <1>24, <1>25 DEF RInv

LEMMA NextKeeps == RInv /\ NextStatement => RInv'
BY MovesOn, EndsKeeps

-----------------------------------------
(* Steps beside the launcher. *)

\* Done closes once every stream of the action has ended.
LEMMA DrainedKeeps ==
    ASSUME RInv, NEW a \in Actions, Drained(a)
    PROVE  RInv'
<1>1. /\ act[a].draining /\ act \in [Actions -> ActRecs] /\ act[a] \in ActRecs
      /\ act' = [act EXCEPT ![a] = [act[a] EXCEPT !.draining = FALSE, !.done = TRUE]]
      /\ \A i \in Stmts(act[a].kind) : ~Live(<<a, i>>)
      /\ UNCHANGED <<binding, generation, last, queue, launching, run, sess, enq, canc,
                     tabs, signal, ui, retirer, events, stray>>
  BY DEF Drained, RInv, RTypeOK
<1>2. /\ act' \in [Actions -> ActRecs]
      /\ act'[a].done /\ \A c \in Actions \ {a} : act'[c] = act[c]
      /\ \A c \in Actions : /\ act'[c].kind = act[c].kind /\ act'[c].wire = act[c].wire
                            /\ act'[c].acks = act[c].acks /\ act'[c].binding = act[c].binding
                            /\ act'[c].result = act[c].result /\ (act[c].done => act'[c].done)
  <2>1. [act[a] EXCEPT !.draining = FALSE, !.done = TRUE] \in ActRecs BY <1>1, ActionTypes, Zenon
  <2> QED BY <1>1, <2>1 DEF ActRecs
<1>3. RTypeOK' BY <1>1, <1>2 DEF RInv, RTypeOK
<1>4. /\ \A c \in Actions : /\ Async(c)' = Async(c) /\ Finished(c)' = Finished(c) /\ Fresh(c)' = Fresh(c)
                            /\ \A i \in 1..2 : Told(c, i)' = Told(c, i)
      /\ NextAction' = NextAction /\ ActsInv'
  <2>1. NextAction' = NextAction /\ ActsInv' BY <1>2, NextSame DEF RInv
  <2>2. \A c \in Actions : Finished(c)' = Finished(c) BY <1>1, <1>2 DEF Finished
  <2> QED BY <1>2, <2>1, <2>2 DEF Async, Fresh, Told
<1>5. \A c \in Actions : /\ Queued(c)' = Queued(c) /\ Enqueuing(c)' = Enqueuing(c) /\ Running(c)' = Running(c)
  BY <1>1 DEF Queued, Enqueuing, Running
<1>6. UiInv'
  <2>1. enq # Nil => enq.a \in Actions BY DEF RInv, RTypeOK, Requests, Opt
  <2>2. ui.pc = "syncLock" \/ ui.pc = "syncExec" => ui.a \in Actions BY DEF RInv, UiInv
  <2> QED BY <1>1, <1>2, <1>4, <2>1, <2>2 DEF RInv, UiInv
<1>7. PlaceInv' BY <1>1, <1>2, <1>4, <1>5 DEF RInv, PlaceInv
<1>8. RunInv'
  <2>1. run.pc # "idle" => run.a \in Actions BY DEF RInv, RunInv
  <2> QED BY <1>1, <1>2, <1>4, <2>1 DEF RInv, RunInv
<1>9. AckInv'
  <2>1. /\ \A k \in tabs.acked : k[1] \in Actions /\ k[2] \in 1..2
        /\ \A h \in tabs.open : h[1] \in Actions /\ h[2] \in 1..2
    BY Spaces DEF RInv, RTypeOK
  <2> QED BY <1>1, <1>2, <1>4, <2>1, Spaces DEF RInv, AckInv
<1>10. \A h \in Handles : Executed(h) => Executed(h)' BY <1>1, <1>2, <1>4, Spaces DEF Executed
<1>11. LastInv'
  <2>1. last # Nil => last.root \in Actions /\ (last.h # Nil => last.h \in Handles) BY DEF RInv, RTypeOK, Slots, Opt
  <2> QED BY <1>1, <1>2, <1>4, <1>10, <2>1 DEF RInv, LastInv
<1>12. QuitInv'
  <2>1. ui.a # 0 => ui.a \in Actions /\ <<ui.a, 1>> \in Handles BY Spaces DEF RInv, RTypeOK, UiRecs
  <2>2. \A h \in Handles : Live(h)' = Live(h) BY <1>1 DEF Live, HeldBy
  <2> QED BY <1>1, <1>2, <1>4, <1>10, <2>1, <2>2 DEF RInv, QuitInv
<1>13. NoStrayCancel' BY <1>1, <1>2 DEF RInv, RTypeOK, NoStrayCancel
<1>14. SignalInv'
  <2>1. \A c \in Actions : UnsettledStmts(c)' = UnsettledStmts(c) BY <1>1, <1>2, ZenonT(40) DEF UnsettledStmts
  <2>2. signal # 0 => signal \in Actions BY DEF RInv, RTypeOK
  <2> QED BY <1>1, <1>2, <2>1, <2>2 DEF RInv, SignalInv, SignalIsNewestRun
<1>15. HoldInv'
  <2> SUFFICES ASSUME NEW b \in Sessions
               PROVE  HoldInv!(b)'
    BY DEF HoldInv
  <2>1. HoldInv!(b) BY DEF RInv, HoldInv
  <2>2. sess[b].h # Nil => sess[b].h \in Handles /\ sess[b].h[1] \in Actions BY Spaces DEF RInv, RTypeOK, SessRecs, Opt
  <2>3. ASSUME sess[b].st = "live" PROVE sess[b].h[1] # a
    <3>1. sess[b].h # Nil /\ sess[b].h \in Handles /\ sess[b].h[2] \in Stmts(act[sess[b].h[1]].kind)
      BY <2>1, <2>3, Spaces
    <3>2. Live(sess[b].h) BY <2>3 DEF Live, HeldBy
    <3>3. sess[b].h[1] = a => sess[b].h = <<a, sess[b].h[2]>> /\ sess[b].h[2] \in Stmts(act[a].kind) BY <3>1, Spaces
    <3> QED BY <1>1, <3>2, <3>3
  <2>4. ASSUME sess[b].h # Nil, Claimed(sess[b].h) PROVE Claimed(sess[b].h)' BY <1>1, <1>2, <2>2, <2>4 DEF Claimed
  <2>5. sess[b].st = "live" => sess[b].h # Nil BY <2>1, Spaces
  <2> QED BY <1>1, <1>2, <1>4, <1>5, <2>1, <2>2, <2>3, <2>4, <2>5
<1>16. CancelInv' BY <1>1, <1>2, <1>4, <1>5 DEF RInv, CancelInv
<1> QED BY <1>3, <1>4, <1>6, <1>7, <1>8, <1>9, <1>11, <1>12, <1>13, <1>14, <1>15, <1>16 DEF RInv

LEMMA CancelNavigationKeeps ==
    ASSUME RInv, NEW a \in Actions, CancelNavigation(a)
    PROVE  RInv'
<1>1. act' = [act EXCEPT ![a] = [act[a] EXCEPT !.nav = TRUE]] /\ act \in [Actions -> ActRecs]
      /\ [act[a] EXCEPT !.nav = TRUE] \in ActRecs
  BY ActionTypes, Zenon DEF CancelNavigation, RInv, RTypeOK
<1>2. act' \in [Actions -> ActRecs] BY <1>1
<1>3. CoreSame BY <1>1 DEF CoreSame, ActRecs
<1>4. RTypeOK' BY <1>2 DEF CancelNavigation, RInv, RTypeOK
<1> QED BY <1>3, <1>4, CoreKeeps DEF CancelNavigation

LEMMA StreamEndsKeeps ==
    ASSUME RInv, NEW b \in Sessions, StreamEnds(b)
    PROVE  RInv'
<1>1. /\ sess[b].st = "live" /\ sess[b].h \in tabs.open /\ sess' = [sess EXCEPT ![b] = FreedSess(sess[b])]
      /\ sess \in [Sessions -> SessRecs]
  BY DEF StreamEnds, Streaming, RInv, RTypeOK
<1>2. FreedSess(sess[b]) \in SessRecs /\ FreedSess(sess[b]).st = "free" /\ FreedSess(sess[b]).h = Nil BY <1>1, FreedType
<1>3. sess' \in [Sessions -> SessRecs] /\ SessShrinks
      /\ \A c \in Sessions : sess'[c].st # sess[c].st => sess[c].h \in tabs.open
  BY <1>1, <1>2 DEF SessShrinks
<1>4. RTypeOK' /\ CoreSame BY <1>3 DEF StreamEnds, RInv, RTypeOK, CoreSame
<1> QED BY <1>3, <1>4, StreamsEnd DEF StreamEnds

\* Closing a session interrupts what runs on it.
LEMMA ClosedSess ==
    ASSUME NEW s \in SessRecs
    PROVE  LET c == [s EXCEPT !.closed = TRUE, !.hit = @ \/ s.st \in {"exec", "live"}]
           IN c \in SessRecs /\ c.st = s.st /\ c.h = s.h
<1>1. s.hit \in BOOLEAN /\ (s.st \in {"exec", "live"}) \in BOOLEAN BY DEF SessRecs
<1>2. PICK v \in BOOLEAN : v = (s.hit \/ s.st \in {"exec", "live"}) BY <1>1
<1>3. [s EXCEPT !.closed = TRUE, !.hit = v] \in SessRecs BY DEF SessRecs
<1>4. [s EXCEPT !.closed = TRUE, !.hit = @ \/ s.st \in {"exec", "live"}] = [s EXCEPT !.closed = TRUE, !.hit = v]
  BY <1>2 DEF SessRecs
<1> QED BY <1>3, <1>4 DEF SessRecs

LEMMA RetireKeeps ==
    ASSUME RInv, Retire
    PROVE  RInv'
<1> PICK b \in Sessions : b = binding BY DEF Retire, RInv, RTypeOK, BoundTo
<1> DEFINE c == [sess[b] EXCEPT !.closed = TRUE, !.hit = @ \/ sess[b].st \in {"exec", "live"}]
<1>1. sess \in [Sessions -> SessRecs] /\ sess' = [sess EXCEPT ![b] = c] BY DEF Retire, RInv, RTypeOK
<1>2. c \in SessRecs /\ c.st = sess[b].st /\ c.h = sess[b].h BY <1>1, ClosedSess, Zenon
<1> HIDE DEF c
<1>3. sess' \in [Sessions -> SessRecs] /\ \A d \in Sessions : sess'[d].st = sess[d].st /\ sess'[d].h = sess[d].h
  BY <1>1, <1>2
<1>4. RTypeOK' /\ CoreSame /\ SessShrinks BY <1>3 DEF Retire, RInv, RTypeOK, CoreSame, SessShrinks
<1> QED BY <1>3, <1>4, StreamsEnd DEF Retire

LEMMA StopKeeps ==
    ASSUME RInv, Stop
    PROVE  RInv'
<1>1. ui.pc = "stopping" /\ sess \in [Sessions -> SessRecs] /\ ui \in UiRecs
      /\ enq = Nil /\ canc[UI] = Nil /\ ui' = [ui EXCEPT !.pc = "stopped"]
  BY Zenon DEF Stop, RInv, RTypeOK, UiInv, CancelInv
<1>2. \A b \in Sessions : sess'[b] = IF b = binding THEN
                  [sess[b] EXCEPT !.closed = TRUE, !.hit = @ \/ sess[b].st \in {"exec", "live"}]
                  ELSE sess[b]
  BY Zenon DEF Stop
<1>3. ASSUME NEW b \in Sessions
      PROVE  sess'[b] \in SessRecs /\ sess'[b].st = sess[b].st /\ sess'[b].h = sess[b].h
  <2>1. CASE b # binding BY <1>1, <1>2, <2>1, Zenon
  <2>2. CASE b = binding
    <3> PICK s \in SessRecs : s = sess[b] BY <1>1
    <3> DEFINE c == [s EXCEPT !.closed = TRUE, !.hit = @ \/ s.st \in {"exec", "live"}]
    <3>1. c \in SessRecs /\ c.st = s.st /\ c.h = s.h BY ClosedSess, Zenon
    <3>2. sess'[b] = c BY <1>2, <2>2, Zenon
    <3> HIDE DEF c
    <3> QED BY <3>1, <3>2
  <2> QED BY <2>1, <2>2
<1>4. sess' \in [Sessions -> SessRecs] BY <1>3, Zenon DEF Stop
<1>5. ui' \in UiRecs /\ ui'.pc = "stopped" BY <1>1 DEF UiRecs
<1>6. RTypeOK' BY <1>4, <1>5, Zenon DEF Stop, RInv, RTypeOK
<1>7. QuitInv' BY <1>5 DEF QuitInv
<1> QED BY <1>1, <1>3, <1>5, <1>6, <1>7, UiMoves, Zenon DEF Stop, SyncPcs

\* A step of the goroutines that cancel: nothing moves but cancels and contexts.
LEMMA OnlyCancels ==
    ASSUME RInv, RTypeOK', CoreSame, LastInv', CancelInv',
           \A a \in Actions : /\ canc'[Disposer(a)] = Nil <=> canc[Disposer(a)] = Nil
                              /\ canc'[WireCancel(a)] # Nil => canc[WireCancel(a)] # Nil,
           UNCHANGED <<queue, run, sess, enq, tabs, signal, ui, stray>>
    PROVE  RInv'
<1>1. RunStays /\ SessShrinks BY DEF RunStays, SessShrinks
<1>2. ActsInv' /\ PlaceInv' /\ NoStrayCancel' /\ SignalInv' /\ UiInv' /\ AckInv' /\ RunInv'
  BY <1>1, CoreFacts, PlaceFrame, StrayFrame, SignalFrame, UiFrame, AckFrame, RunFrame DEF RInv
<1>3. QuitInv' BY <1>1, ExecutedFrame, QuitFrame DEF RInv
<1>4. \A h \in Handles : Claimed(h) => Claimed(h)'
  <2> SUFFICES ASSUME NEW h \in Handles, Claimed(h) PROVE Claimed(h)' OBVIOUS
  <2>1. h[1] \in Actions BY Spaces
  <2> QED BY <2>1 DEF Claimed, CoreSame
<1>5. HoldInv' BY <1>1, <1>4, HoldFrame DEF RInv
<1> QED BY <1>2, <1>3, <1>5 DEF RInv

\* A cancel that goes on reaches no further than before.
LEMMA CancelGoes ==
    ASSUME RInv, CoreSame, UNCHANGED <<run, sess, ui>>,
           NEW t \in Threads, canc[t] # Nil, NEW c \in Opt(Cancels), canc' = [canc EXCEPT ![t] = c],
           c # Nil => /\ c.upto = canc[t].upto
                      /\ c.st = "hit" => c.b \in Sessions
                      /\ t \notin {UI, Retirer} => c.st \in {"check", "hit"} /\ c.h = canc[t].h
                      /\ c.st \in {"cas", "abandon"} => c.root # Nil
                      /\ c.st = "hit" /\ c.h # Nil => sess[c.b].st = "live" /\ sess[c.b].h = c.h
    PROVE  CancelInv'
<1>1. /\ canc'[t] = c /\ \A u \in Threads \ {t} : canc'[u] = canc[u]
      /\ CancelInv
  BY DEF RInv, RTypeOK
<1>2. \A a \in Actions : /\ (Async(a)' <=> Async(a)) /\ (Running(a)' <=> Running(a))
                         /\ act'[a].wire = act[a].wire
  BY CoreFacts DEF RInv, CoreSame, Running
<1>3. ASSUME NEW u \in Threads, canc'[u] # Nil
      PROVE  /\ canc'[u].st = "hit" => canc'[u].b \in Sessions
             /\ u \notin {UI, Retirer} => canc'[u].st \in {"check", "hit"}
             /\ canc'[u].st \in {"cas", "abandon"} => canc'[u].root # Nil
  BY <1>1, <1>3 DEF CancelInv
<1>4. \A u \in Threads : canc'[u] # Nil => canc[u] # Nil /\ canc'[u].upto = canc[u].upto BY <1>1
<1>5. ASSUME NEW a \in Actions, canc'[Disposer(a)] # Nil
      PROVE  /\ canc'[Disposer(a)].upto = a /\ canc'[Disposer(a)].h = <<a, 1>>
             /\ canc'[Disposer(a)].st = "hit" =>
                    /\ sess'[canc'[Disposer(a)].b].st = "live"
                    /\ sess'[canc'[Disposer(a)].b].h = <<a, 1>>
  <2>1. Disposer(a) \in Threads /\ Disposer(a) \notin {UI, Retirer} BY ThreadFacts
  <2>2. canc[Disposer(a)].upto = a /\ canc[Disposer(a)].h = <<a, 1>> /\ canc[Disposer(a)] # Nil
    BY <1>1, <1>4, <1>5, <2>1 DEF CancelInv
  <2>3. <<a, 1>> # Nil BY Spaces
  <2>4. CASE t = Disposer(a) BY <1>1, <1>5, <2>1, <2>2, <2>3, <2>4
  <2>5. CASE t # Disposer(a) BY <1>1, <1>5, <2>1, <2>2, <2>5 DEF CancelInv
  <2> QED BY <2>4, <2>5
<1>6. ASSUME NEW a \in Actions
      PROVE  /\ canc'[WireCancel(a)] # Nil => ~act'[a].wire /\ canc'[WireCancel(a)].upto = a - 1 /\ Async(a)'
             /\ canc'[NavWatch(a)] # Nil => Running(a)' /\ run'.pc \in {"lock", "exec", "return"}
                                            /\ canc'[NavWatch(a)].upto = a
  BY <1>1, <1>2, <1>4, ThreadFacts DEF CancelInv
<1>7. /\ canc'[UI] # Nil => /\ ui'.pc \in {"cancel", "syncCancel", "syncHook", "quitWait", "sweep"}
                            /\ \A a \in Actions : Async(a)' => a <= canc'[UI].upto
      /\ canc'[Retirer] # Nil => canc'[Retirer].upto = MaxActions
      /\ canc'[Launcher] # Nil => run'.pc = "hook" /\ canc'[Launcher].upto = run'.a
  BY <1>1, <1>2, <1>4, ThreadFacts DEF CancelInv
<1> QED BY <1>3, <1>5, <1>6, <1>7 DEF CancelInv

\* A step of a cancel that is not its last.
LEMMA CancelStep ==
    ASSUME RInv, CoreSame, act' \in [Actions -> ActRecs], last' \in Opt(Slots), LastInv',
           NEW t \in Threads, canc[t] # Nil, NEW c \in Opt(Cancels), canc' = [canc EXCEPT ![t] = c],
           c # Nil => /\ c.upto = canc[t].upto
                      /\ c.st = "hit" => c.b \in Sessions
                      /\ t \notin {UI, Retirer} => c.st \in {"check", "hit"} /\ c.h = canc[t].h
                      /\ c.st \in {"cas", "abandon"} => c.root # Nil
                      /\ c.st = "hit" /\ c.h # Nil => sess[c.b].st = "live" /\ sess[c.b].h = c.h,
           c = Nil => t \in {UI, Retirer},
           UNCHANGED <<binding, generation, queue, launching, run, sess, enq, tabs, signal, ui, retirer, stray>>
    PROVE  RInv'
<1>1. CancelInv' BY CancelGoes
<1>2. canc' \in [Threads -> Opt(Cancels)] /\ canc'[t] = c /\ \A u \in Threads \ {t} : canc'[u] = canc[u]
  BY DEF RInv, RTypeOK
<1>3. RTypeOK' BY <1>2 DEF RInv, RTypeOK
<1>4. \A a \in Actions : /\ canc'[Disposer(a)] = Nil <=> canc[Disposer(a)] = Nil
                         /\ canc'[WireCancel(a)] # Nil => canc[WireCancel(a)] # Nil
  <2> SUFFICES ASSUME NEW a \in Actions
               PROVE  /\ canc'[Disposer(a)] = Nil <=> canc[Disposer(a)] = Nil
                      /\ canc'[WireCancel(a)] # Nil => canc[WireCancel(a)] # Nil
    OBVIOUS
  <2>1. Disposer(a) \in Threads /\ Disposer(a) \notin {UI, Retirer} /\ WireCancel(a) \in Threads BY ThreadFacts
  <2> QED BY <1>2, <2>1
<1> QED BY <1>1, <1>3, <1>4, OnlyCancels

LEMMA CancelLoadKeeps ==
    ASSUME RInv, NEW t \in Threads, CancelLoad(t)
    PROVE  RInv'
<1> PICK k \in Cancels : k = canc[t] BY DEF CancelLoad, RInv, RTypeOK, Opt
<1> PICK s \in Opt(Slots) : s = last BY DEF RInv, RTypeOK
<1> PICK r \in Opt(Actions) : r = PendingRoot(s) BY RootTypes
<1>1. /\ canc[t] # Nil /\ k.st = "load" /\ k.upto \in 0..MaxActions
      /\ canc' = [canc EXCEPT ![t] = IF r = Nil THEN AfterSlot(k, s) ELSE [k EXCEPT !.st = "cas", !.root = r]]
      /\ UNCHANGED <<binding, generation, last, act, queue, launching, run, sess, enq,
                     tabs, signal, ui, retirer, events, stray>>
  BY DEF CancelLoad, Cancels
<1>2. t \in {UI, Retirer} BY <1>1 DEF RInv, CancelInv
<1>3. CoreSame /\ LastInv' /\ act' \in [Actions -> ActRecs] /\ last' \in Opt(Slots)
  <2>1. CoreSame BY <1>1 DEF CoreSame
  <2> QED BY <1>1, <2>1, ExecutedFrame, LastFrame DEF RInv, RTypeOK
<1>4. CASE r # Nil
  <2>1. [k EXCEPT !.st = "cas", !.root = r] \in Opt(Cancels) BY DEF Cancels, Opt
  <2>2. PICK c \in Opt(Cancels) : c = [k EXCEPT !.st = "cas", !.root = r] BY <2>1
  <2>3. c.st = "cas" /\ c.root = r /\ c.upto = k.upto BY <2>2 DEF Cancels
  <2>4. canc' = [canc EXCEPT ![t] = c] BY <1>1, <1>4, <2>2
  <2>5. c # Nil BY <2>2, Spaces, ZenonT(40) DEF Cancels, Opt
  <2> QED BY <1>1, <1>2, <1>3, <1>4, <2>3, <2>4, <2>5, CancelStep
<1>5. CASE r = Nil
  <2>1. AfterSlot(k, s) \in Opt(Cancels) BY RootTypes
  <2>2. PICK c \in Opt(Cancels) : c = AfterSlot(k, s) BY <2>1
  <2>3. c # Nil => c.st = "check" /\ c.upto = k.upto BY <2>2 DEF AfterSlot, CancelHandle
  <2>4. canc' = [canc EXCEPT ![t] = c] BY <1>1, <1>5, <2>2
  <2> QED BY <1>1, <1>2, <1>3, <2>3, <2>4, CancelStep
<1> QED BY <1>4, <1>5

LEMMA CancelCasKeeps ==
    ASSUME RInv, NEW t \in Threads, CancelCas(t)
    PROVE  RInv'
<1> PICK k \in Cancels : k = canc[t] BY DEF CancelCas, RInv, RTypeOK, Opt
<1> PICK s \in Opt(Slots) : s = last BY DEF RInv, RTypeOK
<1> DEFINE mine == s # Nil /\ s.root = k.root
           win == mine /\ PendingRoot(s) # Nil
<1>1. /\ canc[t] # Nil /\ k.st = "cas"
      /\ last' = IF win THEN Nil ELSE s
      /\ canc' = [canc EXCEPT ![t] = IF win THEN [k EXCEPT !.st = "abandon"]
                                     ELSE IF mine THEN AfterSlot(k, s) ELSE Nil]
      /\ UNCHANGED <<binding, generation, act, queue, launching, run, sess, enq,
                     tabs, signal, ui, retirer, events, stray>>
  BY DEF CancelCas
<1> HIDE DEF mine, win
<1>2. t \in {UI, Retirer} /\ k.root # Nil BY <1>1 DEF RInv, CancelInv
<1>3. CoreSame /\ LastInv' /\ act' \in [Actions -> ActRecs] /\ last' \in Opt(Slots)
  <2>1. CoreSame BY <1>1 DEF CoreSame
  <2>2. CASE last' = last BY <1>1, <2>1, <2>2, ExecutedFrame, LastFrame DEF RInv, RTypeOK
  <2>3. CASE last' = Nil BY <1>1, <2>1, <2>3 DEF LastInv, Opt, RInv, RTypeOK
  <2> QED BY <1>1, <2>2, <2>3
<1>4. [k EXCEPT !.st = "abandon"] \in Cancels /\ [k EXCEPT !.st = "abandon"].root = k.root
      /\ [k EXCEPT !.st = "abandon"].upto = k.upto /\ [k EXCEPT !.st = "abandon"].st = "abandon"
  BY DEF Cancels
<1>5. AfterSlot(k, s) \in Opt(Cancels)
      /\ (AfterSlot(k, s) # Nil => AfterSlot(k, s).st = "check" /\ AfterSlot(k, s).upto = k.upto)
  BY RootTypes DEF AfterSlot, CancelHandle
<1>6. PICK c \in Opt(Cancels) : c = IF win THEN [k EXCEPT !.st = "abandon"]
                                    ELSE IF mine THEN AfterSlot(k, s) ELSE Nil
  BY <1>4, <1>5 DEF Opt
<1>7. c # Nil => c.upto = k.upto /\ c.st \in {"abandon", "check"} /\ (c.st = "abandon" => c.root = k.root)
  BY <1>4, <1>5, <1>6
<1>8. canc' = [canc EXCEPT ![t] = c] BY <1>1, <1>6
<1> QED BY <1>1, <1>2, <1>3, <1>7, <1>8, CancelStep

LEMMA CancelAbandonKeeps ==
    ASSUME RInv, NEW t \in Threads, CancelAbandon(t)
    PROVE  RInv'
<1> PICK k \in Cancels : k = canc[t] BY DEF CancelAbandon, RInv, RTypeOK, Opt
<1>1. t \in {UI, Retirer} /\ k.root \in Actions /\ k.st = "abandon" /\ canc[t] # Nil
      /\ k.upto \in 0..MaxActions
  BY DEF CancelAbandon, RInv, CancelInv, Cancels
<1> PICK r \in Actions : r = k.root BY <1>1
<1>2. /\ act' = [act EXCEPT ![r].abandoned = TRUE, ![r].ctx = TRUE]
      /\ canc' = [canc EXCEPT ![t] = CancelCurrent(act[r].binding, k.upto)]
      /\ UNCHANGED <<binding, generation, last, queue, launching, run, sess, enq,
                     tabs, signal, ui, retirer, events, stray>>
      /\ act \in [Actions -> ActRecs] /\ act[r].binding \in BoundTo
  BY <1>1 DEF CancelAbandon, RInv, RTypeOK, ActRecs
<1>3. act' = [act EXCEPT ![r] = [act[r] EXCEPT !.abandoned = TRUE, !.ctx = TRUE]] BY <1>2 DEF ActRecs
<1>4. act' \in [Actions -> ActRecs] /\ CoreSame
  <2>1. [act[r] EXCEPT !.abandoned = TRUE, !.ctx = TRUE] \in ActRecs BY <1>2, ActionTypes, Zenon
  <2>2. act' \in [Actions -> ActRecs] BY <1>2, <1>3, <2>1
  <2>3. \A a \in Actions : a # r => act'[a] = act[a] BY <1>2, <1>3
  <2>4. act'[r] = [act[r] EXCEPT !.abandoned = TRUE, !.ctx = TRUE] /\ act[r] \in ActRecs BY <1>2, <1>3
  <2>5. ASSUME NEW a \in Actions
        PROVE  /\ act'[a].kind = act[a].kind /\ act'[a].wire = act[a].wire
               /\ act'[a].binding = act[a].binding /\ act'[a].acks = act[a].acks
               /\ act'[a].draining = act[a].draining /\ act'[a].done = act[a].done
               /\ act'[a].result = act[a].result
    <3>1. CASE a = r BY <2>4, <3>1 DEF ActRecs
    <3>2. CASE a # r BY <2>3, <3>2
    <3> QED BY <3>1, <3>2
  <2> QED BY <2>2, <2>5 DEF CoreSame
<1>5. LastInv' /\ last' \in Opt(Slots) BY <1>2, <1>4, ExecutedFrame, LastFrame DEF RInv, RTypeOK
<1>6. PICK c \in Opt(Cancels) : c = CancelCurrent(act[r].binding, k.upto) BY <1>1, <1>2, CancelTypes DEF Opt
<1>7. c.st = "check" /\ c.upto = k.upto BY <1>6 DEF CancelCurrent
<1>8. canc' = [canc EXCEPT ![t] = c] /\ c # Nil BY <1>1, <1>2, <1>6, CancelTypes, Spaces
<1> QED BY <1>1, <1>2, <1>4, <1>5, <1>7, <1>8, CancelStep

\* A cancel is over: its thread closes the rows or says that the wire is free.
LEMMA ReturnedKeeps ==
    ASSUME RInv, NEW t \in Threads, canc[t] # Nil, NEW ss \in [Sessions -> SessRecs],
           \A b \in Sessions : ss[b].st = sess[b].st /\ ss[b].h = sess[b].h,
           Returned(t, canc, ss, act), stray' \in SUBSET Actions, NoStrayCancel',
           UNCHANGED <<binding, generation, last, queue, launching, run, enq, tabs, signal, ui, retirer>>
    PROVE  RInv'
<1>1. /\ canc \in [Threads -> Opt(Cancels)] /\ act \in [Actions -> ActRecs]
      /\ sess \in [Sessions -> SessRecs]
  BY DEF RInv, RTypeOK
<1>2. /\ canc' \in [Threads -> Opt(Cancels)] /\ canc' = [canc EXCEPT ![t] = Nil]
      /\ sess' \in [Sessions -> SessRecs]
      /\ \A b \in Sessions :
           \/ sess'[b] = ss[b]
           \/ /\ \E a \in Actions : t = Disposer(a) /\ ss[b].h = <<a, 1>>
              /\ ss[b].st = "live" /\ sess'[b] = FreedSess(ss[b])
      /\ act' \in [Actions -> ActRecs]
      /\ \A a \in Actions : act'[a] = IF t = WireCancel(a) THEN [act[a] EXCEPT !.wire = TRUE] ELSE act[a]
  BY <1>1, ReturnedFacts
<1>3. RTypeOK' BY <1>2 DEF RInv, RTypeOK
<1>4. \A u \in Threads : canc'[u] = IF u = t THEN Nil ELSE canc[u] BY <1>1, <1>2
<1>5. ASSUME NEW a \in Actions
      PROVE  /\ act'[a].kind = act[a].kind /\ act'[a].binding = act[a].binding
             /\ act'[a].acks = act[a].acks /\ act'[a].draining = act[a].draining
             /\ act'[a].done = act[a].done /\ act'[a].result = act[a].result
             /\ act'[a].wire = act[a].wire \/ (act'[a].wire /\ t = WireCancel(a))
             /\ act[a].wire => act'[a].wire
  <2>1. act[a] \in ActRecs BY <1>1
  <2>2. CASE t = WireCancel(a) BY <1>2, <2>1, <2>2, ZenonT(40) DEF ActRecs
  <2>3. CASE t # WireCancel(a) BY <1>2, <2>3
  <2> QED BY <2>2, <2>3
<1>6. \A a \in Actions : t = WireCancel(a) => Async(a) /\ ~Enqueuing(a) BY DEF RInv, CancelInv, UiInv, Enqueuing
<1>7. \A b \in Sessions : FreedSess(ss[b]).st = "free" /\ FreedSess(ss[b]).h = Nil BY FreedType
<1>8. SessShrinks BY <1>2, <1>7 DEF SessShrinks
<1>9. /\ \A a \in Actions : /\ Async(a)' = Async(a) /\ Finished(a)' = Finished(a) /\ Fresh(a)' = Fresh(a)
                            /\ \A i \in 1..2 : Told(a, i)' = Told(a, i)
      /\ NextAction' = NextAction /\ ActsInv'
  <2>1. NextAction' = NextAction /\ ActsInv' BY <1>5, NextSame DEF RInv
  <2> QED BY <1>5, <2>1 DEF Async, Finished, Fresh, Told
<1>10. \A c \in Actions : /\ Queued(c)' = Queued(c) /\ Enqueuing(c)' = Enqueuing(c) /\ Running(c)' = Running(c)
  BY DEF Queued, Enqueuing, Running
<1>11. UiInv'
  <2>1. enq # Nil => enq.a \in Actions /\ Enqueuing(enq.a) BY DEF RInv, RTypeOK, Requests, Opt, Enqueuing
  <2>2. ui.pc = "syncLock" \/ ui.pc = "syncExec" => ui.a \in Actions BY DEF RInv, UiInv
  <2>3. enq # Nil => ~act'[enq.a].wire /\ canc'[WireCancel(enq.a)] = Nil
    BY <1>4, <1>5, <1>6, <2>1, ThreadFacts DEF RInv, UiInv
  <2> QED BY <1>5, <1>9, <2>1, <2>2, <2>3 DEF RInv, UiInv
<1>12. PlaceInv'
  <2>1. \A a \in Actions : ~Async(a) => act'[a].wire = act[a].wire BY <1>5, <1>6
  <2> QED BY <1>9, <1>10, <2>1 DEF RInv, PlaceInv
<1>13. RunInv'
  <2>1. run.pc # "idle" => run.a \in Actions BY DEF RInv, RunInv
  <2>2. run.pc = "exec" => run.b \in Sessions /\ sess'[run.b].st = sess[run.b].st
                           /\ sess'[run.b].h = sess[run.b].h
    BY <1>8 DEF RInv, RunInv, SessShrinks
  <2> QED BY <1>5, <1>9, <2>1, <2>2 DEF RInv, RunInv
<1>14. AckInv'
  <2>1. /\ \A k \in tabs.acked : k[1] \in Actions /\ k[2] \in 1..2
        /\ \A h \in tabs.open : h[1] \in Actions /\ h[2] \in 1..2
    BY Spaces DEF RInv, RTypeOK
  <2>2. \A a \in Actions : canc'[Disposer(a)] # Nil => canc[Disposer(a)] # Nil BY <1>4, ThreadFacts
  <2> QED BY <1>5, <1>9, <2>1, <2>2, Spaces DEF RInv, AckInv
<1>15. \A h \in Handles : Executed(h) => Executed(h)' BY <1>5, <1>9, Spaces DEF Executed
<1>16. LastInv'
  <2>1. last # Nil => last.root \in Actions /\ (last.h # Nil => last.h \in Handles) BY DEF RInv, RTypeOK, Slots, Opt
  <2> QED BY <1>5, <1>9, <1>15, <2>1 DEF RInv, LastInv
<1>17. QuitInv'
  <2>1. ui.a # 0 => ui.a \in Actions /\ <<ui.a, 1>> \in Handles BY Spaces DEF RInv, RTypeOK, UiRecs
  <2>2. \A h \in Handles : Live(h)' => Live(h) BY <1>8, LiveShrinks
  <2> QED BY <1>5, <1>9, <1>15, <2>1, <2>2 DEF RInv, QuitInv
<1>18. SignalInv'
  <2>1. \A c \in Actions : UnsettledStmts(c)' = UnsettledStmts(c) BY <1>5 DEF UnsettledStmts
  <2>2. signal # 0 => signal \in Actions BY DEF RInv, RTypeOK
  <2> QED BY <1>5, <2>1, <2>2 DEF RInv, SignalInv, SignalIsNewestRun
<1>19. HoldInv'
  <2> SUFFICES ASSUME NEW b \in Sessions
               PROVE  HoldInv!(b)'
    BY DEF HoldInv
  <2>1. HoldInv!(b) BY DEF RInv, HoldInv
  <2>2. sess[b].h # Nil => sess[b].h \in Handles /\ sess[b].h[1] \in Actions BY <1>1, Spaces DEF SessRecs, Opt
  <2>3. CASE sess'[b].st = "free" /\ sess'[b].h = Nil BY <2>3
  <2>4. CASE sess'[b].st = sess[b].st /\ sess'[b].h = sess[b].h /\ ~(sess'[b].st = "free" /\ sess'[b].h = Nil)
    <3>1. ASSUME sess[b].h # Nil, sess[b].st = "live", Claimed(sess[b].h), act[sess[b].h[1]].kind # "sync"
          PROVE  Claimed(sess[b].h)'
      <4> PICK c \in Actions : c = sess[b].h[1] BY <2>2, <3>1
      <4>1. CASE canc[Disposer(c)] # Nil /\ t = Disposer(c)
        <5>1. act[c].kind = "bound" BY <4>1, DisposerSafe DEF RInv
        <5>2. sess[b].h = <<c, 1>> BY <2>1, <2>2, <3>1, <5>1, Spaces DEF Stmts
        <5>3. ss[b].st = "live" /\ ss[b].h = <<c, 1>> /\ Returned(Disposer(c), canc, ss, act) BY <3>1, <4>1, <5>2
        <5>4. sess'[b] = FreedSess(ss[b]) BY <5>3, ReturnedDisposes
        <5> QED BY <1>7, <2>4, <5>4
      <4>2. CASE ~(canc[Disposer(c)] # Nil /\ t = Disposer(c))
        <5>1. canc[Disposer(c)] # Nil => canc'[Disposer(c)] # Nil BY <1>4, <4>2, ThreadFacts
        <5> QED BY <1>5, <2>2, <2>4, <3>1, <5>1 DEF Claimed
      <4> QED BY <4>1, <4>2
    <3>2. sess[b].st = "live" => sess[b].h # Nil BY <2>1, Spaces
    <3> QED BY <1>5, <1>9, <1>10, <2>1, <2>2, <2>4, <3>1, <3>2
  <2> QED BY <1>8, <2>3, <2>4 DEF SessShrinks
<1>20. CancelInv'
  <2>1. ASSUME NEW a \in Actions, canc'[Disposer(a)] # Nil, canc'[Disposer(a)].st = "hit"
        PROVE  /\ sess'[canc[Disposer(a)].b].st = sess[canc[Disposer(a)].b].st
               /\ sess'[canc[Disposer(a)].b].h = sess[canc[Disposer(a)].b].h
    <3>1. Disposer(a) \in Threads /\ canc'[Disposer(a)] = canc[Disposer(a)] /\ t # Disposer(a)
      BY <1>4, <2>1, ThreadFacts
    <3>2. canc[Disposer(a)].b \in Sessions /\ sess[canc[Disposer(a)].b].h = <<a, 1>> BY <2>1, <3>1 DEF RInv, CancelInv
    <3>3. \A c \in Actions : t = Disposer(c) => ss[canc[Disposer(a)].b].h # <<c, 1>> BY <3>1, <3>2
    <3> QED BY <1>2, <3>2, <3>3
  <2>2. ASSUME NEW a \in Actions
        PROVE  /\ canc'[WireCancel(a)] # Nil => ~act'[a].wire
               /\ canc'[WireCancel(a)] \in {Nil, canc[WireCancel(a)]}
               /\ canc'[NavWatch(a)] \in {Nil, canc[NavWatch(a)]}
               /\ canc'[Disposer(a)] \in {Nil, canc[Disposer(a)]}
    <3>1. /\ canc'[WireCancel(a)] = IF WireCancel(a) = t THEN Nil ELSE canc[WireCancel(a)]
          /\ canc'[NavWatch(a)] = IF NavWatch(a) = t THEN Nil ELSE canc[NavWatch(a)]
          /\ canc'[Disposer(a)] = IF Disposer(a) = t THEN Nil ELSE canc[Disposer(a)]
      BY <1>4, ThreadFacts
    <3> QED BY <1>5, <3>1 DEF RInv, CancelInv
  <2>3. \A u \in {UI, Launcher, Retirer} : canc'[u] \in {Nil, canc[u]} BY <1>4, ThreadFacts
  <2>4. ASSUME NEW u \in Threads, canc'[u] # Nil
        PROVE  /\ canc'[u].st = "hit" => canc'[u].b \in Sessions
               /\ u \notin {UI, Retirer} => canc'[u].st \in {"check", "hit"}
               /\ canc'[u].st \in {"cas", "abandon"} => canc'[u].root # Nil
    BY <1>4, <2>4 DEF RInv, CancelInv
  <2>5. \A a \in Actions : canc'[Disposer(a)] # Nil =>
              /\ canc'[Disposer(a)].upto = a /\ canc'[Disposer(a)].h = <<a, 1>>
              /\ canc'[Disposer(a)].st = "hit" =>
                   /\ sess'[canc'[Disposer(a)].b].st = "live"
                   /\ sess'[canc'[Disposer(a)].b].h = <<a, 1>>
    BY <2>1, <2>2 DEF RInv, CancelInv
  <2>6. \A a \in Actions :
         /\ canc'[WireCancel(a)] # Nil => ~act'[a].wire /\ canc'[WireCancel(a)].upto = a - 1 /\ Async(a)'
         /\ canc'[NavWatch(a)] # Nil => Running(a)' /\ run'.pc \in {"lock", "exec", "return"}
                                        /\ canc'[NavWatch(a)].upto = a
    BY <1>9, <1>10, <2>2 DEF RInv, CancelInv
  <2>7. /\ canc'[UI] # Nil => /\ ui'.pc \in {"cancel", "syncCancel", "syncHook", "quitWait", "sweep"}
                              /\ \A a \in Actions : Async(a)' => a <= canc'[UI].upto
        /\ canc'[Retirer] # Nil => canc'[Retirer].upto = MaxActions
        /\ canc'[Launcher] # Nil => run'.pc = "hook" /\ canc'[Launcher].upto = run'.a
    BY <1>9, <2>3 DEF RInv, CancelInv
  <2> QED BY <2>4, <2>5, <2>6, <2>7 DEF CancelInv
<1> QED BY <1>3, <1>9, <1>11, <1>12, <1>13, <1>14, <1>16, <1>17, <1>18, <1>19, <1>20 DEF RInv

LEMMA CancelCheckKeeps ==
    ASSUME RInv, NEW t \in Threads, CancelCheck(t)
    PROVE  RInv'
<1> PICK k \in Cancels : k = canc[t] BY DEF CancelCheck, RInv, RTypeOK, Opt
<1>1. /\ canc[t] # Nil /\ k.st = "check" /\ sess \in [Sessions -> SessRecs]
      /\ UNCHANGED <<binding, generation, last, queue, launching, run, enq, tabs,
                     signal, ui, retirer, events, stray>>
  BY DEF CancelCheck, RInv, RTypeOK
<1>2. CASE InFlight(k) = {}
  <2>1. Returned(t, canc, sess, act) BY <1>2 DEF CancelCheck
  <2>3. stray' \in SUBSET Actions /\ NoStrayCancel'
    <3>1. \A a \in Actions : act'[a].kind = act[a].kind
      <4>1. \A a \in Actions : act'[a] = IF t = WireCancel(a) THEN [act[a] EXCEPT !.wire = TRUE] ELSE act[a]
        BY <2>1, ReturnedFacts, SMTT(30) DEF RInv, RTypeOK
      <4>2. act \in [Actions -> ActRecs] BY DEF RInv, RTypeOK
      <4> QED BY <4>1, <4>2 DEF ActRecs
    <3> QED BY <1>1, <3>1 DEF RInv, RTypeOK, NoStrayCancel
  <2> QED BY <1>1, <2>1, <2>3, ReturnedKeeps
<1>3. CASE InFlight(k) # {}
  <2>1. PICK b \in InFlight(k) : b = CHOOSE x \in InFlight(k) : TRUE BY <1>3
  <2>2. b \in Sessions /\ (k.h # Nil => sess[b].st = "live" /\ sess[b].h = k.h) BY DEF InFlight, HeldBy
  <2>3. /\ canc' = [canc EXCEPT ![t] = [k EXCEPT !.st = "hit", !.b = b]]
        /\ UNCHANGED <<sess, act>>
    BY <1>3, <2>1 DEF CancelCheck, RInv, RTypeOK, Cancels
  <2>4. [k EXCEPT !.st = "hit", !.b = b] \in Cancels BY <2>2 DEF Cancels
  <2>5. PICK c \in Opt(Cancels) : c = [k EXCEPT !.st = "hit", !.b = b] BY <2>4 DEF Opt
  <2>6. c.st = "hit" /\ c.b = b /\ c.upto = k.upto /\ c.h = k.h /\ c # Nil
    <3>1. c # Nil BY <2>4, <2>5, Spaces
    <3> QED BY <2>5, <3>1 DEF Cancels
  <2>7. CoreSame /\ LastInv' /\ act' \in [Actions -> ActRecs] /\ last' \in Opt(Slots)
    <3>1. CoreSame BY <2>3 DEF CoreSame
    <3> QED BY <1>1, <2>3, <3>1, ExecutedFrame, LastFrame DEF RInv, RTypeOK
  <2>8. canc' = [canc EXCEPT ![t] = c] BY <2>3, <2>5
  <2> QED BY <1>1, <2>2, <2>3, <2>6, <2>7, <2>8, CancelStep
<1> QED BY <1>2, <1>3

\* What a cancel interrupts is an action that it was meant for.
LEMMA HitsItsOwn ==
    ASSUME RInv, NEW t \in Threads, canc[t] # Nil, canc[t].st = "hit",
           sess[canc[t].b].st \in {"exec", "live"}
    PROVE  LET c == sess[canc[t].b].h[1]
           IN c \in Actions /\ (act[c].kind # "sync" => c <= canc[t].upto)
<1> PICK b \in Sessions : b = canc[t].b BY DEF RInv, CancelInv
<1>1. /\ sess[b].h \in Handles /\ sess[b].h[1] \in Actions /\ sess[b].h # Nil BY Spaces DEF RInv, HoldInv
<1> PICK c \in Actions : c = sess[b].h[1] BY <1>1
<1> SUFFICES ASSUME act[c].kind # "sync" PROVE c <= canc[t].upto OBVIOUS
<1>2. sess[b].st = "exec" => run.pc = "exec" /\ c = run.a BY <1>1, Spaces DEF RInv, HoldInv, UiInv
<1>3. Async(c) /\ (Running(c) \/ Finished(c)) /\ (run.pc # "idle" => c <= run.a)
  <2>1. CASE sess[b].st = "live" BY <2>1, StreamReached
  <2>2. CASE sess[b].st = "exec" BY <1>2, <2>2, Spaces DEF RInv, RunInv, Running
  <2> QED BY <2>1, <2>2
<1>4. CASE t \in {UI, Retirer} BY <1>3, <1>4, Spaces DEF RInv, CancelInv
<1>5. CASE t = Launcher BY <1>3, <1>5 DEF RInv, CancelInv
<1>6. ASSUME NEW a \in Actions, t = NavWatch(a) PROVE c <= canc[t].upto
  <2>1. Running(a) /\ canc[t].upto = a BY <1>6 DEF RInv, CancelInv
  <2> QED BY <1>3, <2>1 DEF Running
<1>7. ASSUME NEW a \in Actions, t = Disposer(a) PROVE c <= canc[t].upto
  <2>1. sess[b].h = <<a, 1>> /\ canc[t].upto = a BY <1>7 DEF RInv, CancelInv
  <2> QED BY <2>1, Spaces
<1>8. ASSUME NEW a \in Actions, t = WireCancel(a) PROVE c <= canc[t].upto
  <2>1. ~act[a].wire /\ canc[t].upto = a - 1 /\ Async(a) BY <1>8 DEF RInv, CancelInv
  <2>2. ~Finished(a) BY <2>1 DEF RInv, AckInv
  <2>3. ~(a < c) BY <1>3, <2>1, <2>2 DEF RInv, PlaceInv
  <2>4. ASSUME c = a PROVE FALSE
    <3>1. Running(a) /\ run.pc = "wait" /\ run.i = 1 BY <1>3, <2>1, <2>2, <2>4 DEF RInv, RunInv, Running
    <3>2. \A j \in 1..2 : Told(a, j) = 0 BY <3>1 DEF RInv, RunInv, Running
    <3>3. sess[b].st = "live" BY <1>2, <3>1
    <3>4. Claimed(sess[b].h) BY <1>1, <3>3 DEF RInv, HoldInv
    <3>5. sess[b].h[2] \in 1..2 BY <1>1, Spaces
    <3>6. <<sess[b].h[1], sess[b].h[2], sess[b].h>> \notin tabs.acked BY <2>4, <3>2, <3>5 DEF RInv, AckInv
    <3>7. sess[b].h \notin tabs.open
      <4>1. PICK h \in Handles : h = sess[b].h BY <1>1
      <4>2. h[1] = a /\ h[2] \in 1..2 /\ act[h[1]].kind # "sync" BY <2>4, <3>5, <4>1
      <4>3. Told(h[1], h[2]) = 0 BY <3>2, <4>2
      <4>4. \A g \in tabs.open : act[g[1]].kind = "sync" \/ Told(g[1], g[2]) # 0 BY DEF RInv, AckInv
      <4> QED BY <4>1, <4>2, <4>3, <4>4
    <3>8. act[a].result = "none" BY <3>2 DEF RInv, AckInv
    <3>9. canc[Disposer(a)] = Nil BY <3>8 DEF RInv, AckInv
    <3> QED BY <2>4, <3>1, <3>4, <3>6, <3>7, <3>8, <3>9 DEF Claimed
  <2> QED BY <2>1, <2>3, <2>4, Spaces
<1> QED BY <1>4, <1>5, <1>6, <1>7, <1>8, ThreadKinds

LEMMA CancelHitKeeps ==
    ASSUME RInv, NEW t \in Threads, CancelHit(t)
    PROVE  RInv'
<1> PICK b \in Sessions : b = canc[t].b BY DEF CancelHit, RInv, CancelInv
<1> DEFINE busy == sess[b].st \in {"exec", "live"}
           ss == IF busy THEN [sess EXCEPT ![b].hit = TRUE] ELSE sess
<1>1. /\ canc[t] # Nil /\ canc[t].st = "hit" /\ sess \in [Sessions -> SessRecs]
      /\ Returned(t, canc, ss, act)
      /\ stray' = IF busy /\ sess[b].h[1] > canc[t].upto THEN stray \cup {sess[b].h[1]} ELSE stray
      /\ UNCHANGED <<binding, generation, last, queue, launching, run, enq, tabs,
                     signal, ui, retirer, events>>
  BY DEF CancelHit, RInv, RTypeOK
<1>2. ss \in [Sessions -> SessRecs] /\ \A d \in Sessions : ss[d].st = sess[d].st /\ ss[d].h = sess[d].h
  BY <1>1, ZenonT(40) DEF SessRecs
<1>3. busy => sess[b].h[1] \in Actions /\ (act[sess[b].h[1]].kind # "sync" => sess[b].h[1] <= canc[t].upto)
  BY <1>1, HitsItsOwn
<1> HIDE DEF ss
<1>4. \A a \in Actions : act'[a].kind = act[a].kind
  <2>1. \A a \in Actions : act'[a] = IF t = WireCancel(a) THEN [act[a] EXCEPT !.wire = TRUE] ELSE act[a]
    BY <1>1, <1>2, ReturnedFacts DEF RInv, RTypeOK
  <2>2. act \in [Actions -> ActRecs] BY DEF RInv, RTypeOK
  <2> QED BY <2>1, <2>2 DEF ActRecs
<1>5. canc[t].upto \in Nat BY <1>1, Spaces DEF RInv, RTypeOK, Cancels, Opt
<1>6. stray' \in SUBSET Actions /\ \A a \in stray' : act[a].kind = "sync"
  <2>1. stray \in SUBSET Actions /\ \A a \in stray : act[a].kind = "sync" BY DEF RInv, RTypeOK, NoStrayCancel
  <2>2. busy /\ sess[b].h[1] > canc[t].upto => sess[b].h[1] \in Actions /\ act[sess[b].h[1]].kind = "sync"
    BY <1>3, <1>5, Spaces
  <2> QED BY <1>1, <2>1, <2>2
<1>7. NoStrayCancel' BY <1>4, <1>6 DEF NoStrayCancel
<1> QED BY <1>1, <1>2, <1>6, <1>7, ReturnedKeeps

-----------------------------------------
(* Steps that begin an action, drop results nobody adopted, or move the UI *)
(* thread's cancel. *)

\* Nothing that was said of an action changes; action n, if it is one, is new.
Began(n) ==
    \A a \in Actions :
        /\ act'[a].wire = act[a].wire /\ act'[a].acks = act[a].acks
        /\ act'[a].draining = act[a].draining /\ act'[a].done = act[a].done
        /\ a # n => act'[a].kind = act[a].kind
        /\ a = n => act[a].kind = "none" /\ act'[a].kind # "none"

\* The unadopted results in the set are handed to their disposers.
Dropped(set) ==
    /\ \A a \in set : act[a].result = "unadopted"
    /\ \A a \in Actions :
         /\ act'[a].result = IF a \in set THEN "disposed" ELSE act[a].result
         /\ canc'[Disposer(a)] = IF a \in set THEN CancelHandle(<<a, 1>>, a) ELSE canc[Disposer(a)]
         /\ canc'[WireCancel(a)] = canc[WireCancel(a)]
         /\ canc'[NavWatch(a)] = canc[NavWatch(a)]
    /\ canc'[Launcher] = canc[Launcher]

\* What a cancel of the UI thread and of the retirer may be.
CallersCancel ==
    /\ \A t \in {UI, Retirer} : canc'[t] # Nil =>
         /\ canc'[t].st = "hit" => canc'[t].b \in Sessions
         /\ canc'[t].st \in {"cas", "abandon"} => canc'[t].root # Nil
    /\ canc'[UI] # Nil => /\ ui'.pc \in {"cancel", "syncCancel", "syncHook", "quitWait", "sweep"}
                          /\ \A a \in Actions : Async(a)' => a <= canc'[UI].upto
    /\ canc'[Retirer] # Nil => canc'[Retirer].upto = MaxActions

LEMMA BeganFacts ==
    ASSUME RInv, NEW n \in Nat, Began(n)
    PROVE  \A a \in Actions :
             /\ Finished(a)' = Finished(a) /\ Fresh(a)' = Fresh(a)
             /\ \A i \in 1..2 : Told(a, i)' = Told(a, i)
             /\ act[a].kind # "none" => a # n /\ act'[a].kind = act[a].kind
             /\ Async(a) => a # n /\ Async(a)'
             /\ a # n => Async(a)' = Async(a)
             /\ a = n => /\ ~Finished(a) /\ Fresh(a) /\ Told(a, 1) = 0 /\ Told(a, 2) = 0
                         /\ ~act[a].wire /\ act[a].result = "none"
<1> SUFFICES ASSUME NEW a \in Actions
             PROVE  /\ Finished(a)' = Finished(a) /\ Fresh(a)' = Fresh(a)
                    /\ \A i \in 1..2 : Told(a, i)' = Told(a, i)
                    /\ act[a].kind # "none" => a # n /\ act'[a].kind = act[a].kind
                    /\ Async(a) => a # n /\ Async(a)'
                    /\ a # n => Async(a)' = Async(a)
                    /\ a = n => /\ ~Finished(a) /\ Fresh(a) /\ Told(a, 1) = 0 /\ Told(a, 2) = 0
                                /\ ~act[a].wire /\ act[a].result = "none"
  OBVIOUS
<1>1. /\ \A i \in 1..2 : Told(a, i)' = Told(a, i)
      /\ Finished(a)' = Finished(a)
  BY DEF Began, Told, Finished
<1>2. Fresh(a)' = Fresh(a) BY <1>1 DEF Fresh
<1>3. act[a].kind # "none" => a # n /\ act'[a].kind = act[a].kind BY DEF Began
<1>4. (Async(a) => act[a].kind # "none") /\ (a # n => Async(a)' = Async(a)) BY DEF Began, Async, AsyncKinds
<1>5. a = n => ~Async(a) /\ act[a].kind = "none" BY DEF Began, Async, AsyncKinds
<1>6. a = n => Fresh(a) /\ ~act[a].wire /\ act[a].result = "none" BY <1>5 DEF RInv, PlaceInv, AckInv
<1> QED BY <1>1, <1>2, <1>3, <1>4, <1>5, <1>6 DEF Fresh

LEMMA TurnsKeep ==
    ASSUME RInv, NEW n \in Nat, Began(n), NEW set \in SUBSET Actions, Dropped(set), CallersCancel,
           UNCHANGED <<queue, run, sess, tabs, stray>>, ui.pc = "syncExec" => UNCHANGED ui
    PROVE  RunInv' /\ AckInv' /\ HoldInv' /\ CancelInv' /\ NoStrayCancel'
<1>1. \A a \in Actions :
             /\ Finished(a)' = Finished(a) /\ Fresh(a)' = Fresh(a)
             /\ \A i \in 1..2 : Told(a, i)' = Told(a, i)
             /\ act[a].kind # "none" => a # n /\ act'[a].kind = act[a].kind
             /\ Async(a) => a # n /\ Async(a)'
             /\ a # n => Async(a)' = Async(a)
             /\ a = n => /\ ~Finished(a) /\ Fresh(a) /\ Told(a, 1) = 0 /\ Told(a, 2) = 0
                         /\ ~act[a].wire /\ act[a].result = "none"
  BY BeganFacts
<1>2. \A a \in Actions : act'[a].wire = act[a].wire /\ Running(a)' = Running(a) /\ act'[a].done = act[a].done
  BY DEF Began, Running
<1>3. \A a \in set : CancelHandle(<<a, 1>>, a) # Nil /\ act[a].kind = "bound" /\ Told(a, 1) # 0
  BY DisposeCancel, Zenon DEF Dropped, RInv, AckInv
<1>4. RunInv'
  <2>1. CASE run.pc = "idle" BY <2>1 DEF RunInv
  <2>2. CASE run.pc # "idle"
    <3>1. PICK a \in Actions : a = run.a BY <2>2 DEF RInv, RunInv
    <3>2. Async(a) /\ act'[a].kind = act[a].kind BY <1>1, <2>2, <3>1 DEF RInv, RunInv, Async, AsyncKinds
    <3>3. Async(a)' /\ Finished(a)' = Finished(a) /\ act'[a].wire = act[a].wire
          /\ \A i \in 1..2 : Told(a, i)' = Told(a, i)
      BY <1>1, <1>2, <3>2
    <3> QED BY <2>2, <3>1, <3>2, <3>3 DEF RInv, RunInv
  <2> QED BY <2>1, <2>2
<1>5. AckInv'
  <2>1. \A a \in Actions : Finished(a)' => act'[a].wire /\ \A i \in Stmts(act'[a].kind) : Told(a, i)' = 1
    <3> SUFFICES ASSUME NEW a \in Actions, Finished(a)'
                 PROVE  act'[a].wire /\ \A i \in Stmts(act'[a].kind) : Told(a, i)' = 1
      OBVIOUS
    <3>1. Finished(a) /\ a # n /\ act'[a].kind = act[a].kind BY <1>1 DEF Began
    <3> QED BY <1>1, <1>2, <3>1, Spaces DEF RInv, AckInv
  <2>2. \A k \in tabs.acked : k[1] \in Actions /\ k[2] \in 1..2 /\ k[1] # n BY <1>1, Spaces DEF RInv, RTypeOK, AckInv
  <2>3. \A k \in tabs.acked : Told(k[1], k[2])' = Told(k[1], k[2]) /\ act'[k[1]].kind = act[k[1]].kind
    BY <1>1, <2>2 DEF Began
  <2>4. \A k \in tabs.acked : /\ Told(k[1], k[2])' # 0 /\ k[2] \in Stmts(act'[k[1]].kind)
                              /\ k[3] # Nil => /\ k[3] = <<k[1], k[2]>> /\ k[3] \notin tabs.open
                                               /\ act'[k[1]].kind # "bound"
    BY <2>3 DEF RInv, AckInv
  <2>5. ASSUME NEW h \in tabs.open
        PROVE  \/ act'[h[1]].kind = "sync"
               \/ Told(h[1], h[2])' # 0 /\ (act'[h[1]].kind = "bound" => act'[h[1]].result = "adopted")
    <3>1. h[1] \in Actions /\ h[2] \in 1..2 BY <2>5, Spaces DEF RInv, RTypeOK
    <3>2. \/ act[h[1]].kind = "sync"
          \/ Told(h[1], h[2]) # 0 /\ (act[h[1]].kind = "bound" => act[h[1]].result = "adopted")
      BY DEF RInv, AckInv
    <3>3. h[1] # n /\ act'[h[1]].kind = act[h[1]].kind /\ Told(h[1], h[2])' = Told(h[1], h[2])
      BY <1>1, <3>1, <3>2 DEF Began
    <3>4. act[h[1]].result = "adopted" => act'[h[1]].result = "adopted" BY <3>1 DEF Dropped
    <3> QED BY <3>2, <3>3, <3>4
  <2>6. \A a \in Actions : act'[a].result # "none" => act'[a].kind = "bound" /\ Told(a, 1)' # 0
    <3> SUFFICES ASSUME NEW a \in Actions, act'[a].result # "none"
                 PROVE  act'[a].kind = "bound" /\ Told(a, 1)' # 0
      OBVIOUS
    <3>1. act[a].kind = "bound" /\ Told(a, 1) # 0 BY <1>3, ZenonT(40) DEF Dropped, RInv, AckInv
    <3> QED BY <1>1, <3>1
  <2>7. \A a \in Actions : canc'[Disposer(a)] # Nil => act'[a].result = "disposed"
    BY ZenonT(40) DEF Dropped, RInv, AckInv
  <2>8. \A k, m \in tabs.acked : k[1] = m[1] /\ k[2] = m[2] => k = m BY DEF RInv, AckInv
  <2> QED BY <2>1, <2>4, <2>5, <2>6, <2>7, <2>8 DEF AckInv
<1>6. HoldInv'
  <2> SUFFICES ASSUME NEW b \in Sessions
               PROVE  HoldInv!(b)'
    BY DEF HoldInv
  <2>1. HoldInv!(b) BY DEF RInv, HoldInv
  <2>2. CASE sess[b].h = Nil BY <2>1, <2>2, Spaces
  <2>3. CASE sess[b].h # Nil
    <3>1. PICK h \in Handles : h = sess[b].h BY <2>1, <2>3
    <3>2. PICK c \in Actions : c = h[1] BY Spaces
    <3>3. act[c].kind # "none" /\ act'[c].kind = act[c].kind BY <1>1, <2>1, <2>3, <3>1, <3>2
    <3>4. Claimed(h) => Claimed(h)'
      <4>1. CASE act[c].result = "unadopted"
        <5>1. CASE c \in set BY <1>3, <3>2, <5>1 DEF Claimed, Dropped
        <5>2. CASE c \notin set BY <3>2, <4>1, <5>2 DEF Claimed, Dropped
        <5> QED BY <5>1, <5>2
      <4>2. CASE canc[Disposer(c)] # Nil BY <1>3, <3>2, <4>2, ZenonT(40) DEF Claimed, Dropped
      <4>3. CASE act[c].result # "unadopted" /\ canc[Disposer(c)] = Nil BY <3>2, <4>3 DEF Claimed
      <4> QED BY <4>1, <4>2, <4>3
    <3>5. /\ Claimed(sess[b].h)' = Claimed(h)' /\ Running(sess[b].h[1])' = Running(c)'
          /\ Finished(sess[b].h[1])' = Finished(c)'
      BY <3>1, <3>2 DEF Claimed, Running, Finished
    <3>6. Finished(c)' = Finished(c) /\ Running(c)' = Running(c) /\ act'[c].done = act[c].done BY <1>1, <1>2
    <3> QED BY <2>1, <2>3, <3>1, <3>2, <3>3, <3>4, <3>5, <3>6
  <2> QED BY <2>2, <2>3
<1>7. CancelInv'
  <2>1. \A a \in Actions : canc'[Disposer(a)] # Nil =>
              /\ canc'[Disposer(a)].upto = a /\ canc'[Disposer(a)].h = <<a, 1>>
              /\ canc'[Disposer(a)].st \in {"check", "hit"}
              /\ canc'[Disposer(a)].st = "hit" =>
                   /\ canc'[Disposer(a)].b \in Sessions
                   /\ sess'[canc'[Disposer(a)].b].st = "live"
                   /\ sess'[canc'[Disposer(a)].b].h = <<a, 1>>
    <3> SUFFICES ASSUME NEW a \in Actions, canc'[Disposer(a)] # Nil
                 PROVE  /\ canc'[Disposer(a)].upto = a /\ canc'[Disposer(a)].h = <<a, 1>>
                        /\ canc'[Disposer(a)].st \in {"check", "hit"}
                        /\ canc'[Disposer(a)].st = "hit" =>
                             /\ canc'[Disposer(a)].b \in Sessions
                             /\ sess'[canc'[Disposer(a)].b].st = "live"
                             /\ sess'[canc'[Disposer(a)].b].h = <<a, 1>>
      OBVIOUS
    <3>1. CASE a \in set
      <4>1. canc'[Disposer(a)] = CancelHandle(<<a, 1>>, a) BY <3>1 DEF Dropped
      <4>2. /\ CancelHandle(<<a, 1>>, a).upto = a /\ CancelHandle(<<a, 1>>, a).h = <<a, 1>>
            /\ CancelHandle(<<a, 1>>, a).st = "check"
        BY DEF CancelHandle
      <4> QED BY <4>1, <4>2
    <3>2. CASE a \notin set
      <4>1. canc'[Disposer(a)] = canc[Disposer(a)] /\ Disposer(a) \in Threads /\ Disposer(a) \notin {UI, Retirer}
        BY <3>2, ThreadFacts DEF Dropped
      <4> QED BY <4>1 DEF RInv, CancelInv
    <3> QED BY <3>1, <3>2
  <2>2. ASSUME NEW a \in Actions
        PROVE  /\ canc'[WireCancel(a)] # Nil => /\ ~act'[a].wire /\ canc'[WireCancel(a)].upto = a - 1
                                                /\ Async(a)' /\ canc'[WireCancel(a)].st \in {"check", "hit"}
                                                /\ canc'[WireCancel(a)].st = "hit" => canc'[WireCancel(a)].b \in Sessions
               /\ canc'[NavWatch(a)] # Nil => /\ Running(a)' /\ run'.pc \in {"lock", "exec", "return"}
                                              /\ canc'[NavWatch(a)].upto = a
                                              /\ canc'[NavWatch(a)].st \in {"check", "hit"}
                                              /\ canc'[NavWatch(a)].st = "hit" => canc'[NavWatch(a)].b \in Sessions
    <3>1. canc'[WireCancel(a)] = canc[WireCancel(a)] /\ canc'[NavWatch(a)] = canc[NavWatch(a)] BY DEF Dropped
    <3>2. /\ WireCancel(a) \in Threads /\ WireCancel(a) \notin {UI, Retirer}
          /\ NavWatch(a) \in Threads /\ NavWatch(a) \notin {UI, Retirer}
      BY ThreadFacts
    <3> QED BY <1>1, <1>2, <3>1, <3>2 DEF RInv, CancelInv
  <2>3. canc'[Launcher] # Nil => /\ run'.pc = "hook" /\ canc'[Launcher].upto = run'.a
                                 /\ canc'[Launcher].st \in {"check", "hit"}
                                 /\ canc'[Launcher].st = "hit" => canc'[Launcher].b \in Sessions
    BY ThreadFacts DEF Dropped, RInv, CancelInv
  <2>4. ASSUME NEW t \in Threads, canc'[t] # Nil
        PROVE  /\ canc'[t].st = "hit" => canc'[t].b \in Sessions
               /\ t \notin {UI, Retirer} => canc'[t].st \in {"check", "hit"}
               /\ canc'[t].st \in {"cas", "abandon"} => canc'[t].root # Nil
    <3>1. CASE t \in {UI, Retirer} BY <2>4, <3>1 DEF CallersCancel
    <3>2. CASE t = Launcher BY <2>3, <2>4, <3>2
    <3>3. ASSUME NEW a \in Actions, t \in {WireCancel(a), Disposer(a), NavWatch(a)}
          PROVE  canc'[t].st \in {"check", "hit"} /\ (canc'[t].st = "hit" => canc'[t].b \in Sessions)
      BY <2>1, <2>2, <2>4, <3>3
    <3> QED BY <3>1, <3>2, <3>3, ThreadKinds
  <2> QED BY <2>1, <2>2, <2>3, <2>4 DEF CancelInv, CallersCancel
<1>8. NoStrayCancel' BY <1>1 DEF RInv, RTypeOK, NoStrayCancel
<1> QED BY <1>4, <1>5, <1>6, <1>7, <1>8

\* Results are dropped, or the UI thread's cancel moves, and no action begins.
LEMMA Turns ==
    ASSUME RInv, RTypeOK', Began(0), NEW set \in SUBSET Actions, Dropped(set),
           CallersCancel, UNCHANGED <<queue, run, sess, enq, tabs, signal, stray>>,
           ui.pc = "syncExec" => UNCHANGED ui, UiInv', LastInv', QuitInv'
    PROVE  RInv'
<1>1. RunInv' /\ AckInv' /\ HoldInv' /\ CancelInv' /\ NoStrayCancel'
  <2>1. 0 \in Nat OBVIOUS
  <2> QED BY <2>1, TurnsKeep
<1>5. \A a \in Actions : act'[a].kind = act[a].kind BY Spaces DEF Began
<1>2. ActsInv' BY <1>5, NextSame DEF RInv
<1>3. PlaceInv'
  <2>1. \A a \in Actions : /\ Finished(a)' = Finished(a) /\ Fresh(a)' = Fresh(a)
                           /\ Async(a)' = Async(a) /\ act'[a].wire = act[a].wire
    BY <1>5, BeganFacts DEF Began, Async
  <2>2. \A a \in Actions : /\ Queued(a)' = Queued(a) /\ Enqueuing(a)' = Enqueuing(a)
                           /\ Running(a)' = Running(a)
    BY DEF Queued, Enqueuing, Running
  <2> QED BY <2>1, <2>2 DEF RInv, PlaceInv
<1>4. SignalInv'
  <2>1. \A a \in Actions : UnsettledStmts(a)' = UnsettledStmts(a) BY <1>5 DEF UnsettledStmts, Began
  <2>2. signal # 0 => signal \in Actions BY DEF RInv, RTypeOK
  <2> QED BY <1>5, <2>1, <2>2 DEF RInv, SignalInv, SignalIsNewestRun
<1> QED BY <1>1, <1>2, <1>3, <1>4 DEF RInv

\* The unadopted results of a set of actions are discarded.
LEMMA Discards ==
    ASSUME RInv, NEW set \in SUBSET Actions, \A a \in set : act[a].result = "unadopted",
           act' = Discard(act, set), NEW c \in Opt(Cancels),
           c # Nil => /\ c.upto = MaxActions /\ (c.st = "hit" => c.b \in Sessions)
                      /\ c.st \in {"cas", "abandon"} => c.root # Nil,
           canc' = [DiscardCanc(canc, set) EXCEPT ![Retirer] = c],
           binding' \in BoundTo, retirer' \in {"idle", "unbind", "cancel"},
           UNCHANGED <<generation, last, queue, launching, run, sess, enq, tabs, signal, ui, stray>>
    PROVE  RInv'
<1>1. act \in [Actions -> ActRecs] /\ canc \in [Threads -> Opt(Cancels)] BY DEF RInv, RTypeOK
<1>2. /\ act' \in [Actions -> ActRecs]
      /\ \A a \in Actions : act'[a] = IF a \in set THEN [act[a] EXCEPT !.result = "disposed"] ELSE act[a]
  BY <1>1, DiscardActs
<1>3. PICK cs \in [Threads -> Opt(Cancels)] : cs = DiscardCanc(canc, set) BY <1>1, DiscardCancs
<1>4. /\ \A a \in Actions :
           /\ cs[Disposer(a)] = IF a \in set THEN CancelHandle(<<a, 1>>, a) ELSE canc[Disposer(a)]
           /\ cs[WireCancel(a)] = canc[WireCancel(a)]
           /\ cs[NavWatch(a)] = canc[NavWatch(a)]
      /\ \A t \in {UI, Launcher, Retirer} : cs[t] = canc[t]
  BY <1>1, <1>3, DiscardCancs
<1>5. /\ canc' \in [Threads -> Opt(Cancels)] /\ canc'[Retirer] = c
      /\ \A t \in Threads \ {Retirer} : canc'[t] = cs[t]
  <2>1. Retirer \in Threads BY ThreadFacts
  <2> QED BY <1>3, <2>1
<1>6. \A a \in Actions :
           /\ canc'[Disposer(a)] = IF a \in set THEN CancelHandle(<<a, 1>>, a) ELSE canc[Disposer(a)]
           /\ canc'[WireCancel(a)] = canc[WireCancel(a)]
           /\ canc'[NavWatch(a)] = canc[NavWatch(a)]
  <2>1. ASSUME NEW a \in Actions
        PROVE  /\ canc'[Disposer(a)] = cs[Disposer(a)] /\ canc'[WireCancel(a)] = cs[WireCancel(a)]
               /\ canc'[NavWatch(a)] = cs[NavWatch(a)]
    <3>1. {Disposer(a), WireCancel(a), NavWatch(a)} \subseteq Threads \ {Retirer} BY ThreadFacts
    <3> QED BY <1>5, <3>1
  <2> QED BY <1>4, <2>1, Zenon
<1>7. canc'[UI] = canc[UI] /\ canc'[Launcher] = canc[Launcher] BY <1>4, <1>5, ThreadFacts
<1>8. \A a \in Actions :
        /\ act'[a].kind = act[a].kind /\ act'[a].wire = act[a].wire /\ act'[a].acks = act[a].acks
        /\ act'[a].draining = act[a].draining /\ act'[a].done = act[a].done
        /\ act'[a].binding = act[a].binding
        /\ act'[a].result = IF a \in set THEN "disposed" ELSE act[a].result
  BY <1>1, <1>2 DEF ActRecs
<1>9. RTypeOK' /\ RoleSame /\ Began(0) /\ Dropped(set)
  BY <1>2, <1>5, <1>6, <1>7, <1>8, Spaces DEF RInv, RTypeOK, RoleSame, Began, Dropped
<1>10. CallersCancel
  <2>1. canc[UI] # Nil => /\ canc[UI].st = "hit" => canc[UI].b \in Sessions
                          /\ canc[UI].st \in {"cas", "abandon"} => canc[UI].root # Nil
                          /\ ui.pc \in {"cancel", "syncCancel", "syncHook", "quitWait", "sweep"}
                          /\ \A a \in Actions : Async(a) => a <= canc[UI].upto
    BY ThreadFacts DEF RInv, CancelInv
  <2>2. \A a \in Actions : Async(a)' = Async(a) BY <1>8 DEF Async
  <2> QED BY <1>5, <1>7, <2>1, <2>2 DEF CallersCancel
<1>11. UiInv' BY <1>6, <1>9, UiRole DEF RInv
<1>12. \A h \in Handles : Executed(h) => Executed(h)' BY <1>8, Spaces DEF Executed, Told
<1>13. SessShrinks BY DEF SessShrinks
<1>14. LastInv' /\ QuitInv' BY <1>9, <1>12, <1>13, LastRole, QuitRole DEF RInv
<1> QED BY <1>9, <1>10, <1>11, <1>14, Turns

\* Discards that start no cancel of a slot.
LEMMA DiscardsOnly ==
    ASSUME RInv, NEW set \in SUBSET Actions, \A a \in set : act[a].result = "unadopted",
           act' = Discard(act, set), canc' = DiscardCanc(canc, set),
           binding' \in BoundTo,
           UNCHANGED <<generation, last, queue, launching, run, sess, enq, tabs, signal, ui, retirer, stray>>
    PROVE  RInv'
<1>1. canc \in [Threads -> Opt(Cancels)] /\ Retirer \in Threads /\ retirer \in {"idle", "unbind", "cancel"}
  BY ThreadFacts DEF RInv, RTypeOK
<1>2. PICK c \in Opt(Cancels) : c = canc[Retirer] BY <1>1
<1>3. /\ DiscardCanc(canc, set) \in [Threads -> Opt(Cancels)]
      /\ DiscardCanc(canc, set)[Retirer] = c
  BY <1>1, <1>2, DiscardCancs
<1>4. canc' = [DiscardCanc(canc, set) EXCEPT ![Retirer] = c] BY <1>1, <1>3
<1>5. c # Nil => /\ c.upto = MaxActions /\ (c.st = "hit" => c.b \in Sessions)
                 /\ c.st \in {"cas", "abandon"} => c.root # Nil
  BY <1>1, <1>2 DEF RInv, CancelInv
<1> QED BY <1>1, <1>4, <1>5, Discards

LEMMA NavDiscardKeeps ==
    ASSUME RInv, NEW a \in Actions, NavDiscard(a)
    PROVE  RInv'
<1>1. PICK set \in SUBSET Actions : set = {a} OBVIOUS
<1>2. act[a].result = "unadopted" /\ act' = Discard(act, set) /\ canc' = DiscardCanc(canc, set) BY <1>1 DEF NavDiscard
<1>3. binding' \in BoundTo BY DEF NavDiscard, RInv, RTypeOK
<1> QED BY <1>1, <1>2, <1>3, DiscardsOnly DEF NavDiscard

LEMMA BindKeeps ==
    ASSUME RInv, Bind
    PROVE  RInv'
<1>1. PICK set \in SUBSET Actions : set = Unadopted BY DEF Unadopted
<1>2. /\ \A a \in set : act[a].result = "unadopted"
      /\ act' = Discard(act, set) /\ canc' = DiscardCanc(canc, set)
  BY <1>1 DEF Bind, Unadopted
<1>3. binding' \in BoundTo BY DEF Bind, BoundTo
<1> QED BY <1>1, <1>2, <1>3, DiscardsOnly DEF Bind

LEMMA UnbindKeeps ==
    ASSUME RInv, Unbind
    PROVE  RInv'
<1>1. PICK set \in SUBSET Actions : set = Unadopted BY DEF Unadopted
<1>2. PICK c \in Opt(Cancels) : c = CancelSlot(MaxActions, FALSE) BY Reaches, CancelTypes DEF Opt
<1>3. /\ \A a \in set : act[a].result = "unadopted"
      /\ act' = Discard(act, set) /\ canc' = [DiscardCanc(canc, set) EXCEPT ![Retirer] = c]
  BY <1>1, <1>2 DEF Unbind, Unadopted
<1>4. c.upto = MaxActions /\ c.st = "load" BY <1>2 DEF CancelSlot
<1>5. binding' \in BoundTo /\ retirer' \in {"idle", "unbind", "cancel"} BY DEF Unbind, BoundTo
<1> QED BY <1>3, <1>4, <1>5, Discards DEF Unbind

\* last.Store(nil).
LEMMA UnboundKeeps ==
    ASSUME RInv, Unbound
    PROVE  RInv'
<1>1. RTypeOK' /\ CoreSame BY DEF Unbound, RInv, RTypeOK, CoreSame, Opt
<1>2. LastInv' BY DEF Unbound, LastInv
<1>3. CancelInv'
  <2>1. RunStays BY DEF Unbound, RunStays
  <2> QED BY <1>1, <2>1, CancelFrame DEF Unbound, RInv
<1> QED BY <1>1, <1>2, <1>3, OnlyCancels DEF Unbound

\* The user adopts a result: a tab reads it from now on.
LEMMA AdoptKeeps ==
    ASSUME RInv, NEW a \in Actions, act[a].result = "unadopted",
           act' = [act EXCEPT ![a].result = "adopted"], tabs' = [tabs EXCEPT !.open = @ \cup {<<a, 1>>}],
           UNCHANGED <<binding, generation, last, queue, launching, run, sess, enq, canc,
                       signal, ui, retirer, stray>>
    PROVE  RInv'
<1>1. act[a] \in ActRecs /\ act[a].kind = "bound" /\ Told(a, 1) # 0 /\ <<a, 1>> \in Handles
      /\ act \in [Actions -> ActRecs]
  BY Spaces DEF RInv, RTypeOK, AckInv
<1>2. act' = [act EXCEPT ![a] = [act[a] EXCEPT !.result = "adopted"]] /\ [act[a] EXCEPT !.result = "adopted"] \in ActRecs
  BY <1>1, ActionTypes, Zenon
<1>3. act' \in [Actions -> ActRecs] BY <1>1, <1>2
<1>4. \A c \in Actions :
        /\ act'[c].kind = act[c].kind /\ act'[c].wire = act[c].wire /\ act'[c].acks = act[c].acks
        /\ act'[c].draining = act[c].draining /\ act'[c].done = act[c].done
        /\ act'[c].binding = act[c].binding
        /\ act'[c].result = IF c = a THEN "adopted" ELSE act[c].result
  BY <1>1, <1>2 DEF ActRecs
<1>5. tabs'.acked = tabs.acked /\ tabs'.open = tabs.open \cup {<<a, 1>>}
      /\ tabs' \in [acked : SUBSET (Actions \X (1..2) \X Opt(Handles)), open : SUBSET Handles]
  BY <1>1 DEF RInv, RTypeOK
<1>6. RTypeOK' BY <1>3, <1>5 DEF RInv, RTypeOK
<1>7. RoleSame /\ SessShrinks /\ RunStays BY <1>4 DEF RoleSame, SessShrinks, RunStays
<1>8. \A c \in Actions : /\ Finished(c)' = Finished(c) /\ Async(c)' = Async(c) /\ Running(c)' = Running(c)
                         /\ Fresh(c)' = Fresh(c)
                         /\ \A i \in 1..2 : Told(c, i)' = Told(c, i)
  BY <1>4 DEF Finished, Async, Running, Fresh, Told
<1>9. ActsInv' /\ UiInv' BY <1>7, NextSame, UiRole DEF RInv, RoleSame
<1>10. PlaceInv'
  <2>1. \A c \in Actions : /\ Queued(c)' = Queued(c) /\ Enqueuing(c)' = Enqueuing(c) BY DEF Queued, Enqueuing
  <2> QED BY <1>4, <1>8, <2>1 DEF RInv, PlaceInv
<1>11. RunInv' BY <1>4, <1>8 DEF RInv, RunInv
<1>12. AckInv'
  <2>1. \A k \in tabs.acked : k[1] \in Actions /\ k[2] \in 1..2 BY DEF RInv, RTypeOK
  <2>2. \A k \in tabs.acked : k[3] # <<a, 1>>
    <3> SUFFICES ASSUME NEW k \in tabs.acked, k[3] = <<a, 1>> PROVE FALSE OBVIOUS
    <3>1. k[3] # Nil BY <1>1, Spaces
    <3>2. k[3] = <<k[1], k[2]>> /\ act[k[1]].kind # "bound" BY <3>1 DEF RInv, AckInv
    <3> QED BY <1>1, <3>2
  <2>3. \A k \in tabs'.acked : /\ Told(k[1], k[2])' # 0 /\ k[2] \in Stmts(act'[k[1]].kind)
                               /\ k[3] # Nil => /\ k[3] = <<k[1], k[2]>> /\ k[3] \notin tabs'.open
                                                /\ act'[k[1]].kind # "bound"
    BY <1>4, <1>5, <1>8, <2>1, <2>2 DEF RInv, AckInv
  <2>4. ASSUME NEW h \in tabs'.open
        PROVE  \/ act'[h[1]].kind = "sync"
               \/ Told(h[1], h[2])' # 0 /\ (act'[h[1]].kind = "bound" => act'[h[1]].result = "adopted")
    <3>1. CASE h = <<a, 1>> BY <1>1, <1>4, <1>8, <3>1
    <3>2. CASE h \in tabs.open
      <4>1. h[1] \in Actions /\ h[2] \in 1..2 BY <3>2, Spaces DEF RInv, RTypeOK
      <4>2. \/ act[h[1]].kind = "sync"
            \/ Told(h[1], h[2]) # 0 /\ (act[h[1]].kind = "bound" => act[h[1]].result = "adopted")
        BY <3>2 DEF RInv, AckInv
      <4> QED BY <1>4, <1>8, <4>1, <4>2
    <3> QED BY <1>5, <3>1, <3>2
  <2>5. \A c \in Actions : act'[c].result # "none" => act'[c].kind = "bound" /\ Told(c, 1)' # 0
    BY <1>1, <1>4, <1>8 DEF RInv, AckInv
  <2>8. \A c \in Actions : canc'[Disposer(c)] # Nil => act'[c].result = "disposed" BY <1>4 DEF RInv, AckInv
  <2>6. \A c \in Actions : Finished(c)' => act'[c].wire /\ \A i \in Stmts(act'[c].kind) : Told(c, i)' = 1
    BY <1>4, <1>8, Spaces DEF RInv, AckInv
  <2>7. \A k, m \in tabs'.acked : k[1] = m[1] /\ k[2] = m[2] => k = m BY <1>5 DEF RInv, AckInv
  <2> QED BY <2>3, <2>4, <2>5, <2>6, <2>7, <2>8 DEF AckInv
<1>13. HoldInv'
  <2>1. ASSUME NEW h \in Handles, Live(h), Claimed(h), act[h[1]].kind # "sync" PROVE Claimed(h)'
    <3>1. PICK b \in Sessions : sess[b].h = h /\ sess[b].st = "live" BY <2>1 DEF Live, HeldBy
    <3>2. h[2] \in Stmts(act[h[1]].kind) /\ h[1] \in Actions /\ h = <<h[1], h[2]>> BY <3>1, Spaces DEF RInv, HoldInv
    <3>3. CASE h[1] = a
      <4>1. h = <<a, 1>> BY <1>1, <3>2, <3>3 DEF Stmts
      <4> QED BY <1>5, <4>1 DEF Claimed
    <3>4. CASE h[1] # a BY <1>4, <1>5, <2>1, <3>2, <3>4 DEF Claimed
    <3> QED BY <3>3, <3>4
  <2>2. \A h \in Handles : Live(h)' => Live(h) BY <1>7, LiveShrinks
  <2> QED BY <1>7, <1>8, <2>1, <2>2, HoldRole DEF RInv
<1>14. CancelInv' BY <1>4, <1>8 DEF RInv, CancelInv
<1>15. NoStrayCancel' BY <1>4 DEF RInv, RTypeOK, NoStrayCancel
<1>16. SignalInv'
  <2>1. \A c \in Actions : UnsettledStmts(c)' = UnsettledStmts(c) BY <1>4, <1>5 DEF UnsettledStmts
  <2>2. signal # 0 => signal \in Actions BY DEF RInv, RTypeOK
  <2> QED BY <1>4, <2>1, <2>2 DEF RInv, SignalInv, SignalIsNewestRun
<1>17. \A h \in Handles : Executed(h) => Executed(h)' BY <1>4, <1>8, Spaces DEF Executed
<1>18. LastInv' /\ QuitInv' BY <1>7, <1>17, LastRole, QuitRole DEF RInv
<1> QED BY <1>6, <1>9, <1>10, <1>11, <1>12, <1>13, <1>14, <1>15, <1>16, <1>18 DEF RInv

LEMMA AcceptKeeps ==
    ASSUME RInv, NEW a \in Actions, Accept(a)
    PROVE  RInv'
<1>1. CASE act' = Discard(act, {a}) /\ canc' = DiscardCanc(canc, {a}) /\ UNCHANGED tabs
  <2>1. PICK set \in SUBSET Actions : set = {a} OBVIOUS
  <2>2. act[a].result = "unadopted" /\ act' = Discard(act, set) /\ canc' = DiscardCanc(canc, set)
    BY <1>1, <2>1 DEF Accept
  <2>3. binding' \in BoundTo BY DEF Accept, RInv, RTypeOK
  <2> QED BY <1>1, <2>1, <2>2, <2>3, DiscardsOnly DEF Accept
<1>2. CASE /\ act' = [act EXCEPT ![a].result = "adopted"]
           /\ tabs' = [tabs EXCEPT !.open = @ \cup {<<a, 1>>}]
           /\ UNCHANGED canc
  BY <1>2, AdoptKeeps DEF Accept
<1> QED BY <1>1, <1>2 DEF Accept

-----------------------------------------
(* The UI thread. *)

\* What was executed stays so when the UI thread does not begin a run.
LEMMA UiExecuted ==
    ASSUME Began(0), run' = run, ui'.pc \notin SyncPcs \/ (ui'.a = ui.a /\ ui.pc \in SyncPcs)
    PROVE  \A h \in Handles : Executed(h) => Executed(h)'
<1> SUFFICES ASSUME NEW h \in Handles, Executed(h) PROVE Executed(h)' OBVIOUS
<1>1. h[1] \in Actions /\ h[1] # 0 BY Spaces
<1>2. act'[h[1]].kind = act[h[1]].kind /\ act'[h[1]].acks = act[h[1]].acks BY <1>1 DEF Began
<1> QED BY <1>2 DEF Executed, Told, SyncPcs

\* The UI thread goes on; its own cancel is all that changes beside it.
LEMMA UiTurns ==
    ASSUME RInv, RTypeOK', Began(0),
           \A a \in Actions : act'[a].result = act[a].result,
           \A t \in Threads \ {UI} : canc'[t] = canc[t],
           canc'[UI] # Nil =>
             /\ canc'[UI].st = "hit" => canc'[UI].b \in Sessions
             /\ canc'[UI].st \in {"cas", "abandon"} => canc'[UI].root # Nil
             /\ ui'.pc \in {"cancel", "syncCancel", "syncHook", "quitWait", "sweep"}
             /\ \A a \in Actions : Async(a) => a <= canc'[UI].upto,
           UNCHANGED <<queue, run, sess, enq, tabs, signal, stray>>,
           ui.pc # "syncExec", UiInv', LastInv', QuitInv'
    PROVE  RInv'
<1>1. PICK set \in SUBSET Actions : set = {} OBVIOUS
<1>2. ASSUME NEW a \in Actions
      PROVE  /\ canc'[Disposer(a)] = canc[Disposer(a)] /\ canc'[WireCancel(a)] = canc[WireCancel(a)]
             /\ canc'[NavWatch(a)] = canc[NavWatch(a)]
  <2>1. {Disposer(a), WireCancel(a), NavWatch(a)} \subseteq Threads \ {UI} BY ThreadFacts
  <2> QED BY <2>1
<1>3. canc'[Launcher] = canc[Launcher] /\ canc'[Retirer] = canc[Retirer] BY ThreadFacts
<1>4. Dropped(set) BY <1>1, <1>2, <1>3 DEF Dropped
<1>5. CallersCancel
  <2>1. canc[Retirer] # Nil => /\ canc[Retirer].st = "hit" => canc[Retirer].b \in Sessions
                               /\ canc[Retirer].st \in {"cas", "abandon"} => canc[Retirer].root # Nil
                               /\ canc[Retirer].upto = MaxActions
    BY ThreadFacts DEF RInv, CancelInv
  <2>2. \A a \in Actions : Async(a)' = Async(a) BY Spaces DEF Async, Began
  <2> QED BY <1>3, <2>1, <2>2 DEF CallersCancel
<1> QED BY <1>4, <1>5, Turns

\* <leader>x.
LEMMA UserCancelKeeps ==
    ASSUME RInv, UserCancel
    PROVE  RInv'
<1>1. /\ ui.pc = "idle" /\ enq = Nil /\ ui \in UiRecs /\ ui' = [ui EXCEPT !.pc = "cancel"]
      /\ canc \in [Threads -> Opt(Cancels)] /\ UI \in Threads
      /\ UNCHANGED <<binding, generation, last, act, queue, launching, run, sess, enq,
                     tabs, signal, retirer, stray>>
  BY ThreadFacts DEF UserCancel, RInv, RTypeOK, UiInv
<1>2. PICK c \in Cancels : c = CancelSlot(NextAction - 1, TRUE) BY Reaches, CancelTypes DEF RInv
<1>3. c.st = "load" /\ c.upto = NextAction - 1 BY <1>2 DEF CancelSlot
<1>4. canc' = [canc EXCEPT ![UI] = c] BY <1>2 DEF UserCancel
<1>5. /\ canc' \in [Threads -> Opt(Cancels)] /\ canc'[UI] = c
      /\ \A t \in Threads \ {UI} : canc'[t] = canc[t]
  BY <1>1, <1>4 DEF Opt
<1>6. ui' \in UiRecs /\ ui'.pc = "cancel" BY <1>1 DEF UiRecs
<1>7. RTypeOK' BY <1>1, <1>5, <1>6 DEF RInv, RTypeOK
<1>8. \A a \in Actions : Async(a) => a <= NextAction - 1 BY Spaces DEF RInv, ActsInv, Async, AsyncKinds
<1>9. CoreSame /\ Began(0) /\ \A a \in Actions : act'[a].result = act[a].result BY <1>1, Spaces DEF CoreSame, Began
<1>10. UiInv' /\ QuitInv' BY <1>1, <1>6 DEF UiInv, QuitInv
<1>11. LastInv'
  <2>1. \A h \in Handles : Executed(h) => Executed(h)' BY <1>1, <1>6, <1>9, UiExecuted DEF SyncPcs
  <2> QED BY <1>1, <1>9, <2>1, LastFrame DEF RInv
<1> QED BY <1>1, <1>3, <1>5, <1>6, <1>7, <1>8, <1>9, <1>10, <1>11, UiTurns

\* preemptInFlight, its second half: cancelLastResolved.
LEMMA SyncCancelLastKeeps ==
    ASSUME RInv, SyncCancelLast
    PROVE  RInv'
<1>1. /\ ui.pc = "syncCancel" /\ enq = Nil /\ ui \in UiRecs /\ ui' = [ui EXCEPT !.pc = "syncHook"]
      /\ canc \in [Threads -> Opt(Cancels)] /\ UI \in Threads /\ canc[UI] = Nil
      /\ ui.a = NextAction - 1 /\ ui.a \in Actions /\ act[ui.a].kind = "sync"
      /\ UNCHANGED <<binding, generation, last, act, queue, launching, run, sess, enq,
                     tabs, signal, retirer, stray>>
  BY ThreadFacts DEF SyncCancelLast, RInv, RTypeOK, UiInv
<1>2. PICK c \in Opt(Cancels) : /\ c = IF last # Nil /\ last.h # Nil THEN CancelHandle(last.h, ui.a - 1) ELSE Nil
                                /\ c # Nil => c.st = "check" /\ c.upto = ui.a - 1
  <2>1. CASE last # Nil /\ last.h # Nil
    <3>1. last.h \in Handles /\ ui.a - 1 \in 0..MaxActions BY <1>1, <2>1, Reaches DEF RInv, RTypeOK, Slots, Opt
    <3>2. CancelHandle(last.h, ui.a - 1) \in Cancels BY <3>1, CancelTypes
    <3>3. CancelHandle(last.h, ui.a - 1).st = "check" /\ CancelHandle(last.h, ui.a - 1).upto = ui.a - 1
      BY DEF CancelHandle
    <3> QED BY <2>1, <3>2, <3>3 DEF Opt
  <2>2. CASE ~(last # Nil /\ last.h # Nil) BY <2>2 DEF Opt
  <2> QED BY <2>1, <2>2
<1>4. canc' = [canc EXCEPT ![UI] = c] BY <1>1, <1>2 DEF SyncCancelLast
<1>5. /\ canc' \in [Threads -> Opt(Cancels)] /\ canc'[UI] = c
      /\ \A t \in Threads \ {UI} : canc'[t] = canc[t]
  BY <1>1, <1>4 DEF Opt
<1>6. ui' \in UiRecs /\ ui'.pc = "syncHook" /\ ui'.a = ui.a BY <1>1 DEF UiRecs
<1>7. RTypeOK' BY <1>1, <1>5, <1>6 DEF RInv, RTypeOK
<1>8. \A a \in Actions : Async(a) => a <= ui.a - 1 BY <1>1, Spaces DEF RInv, ActsInv, Async, AsyncKinds
<1>9. CoreSame /\ Began(0) /\ \A a \in Actions : act'[a].result = act[a].result BY <1>1, Spaces DEF CoreSame, Began
<1>10. UiInv' /\ QuitInv'
  <2>1. NextAction' = NextAction BY <1>9, CoreFacts DEF RInv
  <2> QED BY <1>1, <1>6, <2>1 DEF UiInv, QuitInv
<1>11. LastInv'
  <2>1. \A h \in Handles : Executed(h) => Executed(h)' BY <1>1, <1>6, <1>9, UiExecuted DEF SyncPcs
  <2> QED BY <1>1, <1>9, <2>1, LastFrame DEF RInv
<1> QED BY <1>1, <1>2, <1>5, <1>6, <1>7, <1>8, <1>9, <1>10, <1>11, UiTurns

\* Gui.Close marks what is queued; nothing that is said of an action changes.
LEMMA SweepKeeps ==
    ASSUME RInv, Sweep
    PROVE  RInv'
<1>1. /\ ui.pc = "sweep" /\ enq = Nil /\ ui \in UiRecs /\ ui' = [ui EXCEPT !.pc = "stopping"]
      /\ canc[UI] = Nil /\ act \in [Actions -> ActRecs]
      /\ UNCHANGED <<binding, generation, last, queue, launching, run, sess, enq, canc,
                     tabs, signal, retirer, stray>>
  BY Zenon DEF Sweep, RInv, RTypeOK, UiInv
<1>2. ASSUME NEW a \in Actions
      PROVE  act'[a] = act[a] \/ act'[a] = [act[a] EXCEPT !.abandoned = TRUE, !.ctx = TRUE]
  BY Zenon DEF Sweep
<1>3. \A a \in Actions : act'[a] \in ActRecs BY <1>1, <1>2, ActionTypes, ZenonT(40)
<1>4. act' \in [Actions -> ActRecs] BY <1>3, Zenon DEF Sweep
<1>5. ui' \in UiRecs /\ ui'.pc = "stopping" BY <1>1 DEF UiRecs
<1>6. RTypeOK' BY <1>1, <1>4, <1>5 DEF RInv, RTypeOK
<1>7. CoreSame
  <2>1. ASSUME NEW r \in ActRecs, NEW n, n = r \/ n = [r EXCEPT !.abandoned = TRUE, !.ctx = TRUE]
        PROVE  /\ n.kind = r.kind /\ n.wire = r.wire /\ n.binding = r.binding /\ n.acks = r.acks
               /\ n.draining = r.draining /\ n.done = r.done /\ n.result = r.result
    BY <2>1 DEF ActRecs
  <2>2. \A a \in Actions : act[a] \in ActRecs BY <1>1
  <2> QED BY <1>2, <2>1, <2>2, ZenonT(40) DEF CoreSame
<1>8. Began(0) /\ \A a \in Actions : act'[a].result = act[a].result BY <1>7, Spaces DEF CoreSame, Began
<1>9. UiInv' /\ QuitInv' BY <1>1, <1>5 DEF UiInv, QuitInv
<1>10. LastInv'
  <2>1. \A h \in Handles : Executed(h) => Executed(h)' BY <1>1, <1>5, <1>8, UiExecuted DEF SyncPcs
  <2> QED BY <1>1, <1>7, <2>1, LastFrame DEF RInv
<1> QED BY <1>1, <1>5, <1>6, <1>8, <1>9, <1>10, UiTurns

\* The synchronous run reads the binding.
LEMMA SyncLoadKeeps ==
    ASSUME RInv, SyncLoad
    PROVE  RInv'
<1>1. /\ ui.pc = "syncLoad" /\ enq = Nil /\ ui \in UiRecs /\ binding \in BoundTo
      /\ canc[UI] = Nil /\ act \in [Actions -> ActRecs]
      /\ ui.a = NextAction - 1 /\ ui.a \in Actions /\ act[ui.a].kind = "sync"
      /\ UNCHANGED <<binding, generation, last, queue, launching, run, sess, enq, canc,
                     tabs, signal, retirer, stray>>
  BY DEF SyncLoad, RInv, RTypeOK, UiInv, CancelInv
<1>2. CASE binding = NoSess
  <2>1. UNCHANGED act /\ ui' = IdleUi BY <1>2 DEF SyncLoad
  <2>2. ui' \in UiRecs /\ ui'.pc = "idle" BY <2>1 DEF UiRecs, IdleUi, Opt
  <2>3. RTypeOK' BY <1>1, <2>1, <2>2 DEF RInv, RTypeOK
  <2>4. QuitInv' BY <2>2 DEF QuitInv
  <2> QED BY <1>1, <2>1, <2>2, <2>3, <2>4, UiMoves DEF SyncPcs
<1>3. CASE binding # NoSess
  <2>1. PICK a \in Actions : a = ui.a BY <1>1
  <2>2. act' = [act EXCEPT ![a] = [act[a] EXCEPT !.binding = binding]] /\ ui' = [ui EXCEPT !.pc = "syncLock"]
        /\ binding \in Sessions
    BY <1>1, <1>3, <2>1 DEF SyncLoad, BoundTo
  <2>3. [act[a] EXCEPT !.binding = binding] \in ActRecs BY <1>1, ActionTypes, Zenon
  <2>4. act' \in [Actions -> ActRecs] BY <1>1, <2>2, <2>3
  <2>5. \A c \in Actions :
          /\ act'[c].kind = act[c].kind /\ act'[c].wire = act[c].wire /\ act'[c].acks = act[c].acks
          /\ act'[c].draining = act[c].draining /\ act'[c].done = act[c].done
          /\ act'[c].result = act[c].result
    BY <1>1, <2>2 DEF ActRecs
  <2>6. act'[a].binding = binding BY <1>1, <2>2 DEF ActRecs
  <2>7. ui' \in UiRecs /\ ui'.pc = "syncLock" /\ ui'.a = a BY <1>1, <2>1, <2>2 DEF UiRecs
  <2>8. RTypeOK' BY <1>1, <2>4, <2>7 DEF RInv, RTypeOK
  <2>9. Began(0) BY <2>5, Spaces DEF Began
  <2>10. UiInv'
    <3>1. NextAction' = NextAction BY <2>5, NextSame DEF RInv
    <3> QED BY <1>1, <2>1, <2>2, <2>5, <2>6, <2>7, <3>1 DEF UiInv
  <2>11. QuitInv' BY <2>7 DEF QuitInv
  <2>12. LastInv'
    <3>1. \A h \in Handles : Executed(h) => Executed(h)' BY <1>1, <2>1, <2>7, <2>9, UiExecuted DEF SyncPcs
    <3>2. last # Nil => last.root \in Actions /\ (last.h # Nil => last.h \in Handles) BY DEF RInv, RTypeOK, Slots, Opt
    <3> QED BY <1>1, <2>5, <3>1, <3>2 DEF RInv, LastInv, Async
  <2> QED BY <1>1, <2>5, <2>7, <2>8, <2>9, <2>10, <2>11, <2>12, UiTurns
<1> QED BY <1>2, <1>3

\* CancelAndWaitActiveRun: what it waits for.
LEMMA QuitCancelKeeps ==
    ASSUME RInv, QuitCancel
    PROVE  RInv'
<1> PICK s \in Opt(Slots) : s = last BY DEF RInv, RTypeOK
<1> PICK r \in Opt(Actions) : r = PendingRoot(s) BY RootTypes
<1>1. /\ ui.pc = "idle" /\ enq = Nil /\ act \in [Actions -> ActRecs] /\ LastInv
      /\ canc \in [Threads -> Opt(Cancels)] /\ UI \in Threads /\ canc[UI] = Nil
      /\ UNCHANGED <<binding, generation, last, queue, launching, run, sess, enq,
                     tabs, signal, retirer, stray>>
  BY ThreadFacts DEF QuitCancel, RInv, RTypeOK, UiInv, CancelInv
<1> DEFINE nothing == s = Nil \/ (s.h = Nil /\ r = Nil /\ act[s.root].kind # "batch")
<1>2. /\ ui' = [pc |-> "quitWait", a |-> IF nothing THEN 0 ELSE s.root,
                h |-> IF r = Nil /\ s # Nil THEN s.h ELSE Nil]
      /\ act' = IF r = Nil THEN act ELSE [act EXCEPT ![r].ctx = TRUE]
      /\ canc' = [canc EXCEPT ![UI] = IF r # Nil THEN CancelCurrent(act[r].binding, MaxActions)
                                      ELSE IF s # Nil /\ s.h # Nil THEN CancelHandle(s.h, MaxActions)
                                      ELSE Nil]
  BY DEF QuitCancel
<1>3. /\ s # Nil => s \in Slots /\ s.root \in Actions /\ s.h \in Opt(Handles) /\ s.st \in {"pending", "resolved"}
                    /\ s.more \in BOOLEAN
      /\ r # Nil => s # Nil /\ r = s.root /\ r \in Actions /\ (s.st = "pending" \/ s.more)
      /\ r = Nil => s = Nil \/ (s.st # "pending" /\ ~s.more)
  BY Spaces DEF Slots, Opt, PendingRoot
<1>4. PICK c \in Opt(Cancels) : /\ canc' = [canc EXCEPT ![UI] = c]
                                /\ c # Nil => c.st = "check" /\ c.upto = MaxActions
  <2>1. CASE r # Nil
    <3>1. act[r].binding \in BoundTo /\ MaxActions \in 0..MaxActions BY <1>1, <1>3, <2>1, Reaches DEF ActRecs
    <3>2. PICK c \in Cancels : c = CancelCurrent(act[r].binding, MaxActions) BY <3>1, CancelTypes
    <3>3. c.st = "check" /\ c.upto = MaxActions BY <3>2 DEF CancelCurrent
    <3> QED BY <1>2, <2>1, <3>2, <3>3 DEF Opt
  <2>2. CASE r = Nil /\ s # Nil /\ s.h # Nil
    <3>1. s.h \in Handles /\ MaxActions \in 0..MaxActions BY <1>3, <2>2, Reaches DEF Opt
    <3>2. PICK c \in Cancels : c = CancelHandle(s.h, MaxActions) BY <3>1, CancelTypes
    <3>3. c.st = "check" /\ c.upto = MaxActions BY <3>2 DEF CancelHandle
    <3> QED BY <1>2, <2>2, <3>2, <3>3 DEF Opt
  <2>3. CASE r = Nil /\ ~(s # Nil /\ s.h # Nil) BY <1>2, <2>3 DEF Opt
  <2> QED BY <2>1, <2>2, <2>3
<1>5. /\ canc' \in [Threads -> Opt(Cancels)] /\ canc'[UI] = c
      /\ \A t \in Threads \ {UI} : canc'[t] = canc[t]
  BY <1>1, <1>4
<1>6. /\ ui' \in UiRecs /\ ui'.pc = "quitWait" /\ ui'.a = (IF nothing THEN 0 ELSE s.root)
      /\ ui'.h = IF r = Nil /\ s # Nil THEN s.h ELSE Nil
  <2>1. (IF nothing THEN 0 ELSE s.root) \in Actions \cup {0} BY <1>3
  <2>2. (IF r = Nil /\ s # Nil THEN s.h ELSE Nil) \in Opt(Handles) BY <1>3 DEF Opt
  <2> QED BY <1>2, <2>1, <2>2 DEF UiRecs
<1>7. act' \in [Actions -> ActRecs] /\ CoreSame
  <2>1. CASE r = Nil BY <1>1, <1>2, <2>1 DEF CoreSame
  <2>2. CASE r # Nil
    <3>1. act' = [act EXCEPT ![r] = [act[r] EXCEPT !.ctx = TRUE]] /\ [act[r] EXCEPT !.ctx = TRUE] \in ActRecs
      BY <1>1, <1>2, <1>3, <2>2, ActionTypes, Zenon
    <3>2. act' \in [Actions -> ActRecs] BY <1>1, <3>1
    <3> QED BY <1>1, <3>1, <3>2 DEF CoreSame, ActRecs
  <2> QED BY <2>1, <2>2
<1>8. RTypeOK' BY <1>1, <1>5, <1>6, <1>7 DEF RInv, RTypeOK
<1>9. Began(0) /\ \A a \in Actions : act'[a].result = act[a].result BY <1>7, Spaces DEF CoreSame, Began
<1>10. UiInv' BY <1>1, <1>6 DEF UiInv
<1>11. \A h \in Handles : Executed(h) => Executed(h)' BY <1>1, <1>6, <1>9, UiExecuted DEF SyncPcs
<1>12. LastInv' BY <1>1, <1>7, <1>11, LastFrame DEF RInv
<1>13. QuitInv'
  <2> SUFFICES ASSUME ~nothing PROVE QuitInv' BY <1>6 DEF QuitInv
  <2>1. s # Nil /\ ui'.a = s.root /\ s.root \in Actions /\ act[s.root].kind # "none" BY <1>1, <1>3, <1>6 DEF LastInv
  <2>2. act'[s.root].kind = act[s.root].kind BY <1>7, <2>1 DEF CoreSame
  <2>3. CASE r # Nil
    <3>1. ui'.h = Nil /\ Async(s.root) BY <1>1, <1>3, <1>6, <2>3 DEF LastInv, Async, AsyncKinds
    <3> QED BY <1>6, <2>1, <2>2, <3>1 DEF QuitInv, Async
  <2>4. CASE r = Nil /\ act[s.root].kind = "batch" BY <1>6, <2>1, <2>2, <2>4 DEF QuitInv, Async, AsyncKinds
  <2>5. CASE r = Nil /\ act[s.root].kind # "batch"
    <3>1. s.h # Nil /\ ui'.h = s.h BY <1>6, <2>1, <2>5
    <3>2. s.h \in Handles /\ s.h[1] = s.root /\ s.h[2] \in Stmts(act[s.root].kind) /\ Executed(s.h)
      BY <1>1, <1>3, <3>1 DEF LastInv, Opt
    <3>3. s.h = <<s.root, 1>> BY <2>5, <3>2, Spaces DEF Stmts
    <3>4. PICK h \in Handles : h = s.h BY <3>2
    <3>5. Executed(h)' /\ ui'.h = h BY <1>11, <3>1, <3>2, <3>4
    <3>6. Executed(ui.h)' BY <3>5 DEF Executed
    <3> QED BY <1>6, <2>1, <2>2, <2>5, <3>1, <3>3, <3>6 DEF QuitInv
  <2> QED BY <2>3, <2>4, <2>5
<1>14. c # Nil => \A a \in Actions : Async(a) => a <= c.upto BY <1>4, Spaces
<1> QED BY <1>1, <1>4, <1>5, <1>6, <1>8, <1>9, <1>10, <1>12, <1>13, <1>14, UiTurns

\* The UI thread passes the chokepoint.
LEMMA UiPreempts ==
    ASSUME RInv, RTypeOK', SessShrinks,
           \A d \in Sessions : sess'[d].st # sess[d].st => d \in Streaming,
           NEW c \in Opt(Cancels), canc' = [canc EXCEPT ![UI] = c],
           c # Nil => c.st = "load" /\ c.upto = MaxActions /\ ui'.pc = "sweep",
           UNCHANGED <<last, act, queue, run, enq, tabs, signal>>,
           ui.pc # "syncExec", ui'.pc \notin SyncPcs \/ (ui'.a = ui.a /\ ui.pc \in SyncPcs),
           UiInv', QuitInv', NoStrayCancel'
    PROVE  RInv'
<1>1. RunStays /\ CoreSame /\ Began(0) BY Spaces DEF RunStays, CoreSame, Began
<1>2. canc \in [Threads -> Opt(Cancels)] /\ UI \in Threads BY ThreadFacts DEF RInv, RTypeOK
<1>3. canc'[UI] = c /\ \A t \in Threads \ {UI} : canc'[t] = canc[t] BY <1>2
<1>4. \A a \in Actions : /\ canc'[Disposer(a)] = canc[Disposer(a)]
                         /\ canc'[WireCancel(a)] = canc[WireCancel(a)]
                         /\ canc'[NavWatch(a)] = canc[NavWatch(a)]
  <2>1. ASSUME NEW a \in Actions PROVE {Disposer(a), WireCancel(a), NavWatch(a)} \subseteq Threads \ {UI} BY ThreadFacts
  <2> QED BY <1>3, <2>1
<1>5. /\ ActsInv' /\ PlaceInv' /\ SignalInv' /\ AckInv' /\ HoldInv'
      /\ \A a \in Actions : canc[Disposer(a)] # Nil /\ canc[Disposer(a)].st = "hit" =>
                /\ sess'[canc[Disposer(a)].b].st = sess[canc[Disposer(a)].b].st
                /\ sess'[canc[Disposer(a)].b].h = sess[canc[Disposer(a)].b].h
  <2>1. \A a \in Actions : canc'[Disposer(a)] = canc[Disposer(a)] BY <1>4
  <2>2. run'.h = run.h /\ (run'.pc \in {"return", "publish", "ack"} <=> run.pc \in {"return", "publish", "ack"})
        /\ (run.pc = "exec" => UNCHANGED run) /\ (ui.pc = "syncExec" => UNCHANGED ui)
    OBVIOUS
  <2> QED BY <1>1, <2>1, <2>2, PreemptKeeps
<1>6. RunInv' BY <1>1, RunFrame DEF RInv
<1>7. LastInv'
  <2>1. \A h \in Handles : Executed(h) => Executed(h)' BY <1>1, UiExecuted
  <2> QED BY <1>1, <2>1, LastFrame DEF RInv
<1>8. CancelInv'
  <2>1. \A a \in Actions : /\ Async(a)' = Async(a) /\ Running(a)' = Running(a) BY DEF Async, Running
  <2>2. ASSUME NEW t \in Threads, canc'[t] # Nil
        PROVE  /\ canc'[t].st = "hit" => canc'[t].b \in Sessions
               /\ t \notin {UI, Retirer} => canc'[t].st \in {"check", "hit"}
               /\ canc'[t].st \in {"cas", "abandon"} => canc'[t].root # Nil
    BY <1>3, <2>2 DEF RInv, CancelInv
  <2>3. ASSUME NEW a \in Actions, canc'[Disposer(a)] # Nil
        PROVE  /\ canc'[Disposer(a)].upto = a /\ canc'[Disposer(a)].h = <<a, 1>>
               /\ canc'[Disposer(a)].st = "hit" =>
                    /\ sess'[canc'[Disposer(a)].b].st = "live"
                    /\ sess'[canc'[Disposer(a)].b].h = <<a, 1>>
    BY <1>4, <1>5, <2>3 DEF RInv, CancelInv
  <2>4. \A a \in Actions :
         /\ canc'[WireCancel(a)] # Nil => ~act'[a].wire /\ canc'[WireCancel(a)].upto = a - 1 /\ Async(a)'
         /\ canc'[NavWatch(a)] # Nil => Running(a)' /\ run'.pc \in {"lock", "exec", "return"}
                                        /\ canc'[NavWatch(a)].upto = a
    BY <1>4, <2>1 DEF RInv, CancelInv
  <2>5. canc'[Launcher] = canc[Launcher] /\ canc'[Retirer] = canc[Retirer] BY <1>3, ThreadFacts
  <2>6. /\ canc'[UI] # Nil => /\ ui'.pc \in {"cancel", "syncCancel", "syncHook", "quitWait", "sweep"}
                              /\ \A a \in Actions : Async(a)' => a <= canc'[UI].upto
        /\ canc'[Retirer] # Nil => canc'[Retirer].upto = MaxActions
        /\ canc'[Launcher] # Nil => run'.pc = "hook" /\ canc'[Launcher].upto = run'.a
    BY <1>3, <2>5, Spaces DEF RInv, CancelInv
  <2> QED BY <2>2, <2>3, <2>4, <2>6 DEF CancelInv
<1> QED BY <1>5, <1>6, <1>7, <1>8 DEF RInv

LEMMA SyncHookKeeps ==
    ASSUME RInv, SyncHook
    PROVE  RInv'
<1>1. /\ ui.pc = "syncHook" /\ canc[UI] = Nil /\ ui \in UiRecs /\ enq = Nil
      /\ PreemptHook(ui.a, binding) /\ ui' = [ui EXCEPT !.pc = "syncLoad"]
      /\ ui.a = NextAction - 1 /\ ui.a \in Actions /\ act[ui.a].kind = "sync"
      /\ canc \in [Threads -> Opt(Cancels)]
      /\ UNCHANGED <<binding, generation, last, act, queue, launching, run, enq, canc,
                     tabs, signal, retirer>>
  BY DEF SyncHook, RInv, RTypeOK, UiInv
<1>2. \A d \in Streaming : sess[d].h[1] > ui.a => act[sess[d].h[1]].kind = "sync"
  <2> SUFFICES ASSUME NEW d \in Streaming, sess[d].h[1] > ui.a PROVE FALSE OBVIOUS
  <2>1. d \in Sessions /\ sess[d].st = "live" BY DEF Streaming
  <2>2. sess[d].h[1] \in Actions /\ act[sess[d].h[1]].kind # "none" BY <2>1, StreamReached
  <2>3. sess[d].h[1] < NextAction /\ NextAction \in Int BY <2>2, Spaces DEF RInv, ActsInv
  <2> QED BY <1>1, <2>2, <2>3, Spaces
<1>3. /\ SessShrinks /\ sess' \in [Sessions -> SessRecs]
      /\ \A d \in Sessions : sess'[d].st # sess[d].st => d \in Streaming
      /\ stray' \in SUBSET Actions /\ \A c \in stray' : act[c].kind = "sync"
  BY <1>1, <1>2, PreemptFacts
<1>4. ui' \in UiRecs /\ ui'.pc = "syncLoad" /\ ui'.a = ui.a BY <1>1 DEF UiRecs
<1>5. RTypeOK' BY <1>1, <1>3, <1>4 DEF RInv, RTypeOK
<1>6. NextAction' = NextAction BY <1>1, NextSame DEF RInv
<1>7. UiInv' /\ QuitInv' BY <1>1, <1>4, <1>6 DEF UiInv, QuitInv
<1>8. NoStrayCancel' BY <1>1, <1>3 DEF NoStrayCancel
<1>9. PICK c \in Opt(Cancels) : c = Nil BY DEF Opt
<1>10. canc' = [canc EXCEPT ![UI] = c]
  <2>1. UI \in Threads BY ThreadFacts
  <2> QED BY <1>1, <1>9, <2>1
<1>11. ui'.pc \notin SyncPcs \/ (ui'.a = ui.a /\ ui.pc \in SyncPcs) BY <1>1, <1>4 DEF SyncPcs
<1> QED BY <1>1, <1>3, <1>4, <1>5, <1>7, <1>8, <1>9, <1>10, <1>11, UiPreempts

LEMMA CloseKeeps ==
    ASSUME RInv, Close
    PROVE  RInv'
<1>1. /\ ui.pc \in {"drained", "closing"} /\ ui \in UiRecs /\ enq = Nil
      /\ PreemptHook(MaxActions, NoSess) /\ ui' = [ui EXCEPT !.pc = "sweep"]
      /\ canc \in [Threads -> Opt(Cancels)] /\ UI \in Threads
      /\ UNCHANGED <<binding, generation, last, act, queue, launching, run, enq,
                     tabs, signal, retirer>>
  BY ThreadFacts DEF Close, RInv, RTypeOK, UiInv
<1>2. \A d \in Streaming : sess[d].h[1] > MaxActions => act[sess[d].h[1]].kind = "sync"
  <2> SUFFICES ASSUME NEW d \in Streaming, sess[d].h[1] > MaxActions PROVE FALSE OBVIOUS
  <2>1. d \in Sessions /\ sess[d].st = "live" BY DEF Streaming
  <2>2. sess[d].h[1] \in Actions BY <2>1, StreamReached
  <2> QED BY <2>2, Spaces
<1>3. /\ SessShrinks /\ sess' \in [Sessions -> SessRecs]
      /\ \A d \in Sessions : sess'[d].st # sess[d].st => d \in Streaming
      /\ stray' \in SUBSET Actions /\ \A c \in stray' : act[c].kind = "sync"
  BY <1>1, <1>2, PreemptFacts
<1>4. ui' \in UiRecs /\ ui'.pc = "sweep" BY <1>1 DEF UiRecs
<1>5. PICK c \in Opt(Cancels) : c = CancelSlot(MaxActions, FALSE) BY Reaches, CancelTypes DEF Opt
<1>6. c.st = "load" /\ c.upto = MaxActions BY <1>5 DEF CancelSlot
<1>7. canc' = [canc EXCEPT ![UI] = c] BY <1>5 DEF Close
<1>8. RTypeOK' BY <1>1, <1>3, <1>4, <1>7 DEF RInv, RTypeOK
<1>9. UiInv' /\ QuitInv' BY <1>1, <1>4 DEF UiInv, QuitInv
<1>10. NoStrayCancel' BY <1>1, <1>3 DEF NoStrayCancel
<1>11. ui'.pc \notin SyncPcs BY <1>4 DEF SyncPcs
<1> QED BY <1>1, <1>3, <1>4, <1>6, <1>7, <1>8, <1>9, <1>10, <1>11, UiPreempts

\* The navigation's context ends while its operation runs.
LEMMA NavAbortKeeps ==
    ASSUME RInv, NEW a \in Actions, NavAbort(a)
    PROVE  RInv'
<1>1. /\ run.a = a /\ run.pc \in {"lock", "exec"} /\ canc \in [Threads -> Opt(Cancels)]
      /\ NavWatch(a) \in Threads /\ run \in RunRecs
      /\ UNCHANGED <<binding, generation, last, act, queue, launching, run, sess, enq,
                     tabs, signal, ui, retirer, stray>>
  BY ThreadFacts DEF NavAbort, RInv, RTypeOK
<1>2. PICK c \in Cancels : c = CancelCurrent(run.b, a)
  <2>1. a \in 0..MaxActions /\ run.b \in BoundTo BY <1>1, Reaches DEF RunRecs
  <2> QED BY <2>1, CancelTypes
<1>3. c.st = "check" /\ c.upto = a BY <1>2 DEF CancelCurrent
<1>4. canc' = [canc EXCEPT ![NavWatch(a)] = c] BY <1>2 DEF NavAbort
<1>5. /\ canc' \in [Threads -> Opt(Cancels)] /\ canc'[NavWatch(a)] = c
      /\ \A t \in Threads \ {NavWatch(a)} : canc'[t] = canc[t]
  BY <1>1, <1>4 DEF Opt
<1>6. RTypeOK' /\ CoreSame BY <1>1, <1>5 DEF RInv, RTypeOK, CoreSame
<1>7. LastInv' BY <1>1, <1>6, ExecutedFrame, LastFrame DEF RInv
<1>8. ASSUME NEW d \in Actions
      PROVE  /\ canc'[Disposer(d)] = canc[Disposer(d)] /\ canc'[WireCancel(d)] = canc[WireCancel(d)]
             /\ d # a => canc'[NavWatch(d)] = canc[NavWatch(d)]
  <2>1. {Disposer(d), WireCancel(d)} \subseteq Threads \ {NavWatch(a)}
        /\ (d # a => NavWatch(d) \in Threads \ {NavWatch(a)})
    BY ThreadFacts
  <2> QED BY <1>5, <2>1
<1>9. \A t \in {UI, Launcher, Retirer} : canc'[t] = canc[t] BY <1>5, ThreadFacts
<1>10. CancelInv'
  <2>1. \A d \in Actions : /\ Async(d)' = Async(d) /\ Running(d)' = Running(d) BY <1>1 DEF Async, Running
  <2>2. ASSUME NEW t \in Threads, canc'[t] # Nil
        PROVE  /\ canc'[t].st = "hit" => canc'[t].b \in Sessions
               /\ t \notin {UI, Retirer} => canc'[t].st \in {"check", "hit"}
               /\ canc'[t].st \in {"cas", "abandon"} => canc'[t].root # Nil
    BY <1>3, <1>5, <2>2 DEF RInv, CancelInv
  <2>3. Running(a) BY <1>1 DEF Running
  <2>4. \A d \in Actions : canc'[NavWatch(d)] # Nil => /\ Running(d)' /\ run'.pc \in {"lock", "exec", "return"}
                                                       /\ canc'[NavWatch(d)].upto = d
    BY <1>1, <1>3, <1>5, <1>8, <2>1, <2>3 DEF RInv, CancelInv
  <2>5. ASSUME NEW d \in Actions
        PROVE  /\ canc'[WireCancel(d)] # Nil => ~act'[d].wire /\ canc'[WireCancel(d)].upto = d - 1 /\ Async(d)'
               /\ canc'[Disposer(d)] # Nil =>
                    /\ canc'[Disposer(d)].upto = d /\ canc'[Disposer(d)].h = <<d, 1>>
                    /\ canc'[Disposer(d)].st = "hit" =>
                         /\ sess'[canc'[Disposer(d)].b].st = "live"
                         /\ sess'[canc'[Disposer(d)].b].h = <<d, 1>>
    <3>1. /\ canc[WireCancel(d)] # Nil => ~act[d].wire /\ canc[WireCancel(d)].upto = d - 1 /\ Async(d)
          /\ canc[Disposer(d)] # Nil =>
               /\ canc[Disposer(d)].upto = d /\ canc[Disposer(d)].h = <<d, 1>>
               /\ canc[Disposer(d)].st = "hit" =>
                    /\ sess[canc[Disposer(d)].b].st = "live"
                    /\ sess[canc[Disposer(d)].b].h = <<d, 1>>
      BY DEF RInv, CancelInv
    <3> QED BY <1>1, <1>8, <2>1, <3>1
  <2>6. /\ canc'[UI] # Nil => /\ ui'.pc \in {"cancel", "syncCancel", "syncHook", "quitWait", "sweep"}
                              /\ \A d \in Actions : Async(d)' => d <= canc'[UI].upto
        /\ canc'[Retirer] # Nil => canc'[Retirer].upto = MaxActions
        /\ canc'[Launcher] # Nil => run'.pc = "hook" /\ canc'[Launcher].upto = run'.a
    BY <1>1, <1>9, <2>1 DEF RInv, CancelInv
  <2> QED BY <2>2, <2>4, <2>5, <2>6 DEF CancelInv
<1> QED BY <1>1, <1>6, <1>7, <1>8, <1>10, OnlyCancels

\* An ack's callback runs: its statement is settled, its rows are read or closed.
LEMMA SettleKeeps ==
    ASSUME RInv, NEW k \in tabs.acked, Settle(k)
    PROVE  RInv'
<1>1. /\ sess \in [Sessions -> SessRecs] /\ ui.pc = "idle"
      /\ tabs \in [acked : SUBSET (Actions \X (1..2) \X Opt(Handles)), open : SUBSET Handles]
      /\ UNCHANGED <<binding, generation, last, act, queue, launching, run, enq, canc,
                     ui, retirer, stray>>
  BY DEF Settle, RInv, RTypeOK
<1>2. k[1] \in Actions /\ k[2] \in 1..2 /\ k[3] \in Opt(Handles) /\ k = <<k[1], k[2], k[3]>> BY <1>1
<1>3. /\ Told(k[1], k[2]) # 0 /\ k[2] \in Stmts(act[k[1]].kind)
      /\ k[3] # Nil => k[3] = <<k[1], k[2]>> /\ k[3] \notin tabs.open /\ act[k[1]].kind # "bound"
      /\ \A m \in tabs.acked : k[1] = m[1] /\ k[2] = m[2] => k = m
  BY DEF RInv, AckInv
<1>4. /\ tabs'.acked = tabs.acked \ {k}
      /\ tabs'.open = tabs.open \/ (k[3] # Nil /\ tabs'.open = tabs.open \cup {k[3]})
      /\ tabs' \in [acked : SUBSET (Actions \X (1..2) \X Opt(Handles)), open : SUBSET Handles]
  <2>1. CASE tabs' = [acked |-> tabs.acked \ {k}, open |-> tabs.open \cup (IF k[3] = Nil THEN {} ELSE {k[3]})]
    <3>1. CASE k[3] = Nil BY <1>1, <2>1, <3>1
    <3>2. CASE k[3] # Nil
      <4>1. k[3] \in Handles BY <1>2, <3>2 DEF Opt
      <4> QED BY <1>1, <2>1, <3>2, <4>1
    <3> QED BY <3>1, <3>2
  <2>2. CASE tabs' = [tabs EXCEPT !.acked = @ \ {k}] BY <1>1, <2>2
  <2> QED BY <2>1, <2>2 DEF Settle
<1>5. /\ sess' \in [Sessions -> SessRecs] /\ SessShrinks
      /\ \A b \in Sessions : sess'[b] # sess[b] => k[3] # Nil /\ sess[b].h = k[3]
      /\ k[3] # Nil => tabs'.open = tabs.open \cup {k[3]} \/ ~Live(k[3])'
  <2>1. CASE /\ tabs' = [acked |-> tabs.acked \ {k}, open |-> tabs.open \cup (IF k[3] = Nil THEN {} ELSE {k[3]})]
             /\ UNCHANGED sess
    BY <1>1, <2>1 DEF SessShrinks
  <2>2. CASE k[3] # Nil /\ sess' = Released(k[3])
    <3>1. PICK h \in Handles : h = k[3] BY <1>2, <2>2 DEF Opt
    <3>2. sess' = Released(h) BY <2>2, <3>1
    <3>3. /\ sess' \in [Sessions -> SessRecs] /\ SessShrinks /\ ~Live(h)'
          /\ \A b \in Sessions : sess[b].h # h => sess'[b] = sess[b]
      BY <1>1, <3>2, ReleasedFacts
    <3>4. Live(k[3])' <=> Live(h)' BY <3>1 DEF Live, HeldBy
    <3> QED BY <2>2, <3>1, <3>3, <3>4
  <2> QED BY <2>1, <2>2 DEF Settle
<1>6. signal' = IF UnsettledStmts(k[1]) = {k[2]} /\ signal = k[1] THEN 0 ELSE signal BY DEF Settle
<1>7. RTypeOK' BY <1>1, <1>4, <1>5, <1>6 DEF RInv, RTypeOK
<1>8. CoreSame /\ RunStays BY <1>1 DEF CoreSame, RunStays
<1>9. ActsInv' /\ PlaceInv' /\ NoStrayCancel' /\ UiInv' /\ RunInv'
  BY <1>1, <1>5, <1>8, CoreFacts, PlaceFrame, StrayFrame, UiFrame, RunFrame DEF RInv
<1>10. LastInv' /\ QuitInv' BY <1>1, <1>5, <1>8, ExecutedFrame, LastFrame, QuitFrame DEF RInv
<1>11. AckInv'
  <2>1. \A a \in Actions : Finished(a)' => act'[a].wire /\ \A i \in Stmts(act'[a].kind) : Told(a, i)' = 1
    BY <1>1 DEF RInv, AckInv, Finished, Told
  <2>2. ASSUME NEW m \in tabs'.acked
        PROVE  /\ Told(m[1], m[2])' # 0 /\ m[2] \in Stmts(act'[m[1]].kind)
               /\ m[3] # Nil => /\ m[3] = <<m[1], m[2]>> /\ m[3] \notin tabs'.open
                                /\ act'[m[1]].kind # "bound"
    <3>1. /\ Told(m[1], m[2]) # 0 /\ m[2] \in Stmts(act[m[1]].kind)
          /\ m[3] # Nil => /\ m[3] = <<m[1], m[2]>> /\ m[3] \notin tabs.open
                           /\ act[m[1]].kind # "bound"
      BY <1>4, <2>2 DEF RInv, AckInv
    <3>2. m # k /\ m \in tabs.acked BY <1>4, <2>2
    <3>3. ASSUME m[3] # Nil, k[3] # Nil PROVE m[3] # k[3] BY <1>3, <3>1, <3>2, <3>3
    <3> QED BY <1>1, <1>4, <3>1, <3>3 DEF Told
  <2>3. \A l, m \in tabs'.acked : l[1] = m[1] /\ l[2] = m[2] => l = m BY <1>4 DEF RInv, AckInv
  <2>4. ASSUME NEW h \in tabs'.open
        PROVE  \/ act'[h[1]].kind = "sync"
               \/ Told(h[1], h[2])' # 0 /\ (act'[h[1]].kind = "bound" => act'[h[1]].result = "adopted")
    <3>1. CASE h \in tabs.open BY <1>1, <3>1 DEF RInv, AckInv, Told
    <3>2. CASE h \notin tabs.open
      <4>1. h = <<k[1], k[2]>> /\ act[k[1]].kind # "bound" BY <1>3, <1>4, <2>4, <3>2
      <4> QED BY <1>1, <1>3, <4>1 DEF Told
    <3> QED BY <3>1, <3>2
  <2>5. \A a \in Actions : act'[a].result # "none" => act'[a].kind = "bound" /\ Told(a, 1)' # 0
    BY <1>1 DEF RInv, AckInv, Told
  <2>6. \A a \in Actions : canc'[Disposer(a)] # Nil => act'[a].result = "disposed" BY <1>1 DEF RInv, AckInv
  <2> QED BY <2>1, <2>2, <2>3, <2>4, <2>5, <2>6 DEF AckInv
<1>12. HoldInv'
  <2>1. ASSUME NEW h \in Handles, Live(h)', Claimed(h) PROVE Claimed(h)'
    <3>1. CASE <<h[1], h[2], h>> \in tabs.acked
      <4>1. CASE <<h[1], h[2], h>> = k
        <5>1. k[3] = h /\ h # Nil BY <4>1, Spaces
        <5>2. Live(k[3])' BY <2>1, <5>1 DEF Live, HeldBy
        <5> QED BY <1>5, <5>1, <5>2 DEF Claimed
      <4>2. CASE <<h[1], h[2], h>> # k BY <1>4, <3>1, <4>2 DEF Claimed
      <4> QED BY <4>1, <4>2
    <3>2. CASE <<h[1], h[2], h>> \notin tabs.acked BY <1>1, <1>4, <2>1, <3>2 DEF Claimed
    <3> QED BY <3>1, <3>2
  <2>2. (run.pc = "exec" => UNCHANGED run) /\ (ui.pc = "syncExec" => UNCHANGED ui) BY <1>1
  <2> QED BY <1>5, <1>8, <2>1, <2>2, HoldFrame DEF RInv
<1>13. CancelInv'
  <2>1. ASSUME NEW a \in Actions, canc[Disposer(a)] # Nil, canc[Disposer(a)].st = "hit"
        PROVE  /\ sess'[canc[Disposer(a)].b].st = sess[canc[Disposer(a)].b].st
               /\ sess'[canc[Disposer(a)].b].h = sess[canc[Disposer(a)].b].h
    <3>1. canc[Disposer(a)].b \in Sessions /\ sess[canc[Disposer(a)].b].h = <<a, 1>>
      BY <2>1, ThreadFacts DEF RInv, CancelInv
    <3>2. k[3] # <<a, 1>> BY <2>1, DisposerSafe DEF RInv
    <3> QED BY <1>5, <3>1, <3>2
  <2> QED BY <1>1, <1>8, <2>1, CancelFrame DEF RInv
<1>14. SignalInv'
  <2>1. ASSUME NEW a \in Actions
        PROVE  UnsettledStmts(a)' = IF a = k[1] THEN UnsettledStmts(a) \ {k[2]} ELSE UnsettledStmts(a)
    <3>1. ASSUME NEW i \in 1..2, ~(a = k[1] /\ i = k[2]), NEW h \in Handles \cup {Nil}
          PROVE  <<a, i, h>> \in tabs'.acked <=> <<a, i, h>> \in tabs.acked
      BY <1>4, <3>1
    <3>2. \A i \in Stmts(act[a].kind) : i \in 1..2 BY Spaces
    <3>3. ASSUME a = k[1], NEW h \in Handles \cup {Nil} PROVE <<a, k[2], h>> \notin tabs'.acked BY <1>3, <1>4, <3>3
    <3>4. act[k[1]].acks[k[2]] # <<>> BY <1>2, <1>3, ToldType DEF RInv
    <3>5. act' = act BY <1>1
    <3>6. CASE a = k[1] BY <3>1, <3>2, <3>3, <3>4, <3>5, <3>6 DEF UnsettledStmts
    <3>7. CASE a # k[1] BY <3>1, <3>2, <3>5, <3>7 DEF UnsettledStmts
    <3> QED BY <3>6, <3>7
  <2>2. k[2] \in UnsettledStmts(k[1])
    <3>1. <<k[1], k[2], k[3]>> \in tabs.acked /\ k[3] \in Handles \cup {Nil} BY <1>2 DEF Opt
    <3> QED BY <1>3, <3>1 DEF UnsettledStmts
  <2>3. signal # 0 => signal \in Actions BY DEF RInv, RTypeOK
  <2>4. SignalInv BY DEF RInv
  <2>5. (signal # 0 => UnsettledStmts(signal) # {})'
    <3> SUFFICES ASSUME signal' # 0 PROVE (UnsettledStmts(signal) # {})' OBVIOUS
    <3>1. PICK s \in Actions : s = signal /\ signal' = s BY <1>6, <2>3
    <3>2. UnsettledStmts(s) # {}
      <4>1. UnsettledStmts(signal) # {} BY <2>4, <3>1, Spaces DEF SignalInv, SignalIsNewestRun
      <4> QED BY <3>1, <4>1 DEF UnsettledStmts
    <3>3. s = k[1] => UnsettledStmts(s) # {k[2]} BY <1>6, <3>1, Spaces
    <3>4. UnsettledStmts(s)' # {} BY <2>1, <2>2, <3>2, <3>3
    <3>5. (UnsettledStmts(signal) = UnsettledStmts(s))' BY <3>1 DEF UnsettledStmts
    <3> QED BY <3>4, <3>5
  <2>6. ASSUME NEW a \in Actions, act[a].kind \in {"run", "batch"}, UnsettledStmts(a)' # {},
               \A c \in Actions : act[c].kind \in {"run", "batch"} => c <= a
        PROVE  signal' = a
    <3>1. UnsettledStmts(a) # {} BY <2>1, <2>6
    <3>2. signal = a BY <2>4, <2>6, <3>1 DEF SignalInv, SignalIsNewestRun
    <3>3. ~(UnsettledStmts(k[1]) = {k[2]} /\ a = k[1]) BY <2>1, <2>6
    <3> QED BY <1>6, <3>2, <3>3
  <2>7. signal' # 0 => act'[signal'].kind \in {"run", "batch"} BY <1>1, <1>6, <2>4 DEF SignalInv
  <2>8. \A a \in {a \in Actions : act'[a].kind \in {"run", "batch"}} :
          UnsettledStmts(a)' # {} /\ (\A c \in {c \in Actions : act'[c].kind \in {"run", "batch"}} : c <= a)
            => signal' = a
    <3>1. act' = act BY <1>1
    <3> QED BY <2>6, <3>1
  <2> QED BY <2>5, <2>7, <2>8 DEF SignalInv, SignalIsNewestRun
<1> QED BY <1>7, <1>9, <1>10, <1>11, <1>12, <1>13, <1>14 DEF RInv

-----------------------------------------
(* The synchronous run. *)

\* It takes its session, gives it back, or streams from it.
LEMMA SyncCalls ==
    ASSUME RInv, RTypeOK', NEW a \in Actions, NEW b \in Sessions, ui.a = a,
           ui.pc \in {"syncLock", "syncExec"},
           ui.pc = "syncLock" => sess[b].st = "free",
           ui.pc = "syncExec" => sess[b].st = "exec" /\ sess[b].h = <<a, 1>>
                                 /\ \A c \in Sessions \ {b} : sess[c].h # <<a, 1>>,
           \A c \in Sessions \ {b} : sess'[c] = sess[c],
           \/ ui.pc = "syncLock" /\ sess'[b].st = "exec" /\ sess'[b].h = <<a, 1>> /\ ui'.pc = "syncExec" /\ ui'.a = a
           \/ /\ ui.pc = "syncExec" /\ sess'[b].st = "live" /\ sess'[b].h = <<a, 1>>
              /\ ui'.pc = "syncPublish" /\ ui'.a = a /\ ui'.h = <<a, 1>>
           \/ ui.pc = "syncExec" /\ sess'[b].st = "free" /\ sess'[b].h = Nil /\ ui'.pc = "idle",
           UNCHANGED <<last, act, queue, run, enq, canc, tabs, signal, stray>>
    PROVE  RInv'
<1>1. /\ act[a].kind = "sync" /\ a = NextAction - 1 /\ enq = Nil /\ canc[UI] = Nil
      /\ act[a].binding \in Sessions /\ <<a, 1>> \in Handles
  BY Spaces DEF RInv, UiInv, CancelInv
<1>2. CoreSame /\ RunStays /\ Began(0) BY Spaces DEF CoreSame, RunStays, Began
<1>3. ActsInv' /\ PlaceInv' /\ NoStrayCancel' /\ SignalInv' /\ AckInv' /\ NextAction' = NextAction
  BY <1>2, CoreFacts, PlaceFrame, StrayFrame, SignalFrame, AckFrame DEF RInv
<1>4. UiInv' BY <1>1, <1>3 DEF UiInv
<1>5. RunInv'
  <2>1. run.pc = "exec" => run.b \in Sessions /\ run.b # b
    <3> SUFFICES ASSUME run.pc = "exec" PROVE run.b \in Sessions /\ run.b # b OBVIOUS
    <3>1. /\ run.b \in Sessions /\ Async(run.a) /\ sess[run.b].h = <<run.a, run.i>>
          /\ sess[run.b].st \in {"exec", "explain"}
      BY DEF RInv, RunInv
    <3>2. run.a # a BY <1>1, <3>1 DEF Async, AsyncKinds
    <3> QED BY <3>1, <3>2
  <2>2. run.pc = "exec" => sess'[run.b] = sess[run.b] BY <2>1
  <2> QED BY <2>2 DEF RInv, RunInv, Async, Finished, Told
<1>6. \A h \in Handles : Executed(h) => Executed(h)' BY <1>2, UiExecuted DEF SyncPcs
<1>7. LastInv' /\ QuitInv' BY <1>2, <1>6, LastFrame DEF RInv, QuitInv
<1>8. HoldInv'
  <2> SUFFICES ASSUME NEW c \in Sessions
               PROVE  HoldInv!(c)'
    BY DEF HoldInv
  <2>1. HoldInv!(c) BY DEF RInv, HoldInv
  <2>2. CASE c = b BY <1>1, <2>1, <2>2, Spaces
  <2>3. CASE c # b
    <3>1. sess'[c] = sess[c] BY <2>3
    <3>2. sess[c].st = "live" => sess[c].h \in Handles BY <2>1
    <3>3. ASSUME sess[c].h \in Handles, Claimed(sess[c].h) PROVE Claimed(sess[c].h)' BY <3>1, <3>3, Spaces DEF Claimed
    <3>4. \A d : Running(d)' = Running(d) /\ Finished(d)' = Finished(d) BY DEF Running, Finished
    <3> QED BY <2>1, <2>3, <3>1, <3>2, <3>3, <3>4
  <2> QED BY <2>2, <2>3
<1>9. CancelInv'
  <2>1. ASSUME NEW d \in Actions, canc[Disposer(d)] # Nil, canc[Disposer(d)].st = "hit"
        PROVE  canc[Disposer(d)].b \in Sessions \ {b}
    BY <2>1, ThreadFacts DEF RInv, CancelInv
  <2> QED BY <1>1, <1>2, <2>1, CancelFrame DEF RInv
<1> QED BY <1>3, <1>4, <1>5, <1>7, <1>8, <1>9 DEF RInv

LEMMA SyncLockKeeps ==
    ASSUME RInv, SyncLock
    PROVE  RInv'
<1> PICK a \in Actions : a = ui.a BY DEF SyncLock, RInv, UiInv
<1> PICK b \in Sessions : b = act[a].binding BY SMTT(30) DEF SyncLock, RInv, UiInv
<1>1. /\ ui.pc = "syncLock" /\ ui \in UiRecs /\ sess \in [Sessions -> SessRecs]
      /\ enq = Nil /\ canc[UI] = Nil /\ <<a, 1>> \in Handles
      /\ UNCHANGED <<binding, generation, last, act, queue, launching, run, enq, canc,
                     tabs, signal, retirer, stray>>
  BY Spaces DEF SyncLock, RInv, RTypeOK, UiInv, CancelInv
<1>2. CASE ui' = IdleUi /\ UNCHANGED sess
  <2>1. ui' \in UiRecs /\ ui'.pc = "idle" BY <1>2 DEF UiRecs, IdleUi, Opt
  <2>2. RTypeOK' BY <1>1, <1>2, <2>1 DEF RInv, RTypeOK
  <2>3. QuitInv' BY <2>1 DEF QuitInv
  <2> QED BY <1>1, <1>2, <2>1, <2>2, <2>3, UiMoves DEF SyncPcs
<1>3. CASE /\ sess[b].st = "free"
           /\ sess' = [sess EXCEPT ![b] = [sess[b] EXCEPT !.st = "exec", !.h = <<a, 1>>]]
           /\ ui' = [ui EXCEPT !.pc = "syncExec"]
  <2>0. sess[b] \in SessRecs BY <1>1
  <2> PICK h \in Handles : h = <<a, 1>> BY <1>1
  <2>1. [sess[b] EXCEPT !.st = "exec", !.h = h] \in SessRecs BY <2>0 DEF SessRecs, Opt
  <2>2. /\ sess' \in [Sessions -> SessRecs] /\ sess'[b].st = "exec" /\ sess'[b].h = <<a, 1>>
        /\ \A c \in Sessions \ {b} : sess'[c] = sess[c]
    BY <1>1, <1>3, <2>1 DEF SessRecs
  <2>3. ui' \in UiRecs /\ ui'.pc = "syncExec" /\ ui'.a = a BY <1>1, <1>3 DEF UiRecs
  <2>4. RTypeOK' BY <1>1, <2>2, <2>3 DEF RInv, RTypeOK
  <2> QED BY <1>1, <1>3, <2>2, <2>3, <2>4, SyncCalls
<1> QED BY <1>2, <1>3 DEF SyncLock

LEMMA SyncExecKeeps ==
    ASSUME RInv, SyncInv, SyncExec
    PROVE  RInv'
<1> PICK a \in Actions : a = ui.a BY DEF SyncExec, RInv, UiInv
<1> PICK b \in Sessions : b = act[a].binding BY SMTT(30) DEF SyncExec, RInv, UiInv
<1>1. /\ ui.pc = "syncExec" /\ ui \in UiRecs /\ sess \in [Sessions -> SessRecs] /\ <<a, 1>> \in Handles
      /\ sess[b].st = "exec" /\ sess[b].h = <<a, 1>> /\ \A c \in Sessions \ {b} : sess[c].h # <<a, 1>>
      /\ UNCHANGED <<binding, generation, last, act, queue, launching, run, enq, canc,
                     tabs, signal, retirer, stray>>
  BY Spaces DEF SyncExec, RInv, RTypeOK, SyncInv
<1>2. CASE sess' = [sess EXCEPT ![b] = FreedSess(@)] /\ ui' = IdleUi
  <2>1. /\ sess' \in [Sessions -> SessRecs] /\ sess'[b].st = "free" /\ sess'[b].h = Nil
        /\ \A c \in Sessions \ {b} : sess'[c] = sess[c]
    BY <1>1, <1>2, FreedType
  <2>2. ui' \in UiRecs /\ ui'.pc = "idle" BY <1>2 DEF UiRecs, IdleUi, Opt
  <2>3. RTypeOK' BY <1>1, <2>1, <2>2 DEF RInv, RTypeOK
  <2> QED BY <1>1, <2>1, <2>2, <2>3, SyncCalls
<1>3. CASE /\ sess' = [sess EXCEPT ![b] = [sess[b] EXCEPT !.st = "live"]]
           /\ ui' = [ui EXCEPT !.pc = "syncPublish", !.h = <<a, 1>>]
  <2>1. [sess[b] EXCEPT !.st = "live"] \in SessRecs BY <1>1 DEF SessRecs
  <2>2. /\ sess' \in [Sessions -> SessRecs] /\ sess'[b].st = "live" /\ sess'[b].h = <<a, 1>>
        /\ \A c \in Sessions \ {b} : sess'[c] = sess[c]
    BY <1>1, <1>3, <2>1 DEF SessRecs
  <2>3. ui' \in UiRecs /\ ui'.pc = "syncPublish" /\ ui'.a = a /\ ui'.h = <<a, 1>> BY <1>1, <1>3 DEF UiRecs, Opt
  <2>4. RTypeOK' BY <1>1, <2>2, <2>3 DEF RInv, RTypeOK
  <2> QED BY <1>1, <2>2, <2>3, <2>4, SyncCalls
<1> QED BY <1>2, <1>3 DEF SyncExec

\* The handle is published, and a tab opened for it, or the handle is dropped.
LEMMA SyncPublishKeeps ==
    ASSUME RInv, SyncPublish
    PROVE  RInv'
<1> PICK a \in Actions : a = ui.a BY DEF SyncPublish, RInv, UiInv
<1>1. /\ ui.pc = "syncPublish" /\ ui.h = <<a, 1>> /\ act[a].kind = "sync" /\ <<a, 1>> \in Handles
      /\ enq = Nil /\ canc[UI] = Nil /\ ui' = IdleUi /\ last \in Opt(Slots)
      /\ UNCHANGED <<binding, generation, act, queue, launching, run, sess, enq, canc,
                     signal, retirer, stray>>
  BY Spaces DEF SyncPublish, RInv, RTypeOK, UiInv, CancelInv
<1>2. /\ tabs'.acked = tabs.acked /\ (tabs'.open = tabs.open \/ tabs'.open = tabs.open \cup {<<a, 1>>})
      /\ tabs' \in [acked : SUBSET (Actions \X (1..2) \X Opt(Handles)), open : SUBSET Handles]
  BY <1>1 DEF SyncPublish, RInv, RTypeOK
<1>3. PICK s \in Slots : s = Resolved(a, <<a, 1>>, FALSE) /\ s.root = a /\ s.st = "resolved" /\ s.h = <<a, 1>> /\ s.more = FALSE
  <2> PICK h \in Handles \cup {Nil} : h = <<a, 1>> BY <1>1
  <2>1. /\ [root |-> a, st |-> "resolved", h |-> h, more |-> FALSE] \in Slots BY DEF Slots
  <2> QED BY <2>1 DEF Resolved
<1>4. last' = s \/ last' = last BY <1>1, <1>3 DEF SyncPublish
<1>5. ui' \in UiRecs /\ ui'.pc = "idle" BY <1>1 DEF UiRecs, IdleUi, Opt
<1>6. RTypeOK' BY <1>1, <1>2, <1>4, <1>5 DEF RInv, RTypeOK, Opt
<1>7. CoreSame /\ RunStays /\ SessShrinks /\ Began(0) BY <1>1, Spaces DEF CoreSame, RunStays, SessShrinks, Began
<1>8. ActsInv' /\ PlaceInv' /\ NoStrayCancel' /\ RunInv'
  BY <1>1, <1>7, CoreFacts, PlaceFrame, StrayFrame, RunFrame DEF RInv
<1>9. UiInv' /\ QuitInv' BY <1>1, <1>5 DEF UiInv, QuitInv
<1>10. SignalInv'
  <2>1. \A c \in Actions : UnsettledStmts(c)' = UnsettledStmts(c) BY <1>1, <1>2 DEF UnsettledStmts
  <2>2. signal # 0 => signal \in Actions BY DEF RInv, RTypeOK
  <2> QED BY <1>1, <2>1, <2>2 DEF RInv, SignalInv, SignalIsNewestRun
<1>11. AckInv'
  <2>1. Fresh(a) BY <1>1 DEF RInv, PlaceInv, Async, AsyncKinds
  <2>2. ASSUME NEW k \in tabs'.acked
        PROVE  /\ Told(k[1], k[2])' # 0 /\ k[2] \in Stmts(act'[k[1]].kind)
               /\ k[3] # Nil => /\ k[3] = <<k[1], k[2]>> /\ k[3] \notin tabs'.open
                                /\ act'[k[1]].kind # "bound"
    <3>1. /\ Told(k[1], k[2]) # 0 /\ k[2] \in Stmts(act[k[1]].kind)
          /\ k[3] # Nil => /\ k[3] = <<k[1], k[2]>> /\ k[3] \notin tabs.open
                           /\ act[k[1]].kind # "bound"
      BY <1>2, <2>2 DEF RInv, AckInv
    <3>2. k[2] \in 1..2 BY <3>1, Spaces
    <3>3. k[1] # a BY <2>1, <3>1, <3>2 DEF Fresh
    <3>4. k[3] # Nil => k[3] # <<a, 1>> BY <3>1, <3>3
    <3> QED BY <1>1, <1>2, <3>1, <3>4 DEF Told
  <2>3. ASSUME NEW h \in tabs'.open
        PROVE  \/ act'[h[1]].kind = "sync"
               \/ Told(h[1], h[2])' # 0 /\ (act'[h[1]].kind = "bound" => act'[h[1]].result = "adopted")
    <3>1. CASE h \in tabs.open BY <1>1, <3>1 DEF RInv, AckInv, Told
    <3>2. CASE h = <<a, 1>> BY <1>1, <3>2
    <3> QED BY <1>2, <3>1, <3>2
  <2>4. \A k, m \in tabs'.acked : k[1] = m[1] /\ k[2] = m[2] => k = m BY <1>2 DEF RInv, AckInv
  <2>5. \A c \in Actions : Finished(c)' => act'[c].wire /\ \A i \in Stmts(act'[c].kind) : Told(c, i)' = 1
    BY <1>1 DEF RInv, AckInv, Finished, Told
  <2>6. \A c \in Actions : act'[c].result # "none" => act'[c].kind = "bound" /\ Told(c, 1)' # 0
    BY <1>1 DEF RInv, AckInv, Told
  <2>7. \A c \in Actions : canc'[Disposer(c)] # Nil => act'[c].result = "disposed" BY <1>1 DEF RInv, AckInv
  <2> QED BY <2>2, <2>3, <2>4, <2>5, <2>6, <2>7 DEF AckInv
<1>12. \A h \in Handles : Executed(h) => Executed(h)' BY <1>1, <1>5, <1>7, UiExecuted DEF SyncPcs
<1>13. LastInv'
  <2>1. CASE last' = last BY <1>7, <1>12, <2>1, LastFrame DEF RInv
  <2>2. CASE last' = s
    <3>1. Executed(<<a, 1>>)' BY <1>1, <1>5 DEF Executed
    <3>2. Executed(last.h)' BY <1>3, <2>2, <3>1 DEF Executed
    <3> QED BY <1>1, <1>3, <2>2, <3>2, Spaces DEF LastInv
  <2> QED BY <1>4, <2>1, <2>2
<1>14. HoldInv'
  <2>1. \A h \in Handles : Claimed(h) => Claimed(h)' BY <1>1, <1>2 DEF Claimed
  <2> QED BY <1>1, <1>7, <2>1, HoldFrame DEF RInv
<1>15. CancelInv' BY <1>1, <1>7, CancelFrame DEF RInv
<1> QED BY <1>6, <1>8, <1>9, <1>10, <1>11, <1>13, <1>14, <1>15 DEF RInv

-----------------------------------------
(* An action begins. *)

LEMMA NewRecord ==
    ASSUME NEW k \in AsyncKinds \cup {"sync"}, NEW b \in BoundTo, NEW g \in Nat
    PROVE  /\ NewAction(k, b, g) \in ActRecs /\ NewAction(k, b, g).kind = k
           /\ NewAction(k, b, g).binding = b /\ ~NewAction(k, b, g).wire
           /\ NewAction(k, b, g).acks = [i \in 1..2 |-> <<>>]
           /\ ~NewAction(k, b, g).draining /\ ~NewAction(k, b, g).done
           /\ NewAction(k, b, g).result = "none"
<1>1. [i \in 1..2 |-> <<>>] \in [1..2 -> Seq(Verdicts)] BY EmptySeq
<1> QED BY <1>1 DEF NewAction, ActRecs

\* A new action's record: nothing has been said of it.
LEMMA BeginActs ==
    ASSUME RInv, NEW n \in Actions, n = NextAction, NEW set \in SUBSET Actions,
           \A a \in set : act[a].result = "unadopted",
           NEW r \in ActRecs, r.kind # "none", ~r.wire, r.acks = [i \in 1..2 |-> <<>>],
           ~r.draining, ~r.done, r.result = "none",
           act' = [Discard(act, set) EXCEPT ![n] = r]
    PROVE  /\ act' \in [Actions -> ActRecs] /\ act'[n] = r /\ Began(n)
           /\ \A a \in Actions : act'[a].result = IF a \in set THEN "disposed" ELSE act[a].result
           /\ \A a \in Actions \ {n} : act'[a].binding = act[a].binding
           /\ NextAction' = n + 1 /\ ActsInv'
<1>1. act \in [Actions -> ActRecs] /\ n \in Nat BY Spaces DEF RInv, RTypeOK
<1>2. PICK as \in [Actions -> ActRecs] :
        /\ as = Discard(act, set)
        /\ \A a \in Actions : as[a] = IF a \in set THEN [act[a] EXCEPT !.result = "disposed"] ELSE act[a]
  <2>1. /\ Discard(act, set) \in [Actions -> ActRecs]
        /\ \A a \in Actions : Discard(act, set)[a] =
                                IF a \in set THEN [act[a] EXCEPT !.result = "disposed"] ELSE act[a]
    BY <1>1, DiscardActs
  <2> QED BY <2>1
<1>3. /\ act' \in [Actions -> ActRecs] /\ act'[n] = r
      /\ \A a \in Actions \ {n} : act'[a] = as[a]
  BY <1>2
<1>4. \A a \in Actions :
        /\ as[a].kind = act[a].kind /\ as[a].wire = act[a].wire /\ as[a].acks = act[a].acks
        /\ as[a].draining = act[a].draining /\ as[a].done = act[a].done
        /\ as[a].binding = act[a].binding
        /\ as[a].result = IF a \in set THEN "disposed" ELSE act[a].result
  BY <1>1, <1>2 DEF ActRecs
<1>5. /\ act[n].kind = "none" /\ ~act[n].wire /\ ~act[n].draining /\ ~act[n].done
      /\ Told(n, 1) = 0 /\ Told(n, 2) = 0 /\ act[n].result = "none" /\ n \notin set
  <2>1. act[n].kind = "none" BY NextFacts DEF RInv
  <2>2. ~Async(n) BY <2>1 DEF Async, AsyncKinds
  <2>3. Fresh(n) /\ ~act[n].wire BY <2>2 DEF RInv, PlaceInv
  <2>4. act[n].result = "none" BY <2>1 DEF RInv, AckInv
  <2> QED BY <2>1, <2>3, <2>4 DEF Fresh, Finished
<1>6. act[n].acks = [i \in 1..2 |-> <<>>]
  <2>1. act[n].acks \in [1..2 -> Seq(Verdicts)] BY <1>1 DEF ActRecs
  <2>2. \A i \in 1..2 : act[n].acks[i] = <<>> BY <1>5, ToldType DEF RInv
  <2> QED BY <2>1, <2>2
<1>7. act[n] \in ActRecs /\ act'[n] \in ActRecs BY <1>1, <1>3
<1>8. act'[n].wire = act[n].wire /\ act'[n].draining = act[n].draining /\ act'[n].done = act[n].done
  BY <1>3, <1>5, <1>7 DEF ActRecs
<1>9. Began(n)
  <2>1. ASSUME NEW a \in Actions
        PROVE  /\ act'[a].wire = act[a].wire /\ act'[a].acks = act[a].acks
               /\ act'[a].draining = act[a].draining /\ act'[a].done = act[a].done
               /\ a # n => act'[a].kind = act[a].kind
               /\ a = n => act[a].kind = "none" /\ act'[a].kind # "none"
    <3>1. CASE a = n BY <1>3, <1>5, <1>6, <1>8, <3>1
    <3>2. CASE a # n BY <1>3, <1>4, <3>2, ZenonT(40)
    <3> QED BY <3>1, <3>2
  <2> QED BY <2>1 DEF Began
<1>10. ASSUME NEW a \in Actions
       PROVE  act'[a].result = IF a \in set THEN "disposed" ELSE act[a].result
  <2>1. CASE a = n BY <1>3, <1>5, <2>1
  <2>2. CASE a # n BY <1>3, <1>4, <2>2, ZenonT(40)
  <2> QED BY <2>1, <2>2
<1>11. \A a \in Actions \ {n} : act'[a].binding = act[a].binding BY <1>3, <1>4, ZenonT(40)
<1>12. NextAction' = NextAction + 1 /\ ActsInv'
  <2>1. NextAction \in Actions /\ act'[NextAction].kind # "none" BY <1>3
  <2>2. \A a \in Actions \ {NextAction} : act'[a].kind = act[a].kind BY <1>3, <1>4, ZenonT(40)
  <2> QED BY <2>1, <2>2, NextAdds DEF RInv
<1> QED BY <1>3, <1>9, <1>10, <1>11, <1>12

\* A new action is in no place but the enqueue that brings it, if it is queued at all.
LEMMA BeginPlace ==
    ASSUME RInv, NEW n \in Actions, n = NextAction, Began(n), enq = Nil,
           UNCHANGED <<queue, run>>,
           \/ act'[n].kind = "sync" /\ enq' = Nil
           \/ act'[n].kind \in AsyncKinds /\ enq' # Nil /\ enq'.a = n
    PROVE  PlaceInv'
<1>1. n \in Nat BY Spaces
<1>2. \A a \in Actions :
        /\ Finished(a)' = Finished(a) /\ Fresh(a)' = Fresh(a)
        /\ a # n => Async(a)' = Async(a)
        /\ a = n => ~Finished(a) /\ Fresh(a) /\ ~act[a].wire
  BY <1>1, BeganFacts
<1>3. \A a \in Actions : /\ Queued(a)' = Queued(a) /\ Running(a)' = Running(a)
                         /\ ~Enqueuing(a) /\ act'[a].wire = act[a].wire
  BY DEF Queued, Running, Enqueuing, Began
<1>4. ~Async(n) BY DEF Began, Async, AsyncKinds
<1>5. ~Queued(n) /\ ~Running(n) BY <1>4 DEF RInv, PlaceInv, RunInv, Running
<1>6. \A a \in Actions : Async(a) => a < n BY Spaces DEF RInv, ActsInv, Async, AsyncKinds
<1>7. \A a \in Actions : Enqueuing(a)' => a = n BY DEF Enqueuing
<1>8. Async(n)' <=> Enqueuing(n)' BY DEF Async, AsyncKinds, Enqueuing
<1>9. \A a \in Actions : Async(a)' => Finished(a)' \/ Queued(a)' \/ Running(a)' \/ Enqueuing(a)'
  BY <1>2, <1>3, <1>8 DEF RInv, PlaceInv
<1>10. \A a \in Actions : Queued(a)' \/ Enqueuing(a)' => Async(a)' /\ Fresh(a)' /\ ~Running(a)'
  BY <1>2, <1>3, <1>5, <1>7, <1>8 DEF RInv, PlaceInv
<1>11. \A a \in Actions : Queued(a)' => ~Enqueuing(a)' BY <1>3, <1>5, <1>7
<1>12. \A a \in Actions : ~Async(a)' => Fresh(a)' /\ ~act'[a].wire BY <1>2, <1>3 DEF RInv, PlaceInv
<1>13. ASSUME NEW a \in Actions, NEW c \in Actions,
              Async(a)', Async(c)', c < a, Running(a)' \/ Finished(a)'
       PROVE  Finished(c)'
  <2>1. a # n BY <1>2, <1>3, <1>5, <1>13
  <2>2. Async(a) /\ a < n /\ c # n BY <1>1, <1>2, <1>6, <1>13, <2>1, Spaces
  <2> QED BY <1>2, <1>3, <1>13, <2>2 DEF RInv, PlaceInv
<1> QED BY <1>9, <1>10, <1>11, <1>12, <1>13 DEF RInv, PlaceInv

\* What was executed is about an action that began before.
LEMMA BeginExecuted ==
    ASSUME RInv, NEW n \in Actions, n = NextAction, Began(n), run' = run,
           ui'.pc \notin SyncPcs \/ ui'.a = n
    PROVE  \A h \in Handles : Executed(h) => h[1] # n /\ Executed(h)'
<1> SUFFICES ASSUME NEW h \in Handles, Executed(h) PROVE h[1] # n /\ Executed(h)' OBVIOUS
<1>1. n \in Nat /\ h[1] \in Actions /\ h[2] \in 1..2 BY Spaces
<1>2. act[n].kind = "none" /\ ~Async(n) /\ Told(n, 1) = 0 /\ Told(n, 2) = 0
  BY <1>1, BeganFacts DEF Began, Async, AsyncKinds
<1>3. run.pc # "idle" => run.a # n BY <1>2 DEF RInv, RunInv
<1>4. h[1] # n BY <1>1, <1>2, <1>3 DEF Executed
<1>5. act'[h[1]].kind = act[h[1]].kind /\ act'[h[1]].acks = act[h[1]].acks BY <1>1, <1>4 DEF Began
<1> QED BY <1>4, <1>5 DEF Executed, Told, SyncPcs

\* preemptInFlight of a synchronous run, which becomes the newest action.
LEMMA SyncStartKeeps ==
    ASSUME RInv, SyncStart
    PROVE  RInv'
<1> PICK n \in Actions : n = NextAction BY DEF SyncStart
<1>1. /\ ui.pc = "idle" /\ enq = Nil /\ ui \in UiRecs /\ ui' = [ui EXCEPT !.pc = "syncCancel", !.a = n]
      /\ canc \in [Threads -> Opt(Cancels)] /\ UI \in Threads /\ act \in [Actions -> ActRecs]
      /\ n \in Nat \ {0}
      /\ UNCHANGED <<binding, generation, last, queue, launching, run, sess, enq, tabs,
                     signal, retirer, stray>>
  BY ThreadFacts, Spaces DEF SyncStart, RInv, RTypeOK, UiInv
<1>2. PICK set \in SUBSET Actions : set = {} OBVIOUS
<1>3. PICK r \in ActRecs : /\ r = NewAction("sync", NoSess, 0) /\ r.kind = "sync" /\ ~r.wire
                              /\ r.acks = [i \in 1..2 |-> <<>>] /\ ~r.draining /\ ~r.done
                              /\ r.result = "none"
  <2>1. "sync" \in AsyncKinds \cup {"sync"} /\ NoSess \in BoundTo /\ 0 \in Nat BY DEF BoundTo
  <2>2. PICK r : r = NewAction("sync", NoSess, 0) OBVIOUS
  <2>3. /\ r \in ActRecs /\ r.kind = "sync" /\ ~r.wire
        /\ r.acks = [i \in 1..2 |-> <<>>] /\ ~r.draining /\ ~r.done
        /\ r.result = "none"
    BY <2>1, <2>2, NewRecord
  <2> QED BY <2>2, <2>3
<1>4. Discard(act, set) = act
  <2>1. \A a \in Actions : (IF a \in set THEN [act[a] EXCEPT !.result = "disposed"] ELSE act[a]) = act[a] BY <1>2
  <2>2. act = [a \in Actions |-> act[a]] BY <1>1
  <2> QED BY <2>1, <2>2, Zenon DEF Discard
<1>5. act' = [Discard(act, set) EXCEPT ![n] = r] /\ \A a \in set : act[a].result = "unadopted"
  BY <1>2, <1>3, <1>4 DEF SyncStart
<1>6. /\ act' \in [Actions -> ActRecs] /\ act'[n] = r /\ Began(n)
      /\ \A a \in Actions : act'[a].result = IF a \in set THEN "disposed" ELSE act[a].result
      /\ NextAction' = n + 1 /\ ActsInv'
  <2>1. r.kind # "none" BY <1>3
  <2> QED BY <1>3, <1>5, <2>1, BeginActs, ZenonT(40)
<1>7. PICK c \in Cancels : c = CancelSlot(n - 1, FALSE) /\ c.st = "load" /\ c.upto = n - 1
  <2>1. n - 1 \in 0..MaxActions BY Reaches
  <2>2. CancelSlot(n - 1, FALSE).st = "load" /\ CancelSlot(n - 1, FALSE).upto = n - 1 BY DEF CancelSlot
  <2> QED BY <2>1, <2>2, CancelTypes
<1>8. canc' = [canc EXCEPT ![UI] = c] BY <1>7 DEF SyncStart
<1>9. /\ canc' \in [Threads -> Opt(Cancels)] /\ canc'[UI] = c
      /\ \A t \in Threads \ {UI} : canc'[t] = canc[t]
  BY <1>1, <1>8 DEF Opt
<1>10. ui' \in UiRecs /\ ui'.pc = "syncCancel" /\ ui'.a = n BY <1>1 DEF UiRecs
<1>11. RTypeOK' BY <1>1, <1>6, <1>9, <1>10 DEF RInv, RTypeOK
<1>12. Dropped(set)
  <2>1. ASSUME NEW a \in Actions
        PROVE  /\ canc'[Disposer(a)] = canc[Disposer(a)] /\ canc'[WireCancel(a)] = canc[WireCancel(a)]
               /\ canc'[NavWatch(a)] = canc[NavWatch(a)]
    <3>1. {Disposer(a), WireCancel(a), NavWatch(a)} \subseteq Threads \ {UI} BY ThreadFacts
    <3> QED BY <1>9, <3>1
  <2>2. canc'[Launcher] = canc[Launcher] BY <1>9, ThreadFacts
  <2> QED BY <1>2, <1>6, <2>1, <2>2 DEF Dropped
<1>13. CallersCancel
  <2>1. canc'[Retirer] = canc[Retirer] /\ Retirer \in Threads BY <1>9, ThreadFacts
  <2>2. canc[Retirer] # Nil => /\ canc[Retirer].st = "hit" => canc[Retirer].b \in Sessions
                               /\ canc[Retirer].st \in {"cas", "abandon"} => canc[Retirer].root # Nil
                               /\ canc[Retirer].upto = MaxActions
    BY <2>1 DEF RInv, CancelInv
  <2>3. \A a \in Actions : Async(a)' => a <= n - 1
    <3>1. ASSUME NEW a \in Actions, Async(a)' PROVE a < n
      <4>1. a # n BY <1>3, <1>6, <3>1 DEF Async, AsyncKinds
      <4>2. act[a].kind # "none" BY <1>6, <3>1, <4>1 DEF Began, Async, AsyncKinds
      <4> QED BY <4>2 DEF RInv, ActsInv
    <3> QED BY <1>1, <3>1, Spaces
  <2> QED BY <1>7, <1>9, <1>10, <2>1, <2>2, <2>3 DEF CallersCancel
<1>14. RunInv' /\ AckInv' /\ HoldInv' /\ CancelInv' /\ NoStrayCancel' BY <1>1, <1>6, <1>12, <1>13, TurnsKeep
<1>15. UiInv' /\ QuitInv' BY <1>1, <1>3, <1>6, <1>10 DEF UiInv, QuitInv
<1>16. PlaceInv' BY <1>1, <1>3, <1>6, BeginPlace
<1>17. LastInv'
  <2>1. \A h \in Handles : Executed(h) => h[1] # n /\ Executed(h)' BY <1>1, <1>6, <1>10, BeginExecuted
  <2>2. last # Nil => last.root \in Actions /\ (last.h # Nil => last.h \in Handles) BY DEF RInv, RTypeOK, Slots, Opt
  <2>3. act[n].kind = "none" BY NextFacts DEF RInv
  <2>4. last # Nil => act'[last.root].kind = act[last.root].kind BY <1>6, <2>2, <2>3 DEF RInv, LastInv, Began
  <2> QED BY <1>1, <2>1, <2>2, <2>4 DEF RInv, LastInv, Async
<1>18. SignalInv'
  <2>1. act[n].kind = "none" BY NextFacts DEF RInv
  <2>2. \A a \in Actions : a # n => /\ act'[a].kind = act[a].kind
                                    /\ UnsettledStmts(a)' = UnsettledStmts(a)
    BY <1>1, <1>6, ZenonT(40) DEF UnsettledStmts, Began
  <2>3. {a \in Actions : act'[a].kind \in {"run", "batch"}} = {a \in Actions : act[a].kind \in {"run", "batch"}}
    BY <1>3, <1>6, <2>1, <2>2
  <2>4. signal # 0 => signal \in Actions /\ signal # n BY <2>1 DEF RInv, RTypeOK, SignalInv
  <2>5. \A a \in {a \in Actions : act[a].kind \in {"run", "batch"}} : a # n BY <2>1
  <2> QED BY <1>1, <2>2, <2>3, <2>4, <2>5 DEF RInv, SignalInv, SignalIsNewestRun
<1> QED BY <1>6, <1>11, <1>14, <1>15, <1>16, <1>17, <1>18 DEF RInv

\* A new launch takes the slot, discards what nobody adopted, and shows its run.
LEMMA EnqueueSwapKeeps ==
    ASSUME RInv, NEW kind \in Kinds, EnqueueSwap(kind)
    PROVE  RInv'
<1> PICK n \in Actions : n = NextAction BY DEF EnqueueSwap
<1>1. /\ ui.pc = "idle" /\ enq = Nil /\ ui \in UiRecs /\ ui' = [ui EXCEPT !.pc = "enqueue", !.a = n]
      /\ canc \in [Threads -> Opt(Cancels)] /\ UI \in Threads /\ act \in [Actions -> ActRecs]
      /\ n \in Nat \ {0} /\ binding \in BoundTo /\ generation \in Nat /\ generation' = generation + 1
      /\ generation' \in Nat /\ last \in Opt(Slots) /\ kind \in AsyncKinds
      /\ UNCHANGED <<binding, queue, launching, run, sess, tabs, retirer, stray>>
  BY ThreadFacts, Spaces, RunnerAssumption DEF EnqueueSwap, RInv, RTypeOK, UiInv, AsyncKinds
<1>2. PICK set \in SUBSET Actions : set = Unadopted BY DEF Unadopted
<1>3. PICK r \in ActRecs : /\ r = NewAction(kind, binding, generation + 1) /\ r.kind = kind /\ ~r.wire
                              /\ r.acks = [i \in 1..2 |-> <<>>] /\ ~r.draining /\ ~r.done
                              /\ r.result = "none"
  BY <1>1, NewRecord
<1>5. /\ act' = [Discard(act, set) EXCEPT ![n] = r] /\ \A a \in set : act[a].result = "unadopted"
      /\ canc' = DiscardCanc(canc, set)
  BY <1>2, <1>3 DEF EnqueueSwap, Unadopted
<1>6. /\ act' \in [Actions -> ActRecs] /\ act'[n] = r /\ Began(n)
      /\ \A a \in Actions : act'[a].result = IF a \in set THEN "disposed" ELSE act[a].result
      /\ NextAction' = n + 1 /\ ActsInv'
  <2>1. r.kind # "none" BY <1>1, <1>3 DEF AsyncKinds
  <2>2. act' = [Discard(act, set) EXCEPT ![n] = r] BY <1>5
  <2>3. \A a \in set : act[a].result = "unadopted" BY <1>5
  <2>4. /\ ~r.wire /\ r.acks = [i \in 1..2 |-> <<>>] /\ ~r.draining /\ ~r.done
        /\ r.result = "none"
    BY <1>3
  <2> QED BY <2>1, <2>2, <2>3, <2>4, BeginActs
<1>7. /\ canc' \in [Threads -> Opt(Cancels)]
      /\ \A a \in Actions :
           /\ canc'[Disposer(a)] = IF a \in set THEN CancelHandle(<<a, 1>>, a) ELSE canc[Disposer(a)]
           /\ canc'[WireCancel(a)] = canc[WireCancel(a)]
           /\ canc'[NavWatch(a)] = canc[NavWatch(a)]
      /\ \A t \in {UI, Launcher, Retirer} : canc'[t] = canc[t]
  BY <1>1, <1>5, DiscardCancs
<1>8. canc[UI] = Nil BY <1>1 DEF RInv, CancelInv
<1>9. PICK s \in Slots : s = Pending(n) /\ s.root = n /\ s.st = "pending" /\ s.h = Nil
  <2>1. [root |-> n, st |-> "pending", h |-> Nil, more |-> TRUE] \in Slots BY DEF Slots
  <2> QED BY <2>1 DEF Pending
<1>10. ui' \in UiRecs /\ ui'.pc = "enqueue" /\ ui'.a = n BY <1>1 DEF UiRecs
<1>11. PICK e \in Requests : e = [a |-> n, root |-> PendingRoot(last)] /\ e.a = n
  <2>1. PendingRoot(last) \in Actions \cup {Nil} BY <1>1, RootTypes DEF Opt
  <2>2. [a |-> n, root |-> PendingRoot(last)] \in Requests BY <2>1 DEF Requests
  <2> QED BY <2>2
<1>12. enq' = e /\ last' = s BY <1>9, <1>11 DEF EnqueueSwap
<1>13. e # Nil /\ s # Nil BY Spaces
<1>14. signal' = (IF kind \in {"run", "batch"} THEN n ELSE signal) BY DEF EnqueueSwap
<1>15. RTypeOK'
  <2>1. signal' \in Actions \cup {0} BY <1>14 DEF RInv, RTypeOK
  <2> QED BY <1>1, <1>6, <1>7, <1>10, <1>12, <2>1 DEF RInv, RTypeOK, Opt
<1>16. Dropped(set) BY <1>5, <1>6, <1>7 DEF Dropped
<1>17. CallersCancel
  <2>1. canc'[Retirer] = canc[Retirer] /\ Retirer \in Threads /\ canc'[UI] = Nil BY <1>7, <1>8, ThreadFacts
  <2>2. canc[Retirer] # Nil => /\ canc[Retirer].st = "hit" => canc[Retirer].b \in Sessions
                               /\ canc[Retirer].st \in {"cas", "abandon"} => canc[Retirer].root # Nil
                               /\ canc[Retirer].upto = MaxActions
    BY <2>1 DEF RInv, CancelInv
  <2> QED BY <2>1, <2>2 DEF CallersCancel
<1>18. RunInv' /\ AckInv' /\ HoldInv' /\ CancelInv' /\ NoStrayCancel' BY <1>1, <1>6, <1>16, <1>17, TurnsKeep
<1>19. act[n].kind = "none" /\ ~Async(n) BY NextFacts DEF RInv, Async, AsyncKinds
<1>20. UiInv' /\ QuitInv'
  <2>1. canc'[WireCancel(n)] = Nil BY <1>7, <1>19, ZenonT(40) DEF RInv, CancelInv
  <2> QED BY <1>1, <1>3, <1>6, <1>10, <1>11, <1>12, <1>13, <2>1 DEF UiInv, QuitInv
<1>21. PlaceInv' BY <1>1, <1>3, <1>6, <1>11, <1>12, <1>13, BeginPlace
<1>22. LastInv' BY <1>1, <1>3, <1>6, <1>9, <1>12 DEF LastInv, Async, AsyncKinds
<1>23. SignalInv'
  <2>1. \A a \in Actions : a # n => /\ act'[a].kind = act[a].kind
                                    /\ UnsettledStmts(a)' = UnsettledStmts(a)
    BY <1>1, <1>6 DEF UnsettledStmts, Began
  <2>2. CASE kind \in {"run", "batch"}
    <3>1. UnsettledStmts(n)' # {}
      <4>1. 1 \in Stmts(act'[n].kind) /\ act'[n].acks[1] = <<>> BY <1>3, <1>6, Spaces
      <4> QED BY <4>1 DEF UnsettledStmts
    <3>2. \A a \in Actions : act'[a].kind \in {"run", "batch"} => a <= n
      <4>1. ASSUME NEW a \in Actions, act'[a].kind \in {"run", "batch"}, a # n PROVE a < n
        BY <2>1, <4>1 DEF RInv, ActsInv
      <4> QED BY <4>1, <1>1, Spaces
    <3>3. act'[n].kind \in {"run", "batch"} /\ signal' = n BY <1>3, <1>6, <1>14, <2>2
    <3>4. ASSUME NEW a \in {x \in Actions : act'[x].kind \in {"run", "batch"}},
                 \A c \in {x \in Actions : act'[x].kind \in {"run", "batch"}} : c <= a
          PROVE  signal' = a
      <4>1. n <= a /\ a <= n /\ a \in Nat BY <3>2, <3>3, <3>4, Spaces
      <4> QED BY <1>1, <3>3, <4>1
    <3>5. UnsettledStmts(signal)' = UnsettledStmts(n)' BY <3>3 DEF UnsettledStmts
    <3> QED BY <3>1, <3>3, <3>4, <3>5 DEF SignalInv, SignalIsNewestRun
  <2>3. CASE kind \notin {"run", "batch"}
    <3>1. {a \in Actions : act'[a].kind \in {"run", "batch"}} = {a \in Actions : act[a].kind \in {"run", "batch"}}
      BY <1>3, <1>6, <1>19, <2>1, <2>3
    <3>2. signal # 0 => signal \in Actions /\ signal # n BY <1>19 DEF RInv, RTypeOK, SignalInv
    <3>3. \A a \in {a \in Actions : act[a].kind \in {"run", "batch"}} : a # n BY <1>19
    <3>4. signal' = signal BY <1>14, <2>3
    <3> QED BY <2>1, <3>1, <3>2, <3>3, <3>4 DEF RInv, SignalInv, SignalIsNewestRun
  <2> QED BY <2>2, <2>3
<1> QED BY <1>6, <1>15, <1>18, <1>20, <1>21, <1>22, <1>23 DEF RInv

\* The request goes to the queue, and the cancel of the prior action to the wire.
LEMMA EnqueueQueueKeeps ==
    ASSUME RInv, EnqueueQueue
    PROVE  RInv'
<1>1. PICK a \in Actions : a = enq.a /\ enq.root \in Opt(Actions) BY DEF EnqueueQueue, RInv, RTypeOK, Requests, Opt
<1>2. PICK r \in Opt(Actions) : r = enq.root BY <1>1
<1>3. /\ enq # Nil /\ ui.pc = "enqueue" /\ a = NextAction - 1 /\ NextAction \in Nat /\ ~act[a].wire
      /\ canc[WireCancel(a)] = Nil /\ act \in [Actions -> ActRecs]
      /\ queue \in Seq(Actions) /\ canc \in [Threads -> Opt(Cancels)] /\ ui \in UiRecs
      /\ WireCancel(a) \in Threads /\ UI \in Threads
      /\ queue' = Append(queue, a) /\ enq' = Nil /\ launching' = TRUE
      /\ ui' = [ui EXCEPT !.pc = IF BoundKind(a) THEN "idle" ELSE "waitWire"]
      /\ UNCHANGED <<binding, generation, last, run, sess, tabs, signal, retirer, stray>>
  BY <1>1, <1>2, ThreadFacts, Spaces DEF EnqueueQueue, RInv, RTypeOK, UiInv, ActsInv
<1>4. canc[UI] = Nil BY <1>3 DEF RInv, CancelInv
<1>5. Enqueuing(a) /\ Async(a) /\ Fresh(a) /\ ~Running(a) /\ ~Queued(a)
      /\ \A c \in Actions : Enqueuing(c) => c = a
  <2>1. Enqueuing(a) /\ \A c \in Actions : Enqueuing(c) => c = a BY <1>1, <1>3 DEF Enqueuing
  <2> QED BY <2>1 DEF RInv, PlaceInv
<1>6. /\ act' \in [Actions -> ActRecs]
      /\ \A c \in Actions :
           /\ act'[c].kind = act[c].kind /\ act'[c].binding = act[c].binding
           /\ act'[c].acks = act[c].acks /\ act'[c].draining = act[c].draining
           /\ act'[c].done = act[c].done /\ act'[c].result = act[c].result
           /\ act'[c].wire = IF c = a /\ r = Nil THEN TRUE ELSE act[c].wire
  <2>1. CASE r = Nil
    <3>1. act' = [act EXCEPT ![a] = [act[a] EXCEPT !.wire = TRUE]] BY <1>1, <1>2, <2>1 DEF EnqueueQueue
    <3>2. [act[a] EXCEPT !.wire = TRUE] \in ActRecs BY <1>3, ActionTypes, Zenon
    <3>3. act' \in [Actions -> ActRecs] BY <1>3, <3>1, <3>2
    <3> QED BY <1>3, <2>1, <3>1, <3>3 DEF ActRecs
  <2>2. CASE r # Nil
    <3>0. r \in Actions BY <2>2 DEF Opt
    <3>1. act' = [act EXCEPT ![r] = [act[r] EXCEPT !.abandoned = TRUE, !.ctx = TRUE]]
      BY <1>2, <1>3, <2>2, <3>0 DEF EnqueueQueue
    <3>2. [act[r] EXCEPT !.abandoned = TRUE, !.ctx = TRUE] \in ActRecs BY <1>3, <3>0, ActionTypes, Zenon
    <3>3. act' \in [Actions -> ActRecs] BY <1>3, <3>1, <3>2
    <3>4. \A c \in Actions : act'[c] = IF c = r THEN [act[r] EXCEPT !.abandoned = TRUE, !.ctx = TRUE] ELSE act[c]
      BY <1>3, <3>0, <3>1
    <3>5. act[r] \in ActRecs BY <1>3, <3>0
    <3>6. ASSUME NEW q \in ActRecs
          PROVE  LET u == [q EXCEPT !.abandoned = TRUE, !.ctx = TRUE]
                 IN /\ u.kind = q.kind /\ u.binding = q.binding /\ u.acks = q.acks
                    /\ u.draining = q.draining /\ u.done = q.done /\ u.result = q.result
                    /\ u.wire = q.wire
      BY DEF ActRecs
    <3>7. /\ act'[r].kind = act[r].kind /\ act'[r].binding = act[r].binding
          /\ act'[r].acks = act[r].acks /\ act'[r].draining = act[r].draining
          /\ act'[r].done = act[r].done /\ act'[r].result = act[r].result
          /\ act'[r].wire = act[r].wire
      BY <3>0, <3>4, <3>5, <3>6
    <3>8. \A c \in Actions : c # r => act'[c] = act[c] BY <3>4
    <3> QED BY <2>2, <3>3, <3>7, <3>8
  <2> QED BY <2>1, <2>2
<1>7. /\ \A c \in Actions : /\ Async(c)' = Async(c) /\ Finished(c)' = Finished(c) /\ Fresh(c)' = Fresh(c)
                            /\ Running(c)' = Running(c) /\ ~Enqueuing(c)'
                            /\ \A i \in 1..2 : Told(c, i)' = Told(c, i)
  BY <1>3, <1>6 DEF Async, Finished, Fresh, Told, Running, Enqueuing
<1>8. ActsInv' /\ NextAction' = NextAction BY <1>6, NextSame DEF RInv
<1>9. PICK c \in Opt(Cancels) : /\ c = IF r = Nil THEN Nil ELSE CancelCurrent(act[r].binding, a - 1)
                                /\ c # Nil => r # Nil /\ c.st = "check" /\ c.upto = a - 1
  <2>1. CASE r = Nil BY <2>1 DEF Opt
  <2>2. CASE r # Nil
    <3>1. act[r].binding \in BoundTo /\ a - 1 \in 0..MaxActions BY <1>3, <2>2, Reaches DEF ActRecs, Opt
    <3>2. CancelCurrent(act[r].binding, a - 1) \in Cancels BY <3>1, CancelTypes
    <3>3. CancelCurrent(act[r].binding, a - 1).st = "check" /\ CancelCurrent(act[r].binding, a - 1).upto = a - 1
      BY DEF CancelCurrent
    <3> QED BY <2>2, <3>2, <3>3 DEF Opt
  <2> QED BY <2>1, <2>2
<1>10. /\ canc' \in [Threads -> Opt(Cancels)] /\ canc'[WireCancel(a)] = c
       /\ \A t \in Threads \ {WireCancel(a)} : canc'[t] = canc[t]
  <2>1. canc' = [canc EXCEPT ![WireCancel(a)] = c] BY <1>1, <1>2, <1>3, <1>9 DEF EnqueueQueue
  <2> QED BY <1>3, <2>1
<1>11. ui' \in UiRecs /\ ui'.pc \in {"idle", "waitWire"} BY <1>3 DEF UiRecs
<1>12. RTypeOK'
  <2>1. Append(queue, a) \in Seq(Actions) BY <1>3
  <2> QED BY <1>3, <1>6, <1>10, <1>11, <2>1 DEF RInv, RTypeOK, Opt
<1>13. UiInv' /\ QuitInv' BY <1>3, <1>11 DEF UiInv, QuitInv
<1>14. PlaceInv'
  <2>1. /\ DOMAIN queue' = 1..(Len(queue) + 1) /\ DOMAIN queue = 1..Len(queue) /\ Len(queue) \in Nat
        /\ \A j \in DOMAIN queue : queue'[j] = queue[j] /\ queue[j] \in Actions
        /\ queue'[Len(queue) + 1] = a
    BY <1>3
  <2>2. \A d \in Actions : Queued(d)' <=> Queued(d) \/ d = a
    <3> SUFFICES ASSUME NEW d \in Actions PROVE Queued(d)' <=> Queued(d) \/ d = a OBVIOUS
    <3>1. Queued(d)' => Queued(d) \/ d = a BY <2>1 DEF Queued
    <3>2. Queued(d) => Queued(d)' BY <2>1 DEF Queued
    <3>3. d = a => Queued(d)' BY <2>1 DEF Queued
    <3> QED BY <3>1, <3>2, <3>3
  <2>3. \A d \in Actions : Queued(d) => d < a
    <3> SUFFICES ASSUME NEW d \in Actions, Queued(d) PROVE d < a OBVIOUS
    <3>1. d # a /\ Async(d) BY <1>5 DEF RInv, PlaceInv
    <3>2. act[d].kind # "none" BY <3>1 DEF Async, AsyncKinds
    <3> QED BY <1>3, <3>1, <3>2, Spaces DEF RInv, ActsInv
  <2>4. \A j \in DOMAIN queue : queue[j] < a BY <2>1, <2>3 DEF Queued
  <2>5. \A j, k \in DOMAIN queue : j < k => queue[j] < queue[k] BY DEF RInv, PlaceInv
  <2>6. \A j, k \in DOMAIN queue' : j < k => queue'[j] < queue'[k]
    <3> SUFFICES ASSUME NEW j \in DOMAIN queue', NEW k \in DOMAIN queue', j < k
                 PROVE  queue'[j] < queue'[k]
      OBVIOUS
    <3>1. j \in DOMAIN queue BY <2>1
    <3>2. CASE k = Len(queue) + 1 BY <2>1, <2>4, <3>1, <3>2
    <3>3. CASE k # Len(queue) + 1
      <4>1. k \in DOMAIN queue BY <2>1, <3>3
      <4> QED BY <2>1, <2>5, <3>1, <4>1
    <3> QED BY <3>2, <3>3
  <2>7. \A d \in Actions : Async(d)' => Finished(d)' \/ Queued(d)' \/ Running(d)' \/ Enqueuing(d)'
    BY <1>5, <1>7, <2>2 DEF RInv, PlaceInv
  <2>8. \A d \in Actions : Queued(d)' \/ Enqueuing(d)' => Async(d)' /\ Fresh(d)' /\ ~Running(d)'
    BY <1>5, <1>7, <2>2 DEF RInv, PlaceInv
  <2>9. \A d \in Actions : ~Async(d)' => Fresh(d)' /\ ~act'[d].wire BY <1>5, <1>6, <1>7 DEF RInv, PlaceInv
  <2>10. \A d, e \in Actions :
            Async(d)' /\ Async(e)' /\ e < d /\ (Running(d)' \/ Finished(d)') => Finished(e)'
    BY <1>7 DEF RInv, PlaceInv
  <2> QED BY <1>7, <2>6, <2>7, <2>8, <2>9, <2>10 DEF PlaceInv
<1>15. RunInv'
  <2>1. CASE run.pc = "idle" BY <1>3, <2>1 DEF RunInv
  <2>2. CASE run.pc # "idle"
    <3>1. PICK d \in Actions : d = run.a BY <2>2 DEF RInv, RunInv
    <3>2. d # a BY <1>5, <2>2, <3>1 DEF Running
    <3> QED BY <1>3, <1>6, <1>7, <2>2, <3>1, <3>2, ZenonT(40) DEF RInv, RunInv
  <2> QED BY <2>1, <2>2
<1>16. \A d \in Actions : canc'[Disposer(d)] = canc[Disposer(d)] /\ canc'[NavWatch(d)] = canc[NavWatch(d)]
  <2> SUFFICES ASSUME NEW d \in Actions
               PROVE  canc'[Disposer(d)] = canc[Disposer(d)] /\ canc'[NavWatch(d)] = canc[NavWatch(d)]
    OBVIOUS
  <2>1. {Disposer(d), NavWatch(d)} \subseteq Threads \ {WireCancel(a)} BY ThreadFacts
  <2> QED BY <1>10, <2>1
<1>17. AckInv'
  <2>1. /\ \A k \in tabs.acked : k[1] \in Actions /\ k[2] \in 1..2
        /\ \A h \in tabs.open : h[1] \in Actions /\ h[2] \in 1..2
    BY Spaces DEF RInv, RTypeOK
  <2>2. ASSUME NEW d \in Actions, Finished(d)'
        PROVE  act'[d].wire /\ \A i \in Stmts(act'[d].kind) : Told(d, i)' = 1
    <3>1. Finished(d) /\ act'[d].kind = act[d].kind /\ (act[d].wire => act'[d].wire) BY <1>6, <1>7, <2>2
    <3>2. act[d].wire /\ \A i \in Stmts(act[d].kind) : Told(d, i) = 1 BY <3>1 DEF RInv, AckInv
    <3>3. \A i \in 1..2 : Told(d, i)' = Told(d, i) BY <1>7
    <3> QED BY <3>1, <3>2, <3>3, Spaces
  <2>3. /\ \A k \in tabs.acked : Told(k[1], k[2])' = Told(k[1], k[2]) /\ act'[k[1]].kind = act[k[1]].kind
        /\ \A h \in tabs.open : /\ Told(h[1], h[2])' = Told(h[1], h[2]) /\ act'[h[1]].kind = act[h[1]].kind
                                /\ act'[h[1]].result = act[h[1]].result
    BY <1>6, <1>7, <2>1
  <2>4. ASSUME NEW d \in Actions, act'[d].result # "none"
        PROVE  act'[d].kind = "bound" /\ Told(d, 1)' # 0
    <3>1. act[d].kind = "bound" /\ Told(d, 1) # 0 BY <1>6, <2>4 DEF RInv, AckInv
    <3>2. act'[d].kind = act[d].kind /\ Told(d, 1)' = Told(d, 1)
      <4>1. 1 \in 1..2 OBVIOUS
      <4> QED BY <1>6, <1>7, <4>1
    <3> QED BY <3>1, <3>2
  <2>6. \A k \in tabs.acked : /\ Told(k[1], k[2])' # 0 /\ k[2] \in Stmts(act'[k[1]].kind)
                              /\ k[3] # Nil => /\ k[3] = <<k[1], k[2]>> /\ k[3] \notin tabs.open
                                               /\ act'[k[1]].kind # "bound"
    BY <2>3 DEF RInv, AckInv
  <2>7. \A h \in tabs.open : \/ act'[h[1]].kind = "sync"
                             \/ Told(h[1], h[2])' # 0 /\ (act'[h[1]].kind = "bound" => act'[h[1]].result = "adopted")
    BY <2>3 DEF RInv, AckInv
  <2>8. \A k, m \in tabs.acked : k[1] = m[1] /\ k[2] = m[2] => k = m BY DEF RInv, AckInv
  <2>5. \A d \in Actions : canc'[Disposer(d)] # Nil => act'[d].result = "disposed"
    BY <1>6, <1>16, ZenonT(40) DEF RInv, AckInv
  <2> QED BY <1>3, <2>2, <2>4, <2>5, <2>6, <2>7, <2>8 DEF AckInv
<1>18. HoldInv'
  <2> SUFFICES ASSUME NEW b \in Sessions
               PROVE  HoldInv!(b)'
    BY DEF HoldInv
  <2>1. HoldInv!(b) BY DEF RInv, HoldInv
  <2>2. CASE sess[b].h = Nil BY <1>3, <2>1, <2>2, Spaces
  <2>3. CASE sess[b].h # Nil
    <3>1. PICK h \in Handles : h = sess[b].h BY <2>1, <2>3
    <3>2. PICK d \in Actions : d = h[1] BY Spaces
    <3>3. Claimed(h) => Claimed(h)' BY <1>3, <1>6, <1>16, <3>2 DEF Claimed
    <3>4. /\ Claimed(sess[b].h)' = Claimed(h)' /\ Running(sess[b].h[1])' = Running(d)'
          /\ Finished(sess[b].h[1])' = Finished(d)'
      BY <1>3, <3>1, <3>2 DEF Claimed, Running, Finished
    <3> QED BY <1>3, <1>6, <1>7, <2>1, <2>3, <3>1, <3>2, <3>3, <3>4
  <2> QED BY <2>2, <2>3
<1>19. CancelInv'
  <2>1. canc'[UI] = Nil /\ canc'[Retirer] = canc[Retirer] /\ canc'[Launcher] = canc[Launcher]
    BY <1>4, <1>10, ThreadFacts
  <2>2. ASSUME NEW t \in Threads, canc'[t] # Nil
        PROVE  /\ canc'[t].st = "hit" => canc'[t].b \in Sessions
               /\ t \notin {UI, Retirer} => canc'[t].st \in {"check", "hit"}
               /\ canc'[t].st \in {"cas", "abandon"} => canc'[t].root # Nil
    <3>1. CASE t = WireCancel(a) BY <1>9, <1>10, <2>2, <3>1
    <3>2. CASE t # WireCancel(a) BY <1>10, <2>2, <3>2 DEF RInv, CancelInv
    <3> QED BY <3>1, <3>2
  <2>3. ASSUME NEW d \in Actions, canc'[WireCancel(d)] # Nil
        PROVE  ~act'[d].wire /\ canc'[WireCancel(d)].upto = d - 1 /\ Async(d)'
    <3>1. CASE d = a BY <1>3, <1>5, <1>6, <1>7, <1>9, <1>10, <2>3, <3>1
    <3>2. CASE d # a
      <4>1. canc'[WireCancel(d)] = canc[WireCancel(d)] BY <1>10, <3>2, ThreadFacts
      <4>2. ~act[d].wire /\ canc[WireCancel(d)].upto = d - 1 /\ Async(d) BY <2>3, <4>1 DEF RInv, CancelInv
      <4>3. act'[d].wire = act[d].wire /\ Async(d)' = Async(d) BY <1>6, <1>7, <3>2
      <4> QED BY <4>1, <4>2, <4>3
    <3> QED BY <3>1, <3>2
  <2>4. ASSUME NEW d \in Actions
        PROVE
         /\ canc'[NavWatch(d)] # Nil => Running(d)' /\ run'.pc \in {"lock", "exec", "return"}
                                       /\ canc'[NavWatch(d)].upto = d
         /\ canc'[Disposer(d)] # Nil =>
              /\ canc'[Disposer(d)].upto = d /\ canc'[Disposer(d)].h = <<d, 1>>
              /\ canc'[Disposer(d)].st = "hit" =>
                   /\ sess'[canc'[Disposer(d)].b].st = "live"
                   /\ sess'[canc'[Disposer(d)].b].h = <<d, 1>>
    <3>1. /\ canc[NavWatch(d)] # Nil => Running(d) /\ run.pc \in {"lock", "exec", "return"}
                                       /\ canc[NavWatch(d)].upto = d
          /\ canc[Disposer(d)] # Nil =>
               /\ canc[Disposer(d)].upto = d /\ canc[Disposer(d)].h = <<d, 1>>
               /\ canc[Disposer(d)].st = "hit" =>
                   /\ sess[canc[Disposer(d)].b].st = "live"
                   /\ sess[canc[Disposer(d)].b].h = <<d, 1>>
      BY DEF RInv, CancelInv
    <3>2. /\ canc'[NavWatch(d)] = canc[NavWatch(d)] /\ canc'[Disposer(d)] = canc[Disposer(d)]
          /\ Running(d)' = Running(d)
      BY <1>7, <1>16
    <3> QED BY <1>3, <3>1, <3>2
  <2>5. /\ canc'[Retirer] # Nil => canc'[Retirer].upto = MaxActions
        /\ canc'[Launcher] # Nil => run'.pc = "hook" /\ canc'[Launcher].upto = run'.a
    BY <1>3, <2>1 DEF RInv, CancelInv
  <2> QED BY <2>1, <2>2, <2>3, <2>4, <2>5 DEF CancelInv
<1>20. NoStrayCancel' BY <1>3, <1>6 DEF RInv, RTypeOK, NoStrayCancel
<1>21. SignalInv'
  <2>1. \A d \in Actions : UnsettledStmts(d)' = UnsettledStmts(d) BY <1>3, <1>6 DEF UnsettledStmts
  <2>2. {d \in Actions : act'[d].kind \in {"run", "batch"}} = {d \in Actions : act[d].kind \in {"run", "batch"}} BY <1>6
  <2>3. signal # 0 => signal \in Actions BY DEF RInv, RTypeOK
  <2> QED BY <1>3, <1>6, <2>1, <2>2, <2>3 DEF RInv, SignalInv, SignalIsNewestRun
<1>22. LastInv'
  <2>1. ASSUME NEW h \in Handles, Executed(h) PROVE Executed(h)'
    <3>1. h[1] \in Actions /\ act'[h[1]].kind = act[h[1]].kind /\ act'[h[1]].acks = act[h[1]].acks BY <1>6, Spaces
    <3> QED BY <1>3, <1>11, <2>1, <3>1 DEF Executed, Told
  <2>2. last # Nil => last.root \in Actions /\ (last.h # Nil => last.h \in Handles) BY DEF RInv, RTypeOK, Slots, Opt
  <2> QED BY <1>3, <1>6, <2>1, <2>2 DEF RInv, LastInv, Async
<1> QED BY <1>8, <1>12, <1>13, <1>14, <1>15, <1>17, <1>18, <1>19, <1>20, <1>21, <1>22 DEF RInv

-----------------------------------------
(* The synchronous run holds its own session and no other. *)

LEMMA SyncFrame ==
    ASSUME RInv, SyncInv, UNCHANGED ui, SessShrinks,
           \A a \in Actions : act'[a].binding = act[a].binding
    PROVE  SyncInv'
<1>1. ASSUME NEW b \in Sessions, ui.pc \in {"syncCancel", "syncHook", "syncLoad", "syncLock"}
      PROVE  sess'[b].h # <<ui.a, 1>>
  <2>1. sess[b].h # <<ui.a, 1>> /\ Nil # <<ui.a, 1>> BY <1>1, Spaces DEF SyncInv, RInv, UiInv
  <2> QED BY <2>1 DEF SessShrinks
<1>2. ASSUME ui.pc = "syncExec", NEW b \in Sessions
      PROVE  IF b = act'[ui.a].binding THEN sess'[b].st = "exec" /\ sess'[b].h = <<ui.a, 1>>
                                       ELSE sess'[b].h # <<ui.a, 1>>
  <2>1. act'[ui.a].binding = act[ui.a].binding /\ Nil # <<ui.a, 1>> BY <1>2, Spaces, ZenonT(40) DEF RInv, UiInv
  <2>2. IF b = act[ui.a].binding THEN sess[b].st = "exec" /\ sess[b].h = <<ui.a, 1>>
                                 ELSE sess[b].h # <<ui.a, 1>>
    BY <1>2 DEF SyncInv
  <2> QED BY <2>1, <2>2 DEF SessShrinks
<1> QED BY <1>1, <1>2 DEF SyncInv

\* No session changes hands.
LEMMA SameShrinks ==
    ASSUME UNCHANGED sess
    PROVE  SessShrinks
BY DEF SessShrinks

LEMMA SyncElsewhere ==
    ASSUME ui'.pc \notin {"syncCancel", "syncHook", "syncLoad", "syncLock", "syncExec"}
    PROVE  SyncInv'
BY DEF SyncInv

LEMMA PreemptShrinks ==
    ASSUME RInv, NEW a, NEW b, PreemptHook(a, b)
    PROVE  SessShrinks
<1>1. sess \in [Sessions -> SessRecs] BY DEF RInv, RTypeOK
<1>2. \A d \in Sessions : FreedSess(sess[d]).st = "free" /\ FreedSess(sess[d]).h = Nil BY <1>1, FreedType
<1>3. CASE sess' = [c \in Sessions |-> IF c \in Streaming THEN FreedSess(sess[c]) ELSE sess[c]]
  BY <1>2, <1>3 DEF SessShrinks, Streaming
<1>4. CASE sess' = IF b \in Streaming THEN [sess EXCEPT ![b].fence = TRUE] ELSE sess
  <2>1. \A d \in Sessions : sess'[d].st = sess[d].st /\ sess'[d].h = sess[d].h BY <1>1, <1>4 DEF SessRecs
  <2> QED BY <2>1 DEF SessShrinks
<1> QED BY <1>3, <1>4 DEF PreemptHook

\* The launcher never rewrites what session an action was begun on.
LEMMA LauncherBindings ==
    ASSUME RInv, LaunchStep
    PROVE  \A a \in Actions : act'[a].binding = act[a].binding
<1>1. act \in [Actions -> ActRecs] BY DEF RInv, RTypeOK
<1>2. ASSUME run.pc # "idle" PROVE run.a \in Actions /\ run.i \in 1..2 BY <1>2, Spaces DEF RInv, RunInv
<1>3. CASE Check
  <2>1. PICK d \in Actions : d = run.a BY <1>2, <1>3 DEF Check
  <2>2. \/ UNCHANGED act
        \/ \E x : act' = [act EXCEPT ![d] = [act[d] EXCEPT !.acks = x, !.draining = TRUE]]
    <3>1. \/ UNCHANGED act
          \/ act' = [act EXCEPT ![d].acks[run.i] = Append(@, "canceled"), ![d].draining = TRUE]
      BY <1>3, <2>1 DEF Check
    <3>2. [act EXCEPT ![d].acks[run.i] = Append(@, "canceled"), ![d].draining = TRUE]
           = [act EXCEPT ![d] = [act[d] EXCEPT !.acks = [act[d].acks EXCEPT ![run.i] = Append(@, "canceled")],
                                               !.draining = TRUE]]
      BY <1>1
    <3> QED BY <3>1, <3>2, Zenon
  <2>3. ASSUME NEW x, act' = [act EXCEPT ![d] = [act[d] EXCEPT !.acks = x, !.draining = TRUE]]
        PROVE  \A a \in Actions : act'[a].binding = act[a].binding
    <3>1. act[d] \in ActRecs BY <1>1
    <3>2. [act[d] EXCEPT !.acks = x, !.draining = TRUE].binding = act[d].binding BY <3>1 DEF ActRecs
    <3> QED BY <1>1, <2>3, <3>2
  <2> QED BY <2>2, <2>3, Zenon
<1>4. CASE Ack
  <2>1. PICK d \in Actions : d = run.a BY <1>2, <1>4 DEF Ack
  <2>2. PICK v \in Verdicts : v = IF BoundKind(d) /\ run.h # Nil /\ ~Valid(d) THEN "canceled" ELSE run.err
    BY DEF RInv, RTypeOK, RunRecs, Verdicts
  <2>3. run.i \in 1..2 BY <1>2, <1>4 DEF Ack
  <2>4. PICK x : x = [act[d].acks EXCEPT ![run.i] = Append(@, v)] OBVIOUS
  <2>5. PICK as : as = [act EXCEPT ![d] = [act[d] EXCEPT !.acks = x]] OBVIOUS
  <2>6. as \in [Actions -> ActRecs]
    <3>1. act[d] \in ActRecs /\ Append(act[d].acks[run.i], v) \in Seq(Verdicts) BY <2>3, ToldType DEF RInv
    <3>2. x \in [1..2 -> Seq(Verdicts)] BY <2>3, <2>4, <3>1 DEF ActRecs
    <3>3. [act[d] EXCEPT !.acks = x] \in ActRecs BY <3>1, <3>2 DEF ActRecs
    <3> QED BY <1>1, <2>5, <3>3
  <2>7. \/ act' = as \/ act' = [as EXCEPT ![d] = [as[d] EXCEPT !.result = "unadopted"]]
        \/ act' = Discard(as, {d})
    BY <1>4, <2>1, <2>2, <2>4, <2>5, Zenon DEF Ack
  <2>8. \A a \in Actions : as[a].binding = act[a].binding
    <3>1. act[d] \in ActRecs BY <1>1
    <3>2. [act[d] EXCEPT !.acks = x].binding = act[d].binding BY <3>1 DEF ActRecs
    <3> QED BY <1>1, <2>5, <3>2
  <2>9. as[d] \in ActRecs BY <2>6
  <2>10. [as[d] EXCEPT !.result = "disposed"].binding = as[d].binding BY <2>9 DEF ActRecs
  <2>11. [as[d] EXCEPT !.result = "unadopted"].binding = as[d].binding BY <2>9 DEF ActRecs
  <2>12. act' = Discard(as, {d}) => \A a \in Actions : act'[a].binding = as[a].binding BY <2>6, <2>10 DEF Discard
  <2>13. act' = [as EXCEPT ![d] = [as[d] EXCEPT !.result = "unadopted"]] =>
           \A a \in Actions : act'[a].binding = as[a].binding
    BY <2>6, <2>11
  <2> QED BY <2>7, <2>8, <2>12, <2>13
<1>5. CASE NextStatement
  <2>1. PICK d \in Actions : d = run.a BY <1>2, <1>5 DEF NextStatement
  <2>2. \/ UNCHANGED act
        \/ \E x : act' = [act EXCEPT ![d] = [act[d] EXCEPT !.draining = TRUE, !.acks = x]]
    BY <1>1, <1>5, <2>1, Zenon DEF NextStatement
  <2>3. ASSUME NEW x, act' = [act EXCEPT ![d] = [act[d] EXCEPT !.draining = TRUE, !.acks = x]]
        PROVE  \A a \in Actions : act'[a].binding = act[a].binding
    <3>1. act[d] \in ActRecs BY <1>1
    <3>2. [act[d] EXCEPT !.draining = TRUE, !.acks = x].binding = act[d].binding BY <3>1 DEF ActRecs
    <3> QED BY <1>1, <2>3, <3>2
  <2> QED BY <2>2, <2>3, Zenon
<1>6. CASE UNCHANGED act BY <1>6
<1> QED
  BY <1>3, <1>4, <1>5, <1>6, Zenon DEF LaunchStep, Pop, LauncherExits, WaitCancel, Hook, Fence, Load, Lock,
                               Exec, OpReturns, PublishHandle

LEMMA SyncLauncher ==
    ASSUME RInv, SyncInv, LaunchStep
    PROVE  SyncInv'
<1>1. UNCHANGED ui
  BY Zenon DEF LaunchStep, Pop, LauncherExits, WaitCancel, Check, Hook, Fence, Load, Lock, Exec, OpReturns,
         PublishHandle, Ack, NextStatement
<1>2. \A a \in Actions : act'[a].binding = act[a].binding BY LauncherBindings
<1>3. sess \in [Sessions -> SessRecs] BY DEF RInv, RTypeOK
<1>4. CASE Pop \/ LauncherExits \/ WaitCancel \/ Check \/ Fence \/ Load \/ OpReturns \/ Ack \/ NextStatement
  <2>1. UNCHANGED sess
    BY <1>4, Zenon DEF Pop, LauncherExits, WaitCancel, Check, Fence, Load, OpReturns, Ack, NextStatement
  <2> QED BY <1>1, <1>2, <2>1, SameShrinks, SyncFrame
<1>5. CASE Hook
  <2>1. SessShrinks BY <1>5, PreemptShrinks DEF Hook
  <2> QED BY <1>1, <1>2, <2>1, SyncFrame
<1>6. CASE PublishHandle
  <2>1. SessShrinks
    <3>1. CASE UNCHANGED sess BY <3>1, SameShrinks
    <3>2. CASE sess' = Released(run.h) /\ run.h # Nil
      <4>1. PICK h \in Handles : h = run.h BY <3>2 DEF RInv, RTypeOK, RunRecs, Opt
      <4> QED BY <1>3, <3>2, <4>1, ReleasedFacts
    <3> QED BY <1>6, <3>1, <3>2 DEF PublishHandle
  <2> QED BY <1>1, <1>2, <2>1, SyncFrame
\* The launcher's own statements are asynchronous.
<1>7. ASSUME NEW b \in Sessions, \A c \in Sessions \ {b} : sess'[c] = sess[c],
             run.pc # "idle", sess'[b].h \in {Nil, <<run.a, run.i>>},
             sess[b].st = "free" \/ sess[b].h = <<run.a, run.i>>
      PROVE  SyncInv'
  <2>1. ASSUME ui.pc \in SyncPcs
        PROVE  /\ sess'[b].h # <<ui.a, 1>> /\ (sess[b].h # <<ui.a, 1>> \/ sess[b].st = "free")
    <3>1. act[ui.a].kind = "sync" /\ Async(run.a) /\ <<ui.a, 1>> \in Handles
      BY <1>7, <2>1, Spaces DEF RInv, UiInv, RunInv, SyncPcs
    <3>2. <<ui.a, 1>> # <<run.a, run.i>> /\ <<ui.a, 1>> # Nil BY <3>1, Spaces DEF Async, AsyncKinds
    <3> QED BY <1>7, <3>2
  <2>2. ASSUME NEW c \in Sessions, ui.pc \in {"syncCancel", "syncHook", "syncLoad", "syncLock"}
        PROVE  sess'[c].h # <<ui.a, 1>>
    BY <1>7, <2>1, <2>2 DEF SyncPcs, SyncInv
  <2>3. ASSUME NEW c \in Sessions, ui.pc = "syncExec"
        PROVE  IF c = act'[ui.a].binding THEN sess'[c].st = "exec" /\ sess'[c].h = <<ui.a, 1>>
                                         ELSE sess'[c].h # <<ui.a, 1>>
    <3>1. act'[ui.a].binding = act[ui.a].binding BY <1>2, <2>3 DEF RInv, UiInv
    <3>2. \A d \in Sessions : IF d = act[ui.a].binding THEN sess[d].st = "exec" /\ sess[d].h = <<ui.a, 1>>
                                                      ELSE sess[d].h # <<ui.a, 1>>
      BY <2>3 DEF SyncInv
    <3>3. b # act[ui.a].binding BY <2>1, <2>3, <3>2 DEF SyncPcs
    <3> QED BY <1>7, <2>1, <2>3, <3>1, <3>2, <3>3 DEF SyncPcs
  <2> QED BY <1>1, <2>2, <2>3 DEF SyncInv
<1>8. CASE Lock
  <2>1. PICK b \in Sessions : b = run.b BY <1>8 DEF Lock, RInv, RunInv
  <2>2. CASE UNCHANGED sess BY <1>1, <1>2, <2>2, SameShrinks, SyncFrame
  <2>3. CASE /\ sess[b].st = "free"
             /\ sess' = [sess EXCEPT ![b].h = <<run.a, run.i>>, ![b].st =
                          IF act[run.a].kind = "explain" THEN "explain" ELSE "exec"]
    <3>1. run.pc # "idle" /\ \A c \in Sessions \ {b} : sess'[c] = sess[c] BY <1>3, <1>8, <2>3 DEF Lock
    <3>2. sess[b] \in SessRecs BY <1>3
    <3>3. sess'[b].h = <<run.a, run.i>> BY <1>3, <2>3, <3>2 DEF SessRecs
    <3> QED BY <1>7, <2>3, <3>1, <3>3
  <2> QED BY <1>8, <2>1, <2>2, <2>3 DEF Lock
<1>9. CASE Exec
  <2>1. PICK b \in Sessions : b = run.b BY <1>9, Zenon DEF Exec, RInv, RunInv
  <2>2. run.pc = "exec" /\ sess[b].h = <<run.a, run.i>> BY <1>9, <2>1, Zenon DEF Exec, RInv, RunInv
  <2>3. sess' = [sess EXCEPT ![b] = FreedSess(sess[b])] \/ sess' = [sess EXCEPT ![b].st = "live"]
    BY <1>9, <2>1, Zenon DEF Exec
  <2>4. \A c \in Sessions \ {b} : sess'[c] = sess[c] BY <1>3, <2>3
  <2>5. sess'[b].h \in {Nil, <<run.a, run.i>>}
    <3>1. sess[b] \in SessRecs BY <1>3
    <3>2. FreedSess(sess[b]).h = Nil BY <3>1, FreedType
    <3> QED BY <1>3, <2>2, <2>3, <3>1, <3>2 DEF SessRecs
  <2> QED BY <1>7, <2>2, <2>4, <2>5
<1> QED BY <1>4, <1>5, <1>6, <1>8, <1>9 DEF LaunchStep

\* A cancel that returns ends no more than the stream its disposer closes.
LEMMA ReturnedShrinks ==
    ASSUME RInv, NEW t \in Threads, NEW ss \in [Sessions -> SessRecs],
           \A b \in Sessions : ss[b].st = sess[b].st /\ ss[b].h = sess[b].h,
           Returned(t, canc, ss, act)
    PROVE  SessShrinks /\ \A a \in Actions : act'[a].binding = act[a].binding
<1>1. canc \in [Threads -> Opt(Cancels)] /\ act \in [Actions -> ActRecs] BY DEF RInv, RTypeOK
<1>2. /\ \A b \in Sessions : \/ sess'[b] = ss[b]
                             \/ ss[b].st = "live" /\ sess'[b] = FreedSess(ss[b])
      /\ \A a \in Actions : act'[a] = IF t = WireCancel(a) THEN [act[a] EXCEPT !.wire = TRUE] ELSE act[a]
  BY <1>1, ReturnedFacts
<1>3. \A b \in Sessions : FreedSess(ss[b]).st = "free" /\ FreedSess(ss[b]).h = Nil BY FreedType
<1>4. SessShrinks BY <1>2, <1>3 DEF SessShrinks
<1>5. ASSUME NEW a \in Actions PROVE act'[a].binding = act[a].binding
  <2>1. act[a] \in ActRecs BY <1>1
  <2>2. [act[a] EXCEPT !.wire = TRUE].binding = act[a].binding BY <2>1 DEF ActRecs
  <2> QED BY <1>2, <2>2
<1> QED BY <1>4, <1>5

LEMMA SyncCancellers ==
    ASSUME RInv, SyncInv, NEW t \in Threads,
           CancelLoad(t) \/ CancelCas(t) \/ CancelAbandon(t) \/ CancelCheck(t) \/ CancelHit(t)
    PROVE  SyncInv'
<1>1. UNCHANGED ui BY DEF CancelLoad, CancelCas, CancelAbandon, CancelCheck, CancelHit
<1>2. sess \in [Sessions -> SessRecs] /\ act \in [Actions -> ActRecs] BY DEF RInv, RTypeOK
<1>3. CASE UNCHANGED <<sess, act>> BY <1>1, <1>3, SameShrinks, SyncFrame
<1>4. CASE CancelAbandon(t)
  <2>1. PICK r \in Actions : act' = [act EXCEPT ![r] = [act[r] EXCEPT !.abandoned = TRUE, !.ctx = TRUE]]
    <3>1. PICK r : r = canc[t].root OBVIOUS
    <3>2. r \in Actions BY <1>4, <3>1 DEF CancelAbandon, RInv, RTypeOK, CancelInv, Cancels, Opt
    <3>3. act' = [act EXCEPT ![r].abandoned = TRUE, ![r].ctx = TRUE] BY <1>4, <3>1 DEF CancelAbandon
    <3> QED BY <1>2, <3>2, <3>3, Zenon
  <2>2. act[r] \in ActRecs BY <1>2
  <2>3. [act[r] EXCEPT !.abandoned = TRUE, !.ctx = TRUE].binding = act[r].binding BY <2>2 DEF ActRecs
  <2>4. \A a \in Actions : act'[a].binding = act[a].binding BY <1>2, <2>1, <2>3
  <2>5. UNCHANGED sess BY <1>4 DEF CancelAbandon
  <2> QED BY <1>1, <2>4, <2>5, SameShrinks, SyncFrame
<1>5. CASE Returned(t, canc, sess, act) BY <1>1, <1>2, <1>5, ReturnedShrinks, SyncFrame
<1>6. CASE CancelHit(t)
  <2>1. PICK b \in Sessions : b = canc[t].b BY <1>6 DEF CancelHit, RInv, CancelInv
  <2>2. PICK ss : /\ ss = IF sess[b].st \in {"exec", "live"} THEN [sess EXCEPT ![b].hit = TRUE] ELSE sess
                  /\ Returned(t, canc, ss, act)
    BY <1>6, <2>1 DEF CancelHit
  <2>3. ss \in [Sessions -> SessRecs] /\ \A d \in Sessions : ss[d].st = sess[d].st /\ ss[d].h = sess[d].h
    BY <1>2, <2>2 DEF SessRecs
  <2> QED BY <1>1, <2>2, <2>3, ReturnedShrinks, SyncFrame
<1> QED BY <1>3, <1>4, <1>5, <1>6 DEF CancelLoad, CancelCas, CancelCheck

\* Goroutines and the worker that retires a connection.
LEMMA SyncWorkers ==
    ASSUME RInv, SyncInv,
           \/ \E a \in Actions : Drained(a) \/ NavDiscard(a) \/ NavAbort(a)
           \/ \E b \in Sessions : StreamEnds(b)
           \/ Retire \/ Unbind \/ Unbound
    PROVE  SyncInv'
<1>1. UNCHANGED ui BY DEF Drained, NavDiscard, NavAbort, StreamEnds, Retire, Unbind, Unbound
<1>2. sess \in [Sessions -> SessRecs] /\ act \in [Actions -> ActRecs] BY DEF RInv, RTypeOK
<1>3. \A a \in Actions : act'[a].binding = act[a].binding
  <2>1. ASSUME NEW set \in SUBSET Actions, act' = Discard(act, set), NEW a \in Actions
        PROVE  act'[a].binding = act[a].binding
    <3>1. act[a] \in ActRecs /\ act'[a] = IF a \in set THEN [act[a] EXCEPT !.result = "disposed"] ELSE act[a]
      BY <1>2, <2>1, DiscardActs
    <3> QED BY <3>1 DEF ActRecs
  <2>2. ASSUME NEW d \in Actions, Drained(d), NEW a \in Actions
        PROVE  act'[a].binding = act[a].binding
    <3>1. act' = [act EXCEPT ![d] = [act[d] EXCEPT !.draining = FALSE, !.done = TRUE]] BY <1>2, <2>2 DEF Drained
    <3>2. act[d] \in ActRecs BY <1>2
    <3>3. [act[d] EXCEPT !.draining = FALSE, !.done = TRUE].binding = act[d].binding BY <3>2 DEF ActRecs
    <3> QED BY <1>2, <3>1, <3>3
  <2>3. UNCHANGED act \/ (\E d \in Actions : Drained(d)) \/ \E set \in SUBSET Actions : act' = Discard(act, set)
    <3>1. Unadopted \in SUBSET Actions /\ \A a \in Actions : {a} \in SUBSET Actions BY DEF Unadopted
    <3> QED BY <3>1 DEF NavDiscard, NavAbort, StreamEnds, Retire, Unbind, Unbound
  <2> QED BY <2>1, <2>2, <2>3
<1>4. SessShrinks
  <2>1. CASE UNCHANGED sess BY <2>1, SameShrinks
  <2>2. ASSUME NEW b \in Sessions, StreamEnds(b) PROVE SessShrinks
    <3>1. sess' = [sess EXCEPT ![b] = FreedSess(sess[b])] /\ sess[b].st = "live" BY <2>2 DEF StreamEnds, Streaming
    <3>2. FreedSess(sess[b]).st = "free" /\ FreedSess(sess[b]).h = Nil BY <1>2, FreedType
    <3> QED BY <1>2, <3>1, <3>2 DEF SessShrinks
  <2>3. CASE Retire
    <3>1. PICK b \in Sessions : b = binding BY <2>3 DEF Retire, RInv, RTypeOK, BoundTo
    <3>2. PICK c : c = [sess[b] EXCEPT !.closed = TRUE, !.hit = @ \/ sess[b].st \in {"exec", "live"}] OBVIOUS
    <3>3. c.st = sess[b].st /\ c.h = sess[b].h BY <1>2, <3>2, ClosedSess, Zenon
    <3>4. sess' = [sess EXCEPT ![b] = c] BY <2>3, <1>2, <3>1, <3>2 DEF Retire
    <3>5. \A d \in Sessions : sess'[d].st = sess[d].st /\ sess'[d].h = sess[d].h BY <1>2, <3>3, <3>4
    <3> QED BY <3>5 DEF SessShrinks
  <2> QED BY <2>1, <2>2, <2>3 DEF Drained, NavDiscard, NavAbort, Unbind, Unbound
<1> QED BY <1>1, <1>3, <1>4, SyncFrame

\* The UI thread begins the run and takes it to its session.
LEMMA SyncSteps ==
    ASSUME RInv, SyncInv, SyncStart \/ SyncCancelLast \/ SyncHook \/ SyncLoad \/ SyncLock
    PROVE  SyncInv'
<1>1. sess \in [Sessions -> SessRecs] /\ act \in [Actions -> ActRecs] /\ ui \in UiRecs BY DEF RInv, RTypeOK
<1>2. ASSUME ui'.pc \in {"syncCancel", "syncHook", "syncLoad", "syncLock"},
             \A b \in Sessions : sess'[b].h # <<ui'.a, 1>>
      PROVE  SyncInv'
  BY <1>2 DEF SyncInv
<1>3. CASE SyncStart
  <2>1. PICK n \in Actions : n = NextAction BY <1>3 DEF SyncStart
  <2>2. ui'.pc = "syncCancel" /\ ui'.a = n /\ UNCHANGED sess BY <1>1, <1>3, <2>1 DEF SyncStart, UiRecs
  <2>3. act[n].kind = "none" /\ <<n, 1>> # Nil BY <2>1, NextFacts, Spaces DEF RInv
  <2>4. ASSUME NEW b \in Sessions, sess[b].h = <<n, 1>> PROVE FALSE
    <3>1. act[sess[b].h[1]].kind # "none" BY <2>3, <2>4 DEF RInv, HoldInv
    <3>2. sess[b].h[1] = n BY <2>4
    <3> QED BY <2>3, <3>1, <3>2
  <2> QED BY <1>2, <2>2, <2>4
<1>4. ASSUME SyncCancelLast \/ SyncHook \/ SyncLoad
      PROVE  /\ ui'.a = ui.a /\ ui.pc \in {"syncCancel", "syncHook", "syncLoad"}
             /\ ui'.pc \in {"syncHook", "syncLoad", "syncLock"} /\ SessShrinks
             \/ ui'.pc = "idle"
  <2>1. CASE SyncCancelLast
    <3>1. SessShrinks BY <2>1, SameShrinks DEF SyncCancelLast
    <3> QED BY <1>1, <2>1, <3>1 DEF SyncCancelLast, UiRecs
  <2>2. CASE SyncHook
    <3>1. SessShrinks BY <2>2, PreemptShrinks DEF SyncHook
    <3> QED BY <1>1, <2>2, <3>1 DEF SyncHook, UiRecs
  <2>3. CASE SyncLoad
    <3>1. SessShrinks BY <2>3, SameShrinks DEF SyncLoad
    <3> QED BY <1>1, <2>3, <3>1 DEF SyncLoad, UiRecs, IdleUi
  <2> QED BY <1>4, <2>1, <2>2, <2>3
<1>5. CASE SyncCancelLast \/ SyncHook \/ SyncLoad
  <2>1. CASE ui'.pc = "idle" BY <2>1, SyncElsewhere
  <2>2. CASE ui'.pc # "idle"
    <3>1. \A b \in Sessions : sess[b].h # <<ui.a, 1>> /\ Nil # <<ui.a, 1>>
      BY <1>4, <1>5, <2>2, Spaces, ZenonT(40) DEF SyncInv, RInv, UiInv
    <3>2. \A b \in Sessions : sess'[b].h # <<ui.a, 1>> BY <1>4, <1>5, <2>2, <3>1 DEF SessShrinks
    <3> QED BY <1>2, <1>4, <1>5, <2>2, <3>2
  <2> QED BY <2>1, <2>2
<1>6. CASE SyncLock
  <2>1. CASE ui' = IdleUi BY <2>1, SyncElsewhere DEF IdleUi
  <2>2. CASE ui' # IdleUi
    <3>1. PICK a \in Actions : a = ui.a BY <1>6 DEF SyncLock, RInv, UiInv
    <3>2. PICK b \in Sessions : b = act[a].binding BY <1>6, <3>1 DEF SyncLock, RInv, UiInv
    <3>3. /\ sess' = [sess EXCEPT ![b].st = "exec", ![b].h = <<a, 1>>]
          /\ ui' = [ui EXCEPT !.pc = "syncExec"] /\ ui.pc = "syncLock" /\ UNCHANGED act
      BY <1>6, <2>2, <3>1, <3>2 DEF SyncLock
    <3>4. sess'[b].st = "exec" /\ sess'[b].h = <<a, 1>> /\ \A c \in Sessions \ {b} : sess'[c] = sess[c]
      BY <1>1, <3>3 DEF SessRecs
    <3>5. ui'.pc = "syncExec" /\ ui'.a = a BY <1>1, <3>1, <3>3 DEF UiRecs
    <3>6. \A c \in Sessions : sess[c].h # <<a, 1>> BY <3>1, <3>3 DEF SyncInv
    <3>7. act'[ui'.a].binding = b BY <3>2, <3>3, <3>5
    <3>8. \A c \in Sessions : IF c = b THEN sess'[c].st = "exec" /\ sess'[c].h = <<a, 1>>
                                        ELSE sess'[c].h # <<a, 1>>
      BY <3>4, <3>6
    <3> QED BY <3>5, <3>7, <3>8 DEF SyncInv
  <2> QED BY <2>1, <2>2
<1> QED BY <1>3, <1>5, <1>6

\* Every other step of the UI thread is outside these positions.
LEMMA SyncUi ==
    ASSUME RInv, SyncInv, UserStep \/ UiStep \/ Callback
    PROVE  SyncInv'
<1>1. ui \in UiRecs BY DEF RInv, RTypeOK
<1>2. CASE SyncStart \/ SyncCancelLast \/ SyncHook \/ SyncLoad \/ SyncLock BY <1>2, SyncSteps
<1>3. ASSUME NEW kind \in Kinds, EnqueueSwap(kind) PROVE ui'.pc = "enqueue" BY <1>1, <1>3 DEF EnqueueSwap, UiRecs
<1>4. CASE UserCancel \/ Bind \/ QuitCancel \/ \E a \in Actions : CancelNavigation(a)
  <2>1. UserCancel => ui'.pc = "cancel" BY <1>1 DEF UserCancel, UiRecs
  <2>2. Bind => ui'.pc = "idle" BY DEF Bind
  <2>3. QuitCancel => ui'.pc = "quitWait" BY DEF QuitCancel
  <2>4. \A a \in Actions : CancelNavigation(a) => ui'.pc = "idle" BY DEF CancelNavigation
  <2>5. ui'.pc \in {"cancel", "quitWait", "idle"} BY <1>4, <2>1, <2>2, <2>3, <2>4
  <2> QED BY <2>5, SyncElsewhere
<1>5. CASE Callback
  <2>1. ui'.pc = "idle" BY <1>5 DEF Callback, Settle, Accept
  <2> QED BY <2>1, SyncElsewhere
<1>6. CASE EnqueueQueue \/ WaitWire \/ UserCancelled \/ SyncExec \/ SyncPublish
  <2>1. EnqueueQueue => ui'.pc \in {"idle", "waitWire"} BY <1>1 DEF EnqueueQueue, UiRecs
  <2>0. IdleUi.pc = "idle" /\ \A h : [ui EXCEPT !.pc = "syncPublish", !.h = h].pc = "syncPublish"
    BY <1>1 DEF IdleUi, UiRecs
  <2>2. WaitWire \/ UserCancelled \/ SyncPublish => ui'.pc = "idle"
    <3>1. WaitWire \/ UserCancelled \/ SyncPublish => ui' = IdleUi BY DEF WaitWire, UserCancelled, SyncPublish
    <3> QED BY <2>0, <3>1
  <2>3. SyncExec => ui'.pc \in {"idle", "syncPublish"}
    <3>1. SyncExec => ui' = IdleUi \/ ui' = [ui EXCEPT !.pc = "syncPublish", !.h = <<ui.a, 1>>] BY DEF SyncExec
    <3> QED BY <2>0, <3>1
  <2>4. ui'.pc \in {"idle", "waitWire", "syncPublish"} BY <1>6, <2>1, <2>2, <2>3
  <2> QED BY <2>4, SyncElsewhere
<1>7. CASE QuitDrained \/ QuitExpires \/ Close \/ Sweep \/ Stop
  <2>1. ui'.pc \in {"drained", "closing", "sweep", "stopping", "stopped"}
    BY <1>1, <1>7, Zenon DEF QuitDrained, QuitExpires, Close, Sweep, Stop, UiRecs
  <2> QED BY <2>1, SyncElsewhere
<1>8. CASE \E kind \in Kinds : EnqueueSwap(kind)
  <2>1. ui'.pc = "enqueue" BY <1>3, <1>8
  <2> QED BY <2>1, SyncElsewhere
<1> QED BY <1>2, <1>4, <1>5, <1>6, <1>7, <1>8 DEF UserStep, UiStep

LEMMA SyncKeeps ==
    ASSUME RInv, SyncInv, RunnerNext
    PROVE  SyncInv'
<1>1. CASE UserStep \/ UiStep \/ Callback BY <1>1, SyncUi
<1>2. CASE LaunchStep BY <1>2, SyncLauncher
<1>3. CASE Canceller BY <1>3, SyncCancellers DEF Canceller
<1>4. CASE \/ \E a \in Actions : Drained(a) \/ NavDiscard(a) \/ NavAbort(a)
           \/ \E b \in Sessions : StreamEnds(b)
           \/ Retire \/ Unbind \/ Unbound
  BY <1>4, SyncWorkers
<1> QED BY <1>1, <1>2, <1>3, <1>4 DEF RunnerNext, Goroutine

-----------------------------------------
(* The invariant holds. *)

LEMMA NoActionType ==
    /\ NoAction \in ActRecs /\ NoAction.kind = "none" /\ ~NoAction.wire /\ ~NoAction.draining
    /\ ~NoAction.done /\ NoAction.result = "none"
    /\ NoAction.acks \in [1..2 -> Seq(Verdicts)] /\ \A i \in 1..2 : NoAction.acks[i] = <<>>
<1>1. [i \in 1..2 |-> <<>>] \in [1..2 -> Seq(Verdicts)] BY EmptySeq
<1> QED BY <1>1 DEF NoAction, NewAction, ActRecs, NoSess, BoundTo

LEMMA RunnerStarts == RunnerInit => RInv /\ SyncInv
<1> SUFFICES ASSUME RunnerInit PROVE RInv /\ SyncInv OBVIOUS
<1>1. /\ act = [a \in Actions |-> NoAction] /\ run = IdleRun /\ ui = IdleUi
      /\ sess = [b \in Sessions |-> FreeSess] /\ canc = [t \in Threads |-> Nil]
      /\ enq = Nil /\ last = Nil /\ queue = <<>> /\ signal = 0 /\ retirer = "idle" /\ stray = {}
      /\ tabs = [acked |-> {}, open |-> {}] /\ generation = 0 /\ launching = FALSE
      /\ binding \in BoundTo
  BY RunnerAssumption DEF RunnerInit, BoundTo, Sessions, NoSess
<1>2. IdleRun \in RunRecs /\ IdleRun.pc = "idle" BY DEF IdleRun, RunRecs, NoSess, BoundTo, Opt, Verdicts
<1>3. IdleUi \in UiRecs /\ IdleUi.pc = "idle" BY DEF IdleUi, UiRecs, Opt
<1>4. FreeSess \in SessRecs /\ FreeSess.st = "free" /\ FreeSess.h = Nil BY DEF FreeSess, SessRecs, Opt
<1>5. \A a \in Actions : /\ act[a] = NoAction /\ ~Async(a) /\ Fresh(a) /\ ~Finished(a)
                         /\ ~Queued(a) /\ ~Running(a) /\ ~Enqueuing(a)
  <2> SUFFICES ASSUME NEW a \in Actions
               PROVE  /\ act[a] = NoAction /\ ~Async(a) /\ Fresh(a) /\ ~Finished(a)
                      /\ ~Queued(a) /\ ~Running(a) /\ ~Enqueuing(a)
    OBVIOUS
  <2>1. act[a] = NoAction BY <1>1
  <2>2. ~Async(a) /\ ~Finished(a) BY <2>1, NoActionType DEF Async, AsyncKinds, Finished
  <2>3. Told(a, 1) = 0 /\ Told(a, 2) = 0 BY <2>1, NoActionType DEF Told
  <2>4. ~Queued(a) /\ ~Running(a) /\ ~Enqueuing(a) BY <1>1, <1>2 DEF Queued, Running, Enqueuing
  <2> QED BY <2>1, <2>2, <2>3, <2>4 DEF Fresh
<1>6. NextAction = 1
  <2>1. {a \in Actions : act[a].kind # "none"} = {} BY <1>5, NoActionType
  <2> QED BY <2>1, FS_EmptySet DEF NextAction
<1>7. RTypeOK
  <2>1. act \in [Actions -> ActRecs] /\ queue \in Seq(Actions) BY <1>1, NoActionType
  <2>2. sess \in [Sessions -> SessRecs] /\ canc \in [Threads -> Opt(Cancels)] BY <1>1, <1>4 DEF Opt
  <2> QED BY <1>1, <1>2, <1>3, <2>1, <2>2 DEF RTypeOK, Opt
<1>8. ActsInv BY <1>5, <1>6, NoActionType, Spaces DEF ActsInv
<1>9. UiInv /\ QuitInv /\ SyncInv BY <1>1, <1>3 DEF UiInv, QuitInv, SyncInv
<1>10. PlaceInv BY <1>1, <1>5, NoActionType DEF PlaceInv
<1>11. RunInv BY <1>1, <1>2 DEF RunInv
<1>12. \A t \in Threads : canc[t] = Nil BY <1>1
<1>13. AckInv BY <1>1, <1>5, <1>12, NoActionType, ThreadFacts DEF AckInv
<1>14. HoldInv BY <1>1, <1>4 DEF HoldInv
<1>15. CancelInv BY <1>12, ThreadFacts DEF CancelInv
<1>16. NoStrayCancel BY <1>1 DEF NoStrayCancel
<1>17. SignalInv /\ LastInv
  <2>1. {a \in Actions : act[a].kind \in {"run", "batch"}} = {} BY <1>5, NoActionType
  <2> QED BY <1>1, <2>1 DEF SignalInv, SignalIsNewestRun, LastInv
<1> QED BY <1>7, <1>8, <1>9, <1>10, <1>11, <1>13, <1>14, <1>15, <1>16, <1>17 DEF RInv

LEMMA UserStepKeeps == RInv /\ UserStep => RInv'
BY EnqueueSwapKeeps, UserCancelKeeps, SyncStartKeeps, BindKeeps, QuitCancelKeeps,
   CancelNavigationKeeps DEF UserStep

LEMMA UiStepKeeps == RInv /\ SyncInv /\ UiStep => RInv'
BY EnqueueQueueKeeps, UiReturns, SyncCancelLastKeeps, SyncHookKeeps, SyncLoadKeeps,
   SyncLockKeeps, SyncExecKeeps, SyncPublishKeeps, CloseKeeps, SweepKeeps, StopKeeps DEF UiStep

LEMMA CallbackKeeps == RInv /\ Callback => RInv'
BY SettleKeeps, AcceptKeeps DEF Callback

LEMMA LaunchStepKeeps == RInv /\ LaunchStep => RInv'
BY PopKeeps, ExitKeeps, WaitCancelKeeps, CheckKeeps, HookKeeps, FenceKeeps, LoadKeeps, LockKeeps,
   ExecKeeps, OpReturnsKeeps, PublishKeeps, AckKeeps, NextKeeps DEF LaunchStep

LEMMA GoroutineKeeps == RInv /\ Goroutine => RInv'
BY CancelLoadKeeps, CancelCasKeeps, CancelAbandonKeeps, CancelCheckKeeps, CancelHitKeeps,
   DrainedKeeps, NavDiscardKeeps DEF Goroutine, Canceller

LEMMA RunnerStep == RInv /\ SyncInv /\ RunnerNext => RInv' /\ SyncInv'
<1>1. RInv /\ SyncInv /\ RunnerNext => RInv'
  BY UserStepKeeps, UiStepKeeps, CallbackKeeps, LaunchStepKeeps, GoroutineKeeps, NavAbortKeeps,
     StreamEndsKeeps, RetireKeeps, UnbindKeeps, UnboundKeeps DEF RunnerNext
<1>2. RInv /\ SyncInv /\ RunnerNext => SyncInv' BY SyncKeeps
<1> QED BY <1>1, <1>2

LEMMA RunnerStutters == RInv /\ SyncInv /\ UNCHANGED runnerVars => RInv' /\ SyncInv'
<1> SUFFICES ASSUME RInv, SyncInv, UNCHANGED runnerVars PROVE RInv' /\ SyncInv' OBVIOUS
<1>1. UNCHANGED <<binding, generation, last, act, queue, launching, run, sess, enq,
                  canc, tabs, signal, ui, retirer, events, stray>>
  BY DEF runnerVars
<1>2. RTypeOK' BY <1>1 DEF RInv, RTypeOK
<1>3. CoreSame BY <1>1 DEF CoreSame
<1> QED BY <1>1, <1>2, <1>3, CoreKeeps, SameShrinks, SyncFrame DEF CoreSame

\* The inductive invariant: where every action is, what was said of it, who
\* holds each session and how far each cancel reaches.
THEOREM RunnerInvariant == RunnerSpec => [](RInv /\ SyncInv)
<1>1. RInv /\ SyncInv /\ [RunnerNext]_runnerVars => (RInv /\ SyncInv)' BY RunnerStep, RunnerStutters
<1> QED BY <1>1, RunnerStarts, PTL DEF RunnerSpec

-----------------------------------------
(* The properties. *)

LEMMA Acknowledged == RInv => AckedOnce
<1> SUFFICES ASSUME RInv, NEW a \in Actions, NEW i \in Stmts(act[a].kind)
             PROVE  /\ Len(act[a].acks[i]) <= 1
                    /\ act[a].draining \/ act[a].done => Len(act[a].acks[i]) = 1
  BY DEF AckedOnce
<1>1. i \in 1..2 BY Spaces
<1>2. Finished(a) => Told(a, i) = 1 BY DEF RInv, AckInv
<1>3. ~Finished(a) => Told(a, i) \in {0, 1}
  <2>1. CASE ~Async(a) BY <1>1, <2>1 DEF RInv, PlaceInv, Fresh
  <2>2. CASE Queued(a) \/ Enqueuing(a) BY <1>1, <2>2 DEF RInv, PlaceInv, Fresh
  <2>3. CASE Running(a) BY <1>1, <2>3 DEF RInv, RunInv, Running
  <2> QED BY <2>1, <2>2, <2>3 DEF RInv, PlaceInv
<1>4. Told(a, i) <= 1 BY <1>2, <1>3
<1>5. act[a].draining \/ act[a].done => Told(a, i) = 1 BY <1>2 DEF Finished
<1> QED BY <1>4, <1>5 DEF Told

LEMMA Owned == RInv => OneOwner
<1> SUFFICES ASSUME RInv, NEW b \in Sessions, sess[b].st = "live", Owner(sess[b].h).kind # "sync"
             PROVE  Cardinality(OwnersOf(sess[b].h)) = 1
  BY DEF OneOwner
<1>1. sess[b].h \in Handles BY DEF RInv, HoldInv
<1> PICK h \in Handles : h = sess[b].h BY <1>1
<1> PICK a \in Actions : a = h[1] BY Spaces
<1>2. /\ act[a].kind # "sync" /\ act[a].kind # "explain" /\ Claimed(h) /\ act[a].kind # "none"
      /\ h[2] \in Stmts(act[a].kind) /\ h[2] \in 1..2 /\ h = <<a, h[2]>> /\ h # Nil
  <2>1. act[a].kind # "sync" BY DEF Owner
  <2>2. sess[b].h # Nil BY <1>1, Spaces
  <2> QED BY <2>1, <2>2, Spaces DEF RInv, HoldInv
<1> DEFINE L == run.h = h /\ run.pc \in {"return", "publish", "ack"}
           K == <<h[1], h[2], h>> \in tabs.acked
           T == h \in tabs.open
           U == act[h[1]].result = "unadopted"
           D == canc[Disposer(h[1])] # Nil
           X == ui.h = h /\ ui.pc = "syncPublish"
\* A statement that was not answered has neither a callback, nor a tab, nor a result.
<1>3. L => Told(a, h[2]) = 0
  <2>1. L => run.h = <<run.a, run.i>> /\ run.pc \notin {"idle", "next"} /\ run.i \in 1..2
    BY <1>2, Spaces DEF RInv, RunInv
  <2>2. L => run.a = a /\ run.i = h[2] BY <1>2, <2>1
  <2> QED BY <1>2, <2>1, <2>2 DEF RInv, RunInv
<1>4. K => /\ Told(a, h[2]) # 0 /\ h \notin tabs.open /\ act[a].kind # "bound"
  <2>1. PICK k : k = <<h[1], h[2], h>> OBVIOUS
  <2>2. k[1] = a /\ k[2] = h[2] /\ k[3] = h BY <2>1
  <2>3. K => k \in tabs.acked BY <2>1
  <2> QED BY <1>2, <2>2, <2>3 DEF RInv, AckInv
<1>5. T => Told(a, h[2]) # 0 /\ (act[a].kind = "bound" => act[a].result = "adopted") BY <1>2 DEF RInv, AckInv
<1>6. (U \/ D) => act[a].kind = "bound" /\ Told(a, 1) # 0 BY DEF RInv, AckInv
<1>7. (U \/ D) => h[2] = 1 BY <1>2, <1>6 DEF Stmts
<1>8. D => act[a].result = "disposed" BY DEF RInv, AckInv
<1>9. ~X BY <1>2 DEF RInv, UiInv
<1>10. L \/ K \/ T \/ U \/ D BY <1>2 DEF Claimed
<1>11. /\ L => ~K /\ ~T /\ ~U /\ ~D
       /\ K => ~T /\ ~U /\ ~D
       /\ T => ~U /\ ~D
       /\ U => ~D
  BY <1>3, <1>4, <1>5, <1>6, <1>7, <1>8
<1>12. PICK x : OwnersOf(h) = {x}
  <2>1. OwnersOf(h) = {x \in {"launcher", "callback", "tab", "unadopted", "disposer", "ui"} :
                         \/ x = "launcher" /\ L
                         \/ x = "callback" /\ K
                         \/ x = "tab" /\ T
                         \/ x = "unadopted" /\ U
                         \/ x = "disposer" /\ D
                         \/ x = "ui" /\ X}
    BY DEF OwnersOf
  <2> HIDE DEF L, K, T, U, D, X
  <2>2. CASE L
    <3>1. OwnersOf(h) = {"launcher"} BY <1>9, <1>11, <2>1, <2>2
    <3> QED BY <3>1
  <2>3. CASE K
    <3>1. OwnersOf(h) = {"callback"} BY <1>9, <1>11, <2>1, <2>3
    <3> QED BY <3>1
  <2>4. CASE T
    <3>1. OwnersOf(h) = {"tab"} BY <1>9, <1>11, <2>1, <2>4
    <3> QED BY <3>1
  <2>5. CASE U
    <3>1. OwnersOf(h) = {"unadopted"} BY <1>9, <1>11, <2>1, <2>5
    <3> QED BY <3>1
  <2>6. CASE D
    <3>1. OwnersOf(h) = {"disposer"} BY <1>9, <1>11, <2>1, <2>6
    <3> QED BY <3>1
  <2> QED BY <1>10, <2>2, <2>3, <2>4, <2>5, <2>6
<1> QED BY <1>12, FS_Singleton

LEMMA Drains == RInv => DrainedBeforeCommit
<1> SUFFICES ASSUME RInv, ui.pc = "drained", ui.a # 0, NEW b \in Sessions, sess[b].h # Nil,
                    sess[b].h[1] = ui.a
             PROVE  FALSE
  BY DEF DrainedBeforeCommit
<1>1. sess[b].h \in Handles /\ sess[b].st # "free" /\ sess[b].st \in {"free", "exec", "explain", "live"}
  BY DEF RInv, HoldInv, RTypeOK, SessRecs
<1> PICK h \in Handles : h = sess[b].h BY <1>1
<1> PICK a \in Actions : a = h[1] /\ a = ui.a BY Spaces
<1>2. /\ h[2] \in Stmts(act[a].kind) /\ act[a].kind # "none" /\ h = <<a, h[2]>> /\ h[2] \in 1..2
  BY Spaces DEF RInv, HoldInv
<1>3. CASE sess[b].st \in {"exec", "explain"}
  <2>1. run.pc = "exec" /\ h = <<run.a, run.i>> BY <1>3 DEF RInv, HoldInv
  <2>2. run.a = a /\ run.i = h[2] /\ Async(a) /\ ~Finished(a) /\ Told(a, h[2]) = 0 BY <1>2, <2>1 DEF RInv, RunInv
  <2>3. ~act[a].done BY <2>2 DEF Finished
  <2>4. act[a].kind # "batch" /\ ui.h = <<a, 1>> /\ Executed(ui.h) BY <2>3 DEF RInv, QuitInv
  <2>5. h[2] = 1 BY <1>2, <2>4 DEF Stmts
  <2>6. ~Executed(<<a, 1>>) BY <2>1, <2>2, <2>5 DEF Executed, Async, AsyncKinds
  <2> QED BY <2>4, <2>6
<1>4. CASE sess[b].st = "live"
  <2>1. CASE act[a].done
    <3>1. act[a].kind = "sync" BY <1>4, <2>1 DEF RInv, HoldInv
    <3> QED BY <2>1, <3>1 DEF RInv, PlaceInv, Fresh, Finished, Async, AsyncKinds
  <2>2. CASE ~act[a].done
    <3>1. act[a].kind # "batch" /\ ui.h = <<a, 1>> /\ ~Live(ui.h) BY <2>2 DEF RInv, QuitInv
    <3>2. h = <<a, 1>> BY <1>2, <3>1 DEF Stmts
    <3>3. Live(h) BY <1>4 DEF Live, HeldBy
    <3> QED BY <3>1, <3>2, <3>3
  <2> QED BY <2>1, <2>2
<1> QED BY <1>1, <1>3, <1>4

\* Whatever cancelled an action and when, each of its statements is answered
\* once, and each of its streams has exactly one party that will close it
\* (execLaunch, publishResolved, Accept, discardUnadoptedLocked).
THEOREM RunsAnsweredTheorem == RunnerSpec => []RunsAnswered
<1>1. RInv => RunsAnswered BY Acknowledged, Owned DEF RunsAnswered
<1> QED BY <1>1, RunnerInvariant, PTL

\* A cancel interrupts no asynchronous action younger than what it was meant
\* for, the indicator shows the newest run while it has something to say, and
\* quit's COMMIT follows what it waited for (wireCancelDone, ClearQueryRun,
\* CancelAndWaitActiveRun).
THEOREM CancelsHitTheirRunTheorem == RunnerSpec => []CancelsHitTheirRun
<1>1. RInv => CancelsHitTheirRun BY Drains DEF RInv, SignalInv, CancelsHitTheirRun
<1> QED BY <1>1, RunnerInvariant, PTL
=============================================================================
