------------------------- MODULE ResultBufferProofs -------------------------
(***************************************************************************)
(* The safety properties of ResultBuffer, for any number of tasks, waiters  *)
(* and Stop calls, any result length, fill, chunk and channel size.         *)
(*                                                                          *)
(* The properties speak of what a waiter is told and what the grid shows;   *)
(* in between lie the worker, the publisher's queue and the acknowledgments *)
(* on their way back. IInv says where a row can be (PublisherInv, ChainInv),*)
(* what a terminal completion says about its worker (VerdictInv) and what   *)
(* was said to whom (WaiterInv).                                            *)
(***************************************************************************)
EXTENDS ResultBuffer, TLAPS, FiniteSetTheorems, SequenceTheorems

\* Rows of t handed to the publisher.
Sent(t) == got[t] - batch[t]

\* The worker holds undispatched rows only inside a drain.
BatchInv ==
    \A t \in Tasks : /\ batch[t] <= got[t]
                     /\ worker[t] \notin {"drain", "next", "dispatch"} => batch[t] = 0

\* What is on its way to the grid, settled or not, are disjoint batches of rows
\* already sent, in order; the one being appended comes next on the grid.
PublisherInv ==
    /\ IsFiniteSet(accepted)
    /\ retiring => queue = <<>> /\ accepted = {} /\ running = None
    /\ \A p \in accepted : p.from <= p.upto /\ p.upto <= Sent(p.task)
    /\ \A i \in 1..Len(queue) :
          queue[i].from <= queue[i].upto /\ queue[i].upto <= Sent(queue[i].task)
    /\ \A i, j \in 1..Len(queue) :
          i < j /\ queue[i].task = queue[j].task => queue[i].upto < queue[j].from
    /\ running # None => /\ running.from = Len(view[running.task]) + 1
                         /\ running.from <= running.upto
                         /\ running.upto <= Sent(running.task)

\* The last row of t on the grid once the main loop's present callback returns.
Base(t) == IF running # None /\ running.task = t THEN running.upto ELSE Len(view[t])

\* Nothing of t has been dropped: every row between the grid and the worker is in
\* the queue, unsettled.
Whole(t) == t \notin retired /\ deliveryErr[t] = "nil"
ChainInv ==
    /\ \A t \in Tasks : t \notin retired /\ ~retiring => deliveryErr[t] = "nil"
    /\ \A t \in Tasks : Whole(t) =>
          /\ \A i \in 1..Len(queue) : queue[i].task = t
                 => queue[i] \in accepted /\ Base(t) < queue[i].from
          /\ \A r \in (Base(t) + 1)..Sent(t) : \E i \in 1..Len(queue) :
                 queue[i].task = t /\ queue[i].from <= r /\ r <= queue[i].upto
          /\ running # None /\ running.task = t => running \in accepted

\* The grid shows a prefix of what was sent.
ViewInv ==
    \A t \in Tasks : /\ Len(view[t]) <= Sent(t)
                     /\ \A i \in 1..Len(view[t]) : view[t][i] = i

\* The completion has been given a verdict of success.
Clean(t) == t \in terminal /\ err[t] = "nil" /\ deliveryErr[t] = "nil" /\ pending[t] = 0

\* Past its settlement, a worker's outcome is fixed.
Settled(t) == worker[t] \in {"clear", "ondone", "done"}

\* A stopped or retired completion is terminal; one without an error belongs to a
\* worker that saw the end of its stream and closed it.
WorkerOK(t) ==
    /\ (worker[t] \in {"close", "settle"} \/ Settled(t)) /\ taskErr[t] = "nil"
          /\ t \notin stopped => result[t] = "eof"
    /\ (worker[t] = "settle" \/ Settled(t)) /\ taskErr[t] = "nil" => t \in closed
VerdictOK(t) ==
    /\ t \in terminal /\ err[t] = "nil"
          => Settled(t) /\ result[t] = "eof" /\ t \in closed /\ taskErr[t] = "nil"
    /\ t \in retired /\ err[t] = "nil" => pending[t] = 0
VerdictInv ==
    /\ stopped \subseteq terminal
    /\ retired \subseteq terminal
    /\ \A t \in Tasks : WorkerOK(t) /\ VerdictOK(t)

\* A verdict of success is about a result that is on the grid.
ShownInv == \A t \in Tasks : Clean(t) => Len(view[t]) = got[t]

\* What a waiter was told, and of what.
WaiterOK(w) ==
    /\ \A t \in Tasks : waiting[w] = t => asked[w] = t /\ told[w] = <<>> /\ ~Ready(t)
    /\ Len(told[w]) <= 1
    /\ told[w] = <<"nil">> => \E t \in Tasks : asked[w] = t /\ Clean(t)
WaiterInv == \A w \in Waiters : WaiterOK(w)

\* One launch at a time, and what it found under mu is still the only task there.
Launching(t) == launch[t] \in {"retire", "stop", "wait", "install"}
LaunchInv ==
    /\ \A t, u \in Tasks : Launching(t) /\ Launching(u) => t = u
    /\ \A t \in Tasks : worker[t] \in Live \ {"ondone"} <=> current = t
    /\ \A t \in Tasks : Launching(t) => current \in {None, prior[t].stop}
    /\ \A t \in Tasks : launch[t] = "install" => current = None

\* A call waits only for a task it found.
TargetInv ==
    /\ \A t \in Tasks : launch[t] \in {"stop", "wait"} => prior[t].stop \in Tasks
    /\ \A s \in Stoppers : stopper[s] \in {"stop", "wait"} => stopOf[s].stop \in Tasks

RowsInv == PublisherInv /\ ChainInv /\ ViewInv
Core == BatchInv /\ RowsInv /\ PendingIsExact /\ VerdictInv /\ ShownInv /\ WaiterInv
IInv == TypeOK /\ Core /\ TargetInv /\ (SerialLaunch => LaunchInv)

-----------------------------------------
(* Types, one group of variables at a time. *)

TaskTypeOK ==
    /\ worker \in [Tasks -> {"none", "done"} \cup Live]
    /\ want \in [Tasks -> -1..(MaxRows + ChunkRows)]
    /\ fill \in [Tasks -> 0..InitialRows]
    /\ got \in [Tasks -> 0..MaxRows]
    /\ batch \in [Tasks -> 0..MaxRows]
    /\ result \in [Tasks -> {"full", "short", "eof", "failed", "canceled"}]
    /\ taskErr \in [Tasks -> Errors]
    /\ closed \in SUBSET Tasks
    /\ onDone \in [Tasks -> Errors \cup {"none"}]
CompletionTypeOK ==
    /\ terminal \in SUBSET Tasks
    /\ err \in [Tasks -> Errors]
    /\ deliveryErr \in [Tasks -> Errors]
    /\ pending \in [Tasks -> Nat]
    /\ retired \in SUBSET Tasks
WaiterTypeOK ==
    /\ asked \in [Waiters -> Tasks \cup {None}]
    /\ waiting \in [Waiters -> Tasks \cup {None}]
    /\ canceled \in SUBSET Waiters
    /\ told \in [Waiters -> Seq(Errors \cup {"nostream"})]
CallTypeOK ==
    /\ key \in [Tasks -> Keys]
    /\ launch \in [Tasks -> {"idle", "duplicate", "retire", "stop", "wait",
                             "install", "launched"}]
    /\ prior \in [Tasks -> Snapshots]
    /\ current \in Tasks \cup {None}
    /\ completion \in Tasks \cup {None}
    /\ stopped \in SUBSET Tasks
    /\ requests \in [Tasks -> 0..ReqCap]
    /\ drain \in SUBSET Tasks
    /\ stopper \in [Stoppers -> {"idle", "retire", "stop", "wait", "returned"}]
    /\ stopOf \in [Stoppers -> Snapshots]

\* TypeOK is its groups, now ...
LEMMA TypeGroups ==
    TypeOK <=> /\ PublisherTypeOK /\ TaskTypeOK /\ CompletionTypeOK /\ WaiterTypeOK
               /\ CallTypeOK /\ view \in [Tasks -> Seq(1..MaxRows)]
<1> QED BY DEF TypeOK, TaskTypeOK, CompletionTypeOK, WaiterTypeOK, CallTypeOK

\* ... and after a step.
LEMMA TypeGroupsNext ==
    ASSUME PublisherTypeOK', TaskTypeOK', CompletionTypeOK', WaiterTypeOK',
           CallTypeOK', (view \in [Tasks -> Seq(1..MaxRows)])'
    PROVE  TypeOK'
<1> QED BY DEF TypeOK, TaskTypeOK, CompletionTypeOK, WaiterTypeOK, CallTypeOK

\* What a completion answers is an error, and answering keeps the waiters' types.
LEMMA AnswerType ==
    ASSUME WaiterTypeOK, NEW w \in Waiters, NEW e \in Errors
    PROVE  Answer(w, e) \in Seq(Errors \cup {"nostream"})
<1> DEFINE S == Errors \cup {"nostream"}
           said == IF told[w] # <<>> THEN <<>>
                   ELSE IF e = "nil" /\ w \in canceled THEN <<"canceled">> ELSE <<e>>
<1>1. told[w] \in Seq(S) BY DEF WaiterTypeOK
<1>2. <<>> \in Seq(S) /\ <<"canceled">> \in Seq(S) /\ <<e>> \in Seq(S) BY DEF Errors
<1>3. said \in Seq(S) BY <1>2
<1> HIDE DEF said, S
<1>4. told[w] \o said \in Seq(S) BY <1>1, <1>3, ConcatProperties
<1> QED BY <1>4 DEF Answer, said, S

\* Settling keeps the waiters' types.
LEMMA SettleReadyType ==
    ASSUME WaiterTypeOK, CompletionTypeOK', NEW ts \in SUBSET Tasks, SettleReady(ts)
    PROVE  WaiterTypeOK'
<1> DEFINE verdict == [t \in {u \in ts : Ready(u)'} |-> Verdict(t)']
           settled == {w \in Waiters : waiting[w] \in DOMAIN verdict}
<1>1. \A t \in Tasks : Verdict(t)' \in Errors BY DEF Verdict, CompletionTypeOK
<1>2. \A w \in settled : verdict[waiting[w]] \in Errors BY <1>1
<1>3. told' = [w \in Waiters |-> IF w \in settled
                                   THEN Answer(w, verdict[waiting[w]]) ELSE told[w]]
  BY DEF SettleReady
<1>4. told' \in [Waiters -> Seq(Errors \cup {"nostream"})] BY <1>2, <1>3, AnswerType DEF WaiterTypeOK
<1>5. waiting' \in [Waiters -> Tasks \cup {None}] /\ UNCHANGED <<asked, canceled>> BY DEF SettleReady, WaiterTypeOK
<1> QED BY <1>4, <1>5 DEF WaiterTypeOK
-----------------------------------------
(* The completion's operations, on their own: each keeps the types, never *)
(* takes a verdict of success back and makes no other completion ready. *)

\* What the waiters of a completion may rely on.
Stable(ts) ==
    /\ CompletionTypeOK'
    /\ \A t \in Tasks : Clean(t) => Clean(t)'
    /\ \A t \in Tasks \ ts : Ready(t)' => Ready(t)

\* finish keeps the first terminal error.
LEMMA FinishStable ==
    ASSUME CompletionTypeOK, NEW t \in Tasks, NEW e \in Errors, FinishCompletion(t, e)
    PROVE  Stable({t})
<1>1. CompletionTypeOK' BY DEF CompletionTypeOK, FinishCompletion
<1>2. \A u \in Tasks : Clean(u) => Clean(u)' BY DEF CompletionTypeOK, FinishCompletion, Clean
<1>3. \A u \in Tasks \ {t} : Ready(u)' => Ready(u) BY DEF CompletionTypeOK, FinishCompletion, Ready, Verdict
<1> QED BY <1>1, <1>2, <1>3 DEF Stable

\* retire leaves a delivered result its verdict.
LEMMA RetireStable ==
    ASSUME CompletionTypeOK, NEW t \in Tasks, Retire(t)
    PROVE  Stable({t})
<1>1. CompletionTypeOK' BY DEF CompletionTypeOK, Retire, Errors
<1>2. \A u \in Tasks : Clean(u) => Clean(u)' BY DEF CompletionTypeOK, Retire, Clean
<1>3. \A u \in Tasks \ {t} : Ready(u)' => Ready(u) BY DEF CompletionTypeOK, Retire, Ready, Verdict
<1> QED BY <1>1, <1>2, <1>3 DEF Stable

\* An acknowledgment is of something outstanding.
LEMMA DeliveredStable ==
    ASSUME CompletionTypeOK, NEW t \in Tasks, NEW e \in Errors, pending[t] > 0,
           Delivered(t, e)
    PROVE  Stable({t})
<1>1. CompletionTypeOK' BY DEF CompletionTypeOK, Delivered
<1>2. \A u \in Tasks : Clean(u) => Clean(u)' BY DEF CompletionTypeOK, Delivered, Clean
<1>3. \A u \in Tasks \ {t} : Ready(u)' => Ready(u) BY DEF CompletionTypeOK, Delivered, Ready, Verdict
<1> QED BY <1>1, <1>2, <1>3 DEF Stable

\* The waiters a completion settles are told what it says.
LEMMA SettleReadyWaiters ==
    ASSUME WaiterTypeOK, WaiterInv, NEW ts \in SUBSET Tasks, SettleReady(ts), Stable(ts)
    PROVE  WaiterTypeOK' /\ WaiterInv'
<1> DEFINE verdict == [t \in {u \in ts : Ready(u)'} |-> Verdict(t)']
           settled == {w \in Waiters : waiting[w] \in DOMAIN verdict}
<1>1. WaiterTypeOK' BY SettleReadyType DEF Stable
<1>2. /\ told' = [w \in Waiters |-> IF w \in settled
                                      THEN Answer(w, verdict[waiting[w]]) ELSE told[w]]
      /\ waiting' = [w \in Waiters |-> IF w \in settled THEN None ELSE waiting[w]]
      /\ UNCHANGED <<asked, canceled>>
  BY DEF SettleReady
<1>3. ASSUME NEW w \in Waiters
      PROVE  WaiterOK(w)'
  <2>0. WaiterOK(w) BY DEF WaiterInv
  <2>1. CASE w \in settled
    <3>1. PICK t \in ts : waiting[w] = t /\ Ready(t)' BY <2>1
    <3>2. t \in Tasks /\ waiting[w] # None BY <3>1, PublisherAssumption
    <3>3. asked[w] = t /\ told[w] = <<>> BY <2>0, <3>1, <3>2 DEF WaiterOK
    <3>4. verdict[waiting[w]] = Verdict(t)' BY <3>1
    <3>5. told'[w] = Answer(w, Verdict(t)') BY <1>2, <2>1, <3>4
    <3>6. told'[w] = <<"canceled">> \/ told'[w] = <<Verdict(t)'>> BY <3>3, <3>5 DEF Answer
    <3>7. Verdict(t)' = "nil" => Clean(t)' BY <3>1 DEF Ready, Clean, Verdict
    <3>8. waiting'[w] = None /\ asked'[w] = t BY <1>2, <2>1, <3>3
    <3>9. Len(told'[w]) <= 1 /\ (told'[w] = <<"nil">> => Verdict(t)' = "nil")
      <4>1. CASE told'[w] = <<"canceled">> BY <4>1
      <4>2. CASE told'[w] = <<Verdict(t)'>> BY <4>2
      <4> QED BY <3>6, <4>1, <4>2
    <3> QED BY <3>2, <3>7, <3>8, <3>9, PublisherAssumption DEF WaiterOK
  <2>2. CASE w \notin settled
    <3>1. told'[w] = told[w] /\ waiting'[w] = waiting[w] /\ asked'[w] = asked[w] BY <1>2, <2>2
    <3>2. ASSUME NEW t \in Tasks, waiting[w] = t
          PROVE  asked[w] = t /\ told[w] = <<>> /\ ~Ready(t)'
      <4>1. asked[w] = t /\ told[w] = <<>> /\ ~Ready(t) BY <2>0, <3>2 DEF WaiterOK
      <4>2. t \in ts => ~Ready(t)' BY <2>2, <3>2
      <4> QED BY <4>1, <4>2 DEF Stable
    <3>3. told[w] = <<"nil">> => \E t \in Tasks : asked[w] = t /\ Clean(t)' BY <2>0 DEF WaiterOK, Stable
    <3> QED BY <2>0, <3>1, <3>2, <3>3 DEF WaiterOK
  <2> QED BY <2>1, <2>2
<1>4. WaiterInv' BY <1>3 DEF WaiterInv
<1> QED BY <1>1, <1>4

\* Steps that touch no completion change no verdict.
LEMMA WaiterFrame ==
    ASSUME UNCHANGED <<completionVars, waiterVars>>
    PROVE  /\ CompletionTypeOK => CompletionTypeOK'
           /\ WaiterTypeOK => WaiterTypeOK'
           /\ WaiterInv => WaiterInv'
<1> USE DEF completionVars, waiterVars
<1>1. CompletionTypeOK => CompletionTypeOK' BY DEF CompletionTypeOK
<1>2. WaiterTypeOK => WaiterTypeOK' BY DEF WaiterTypeOK
<1>3. WaiterInv => WaiterInv' BY DEF WaiterInv, WaiterOK, Ready, Verdict, Clean
<1> QED BY <1>1, <1>2, <1>3
-----------------------------------------
(* Rows on their way to the grid. *)

RowsTypeOK ==
    /\ PublisherTypeOK
    /\ view \in [Tasks -> Seq(1..MaxRows)]
    /\ got \in [Tasks -> 0..MaxRows]
    /\ batch \in [Tasks -> 0..MaxRows]
    /\ CompletionTypeOK
    /\ \A t \in Tasks : batch[t] <= got[t]

\* The types RowsInv needs follow from TypeOK and BatchInv.
LEMMA RowsTyped == TypeOK /\ BatchInv => RowsTypeOK
<1> QED BY TypeGroups DEF RowsTypeOK, TaskTypeOK, BatchInv

\* What the types say of queue, publications and grid.
LEMMA RowsFacts ==
    ASSUME RowsTypeOK
    PROVE  /\ queue \in Seq(Publication) /\ Len(queue) \in Nat
           /\ \A i \in 1..Len(queue) : queue[i] \in Publication
           /\ \A p \in Publication : p.task \in Tasks /\ p.from \in Nat /\ p.upto \in Nat
           /\ running # None => running \in Publication
           /\ accepted \subseteq Publication
           /\ \A t \in Tasks : Len(view[t]) \in Nat /\ Sent(t) \in Nat /\ Base(t) \in Nat
<1>1. queue \in Seq(Publication) /\ Len(queue) \in Nat BY DEF RowsTypeOK, PublisherTypeOK
<1>2. \A i \in 1..Len(queue) : queue[i] \in Publication BY <1>1, ElementOfSeq
<1>3. \A p \in Publication : p.task \in Tasks /\ p.from \in Nat /\ p.upto \in Nat BY DEF Publication
<1>4. (running # None => running \in Publication) /\ accepted \subseteq Publication BY DEF RowsTypeOK, PublisherTypeOK
<1>5. \A t \in Tasks : Len(view[t]) \in Nat /\ Sent(t) \in Nat BY LenProperties DEF RowsTypeOK, Sent
<1>6. \A t \in Tasks : Base(t) \in Nat BY <1>3, <1>4, <1>5 DEF Base
<1> QED BY <1>1, <1>2, <1>3, <1>4, <1>5, <1>6

\* Steps outside the publisher may retire completions and move rows from the
\* stream to the batch.
LEMMA RowsFrame ==
    ASSUME RowsTypeOK, RowsInv, UNCHANGED <<publisherVars, view, deliveryErr>>,
           \A t \in Tasks : Sent(t)' = Sent(t), retired \subseteq retired'
    PROVE  RowsInv'
<1> USE DEF publisherVars
<1>1. PublisherInv'
  <2>1. \A q \in Publication : Sent(q.task)' = Sent(q.task) BY RowsFacts
  <2>2. (\A q \in accepted : q.from <= q.upto /\ q.upto <= Sent(q.task))' BY <2>1, RowsFacts DEF RowsInv, PublisherInv
  <2>3. (\A i \in 1..Len(queue) :
            queue[i].from <= queue[i].upto /\ queue[i].upto <= Sent(queue[i].task))'
    BY <2>1, RowsFacts DEF RowsInv, PublisherInv
  <2>4. (running # None => /\ running.from = Len(view[running.task]) + 1
                           /\ running.from <= running.upto
                           /\ running.upto <= Sent(running.task))'
    BY <2>1, RowsFacts DEF RowsInv, PublisherInv
  <2> QED BY <2>2, <2>3, <2>4 DEF RowsInv, PublisherInv
<1>2. \A t \in Tasks : Whole(t)' => Whole(t) BY DEF Whole
<1>3. \A t \in Tasks : Base(t)' = Base(t) BY DEF Base
<1>4. ChainInv' BY <1>2, <1>3 DEF RowsInv, ChainInv
<1>5. ViewInv' BY DEF RowsInv, ViewInv
<1> QED BY <1>1, <1>4, <1>5 DEF RowsInv

\* A completion with nothing outstanding and nothing dropped has shown all that
\* was sent.
LEMMA NothingOutstanding ==
    ASSUME RowsTypeOK, RowsInv, PendingIsExact, NEW t \in Tasks, Whole(t), pending[t] = 0
    PROVE  Len(view[t]) = Sent(t)
<1> DEFINE mine == {p \in accepted : p.task = t}
<1>1. IsFiniteSet(mine) BY FS_Subset DEF RowsInv, PublisherInv
<1>2. mine = {} BY <1>1, FS_EmptySet DEF PendingIsExact
<1>3. \A i \in 1..Len(queue) : queue[i].task # t BY <1>2 DEF RowsInv, ChainInv
<1>4. Base(t) = Len(view[t]) BY <1>2 DEF RowsInv, ChainInv, Base
<1>5. ~ \E r \in (Base(t) + 1)..Sent(t) : TRUE BY <1>3 DEF RowsInv, ChainInv
<1>6. Len(view[t]) \in Nat /\ Sent(t) \in Int BY LenProperties DEF RowsTypeOK, Sent
<1>7. Len(view[t]) <= Sent(t) BY DEF RowsInv, ViewInv
<1>8. Sent(t) <= Len(view[t])
  <2>1. SUFFICES ASSUME Sent(t) > Len(view[t]) PROVE FALSE BY <1>6
  <2>2. Sent(t) \in (Base(t) + 1)..Sent(t) BY <1>4, <1>6, <2>1
  <2> QED BY <1>5, <2>2
<1> QED BY <1>6, <1>7, <1>8

\* The head of the queue of a completion that dropped nothing is what the grid
\* shows next.
LEMMA HeadIsNext ==
    ASSUME RowsTypeOK, RowsInv, queue # <<>>, running = None, Whole(Head(queue).task)
    PROVE  Head(queue).from = Len(view[Head(queue).task]) + 1
<1> DEFINE p == Head(queue)
           t == p.task
<1>0. queue \in Seq(Publication) /\ Len(queue) \in Nat /\ Len(queue) > 0 BY EmptySeq DEF RowsTypeOK, PublisherTypeOK
<1>1. p = queue[1] /\ p \in Publication /\ 1 \in 1..Len(queue) BY <1>0
<1>2. t \in Tasks /\ p.from \in 1..MaxRows /\ p.upto \in 1..MaxRows BY <1>1 DEF Publication
<1>3. \A i \in 1..Len(queue) : queue[i].from \in Int /\ queue[i].upto \in Int BY RowsFacts
<1>4. Base(t) = Len(view[t]) /\ Base(t) \in Nat BY <1>2, LenProperties DEF Base, RowsTypeOK
<1>5. Base(t) < p.from /\ p.from <= p.upto /\ p.upto <= Sent(t) BY <1>1, <1>2 DEF RowsInv, ChainInv, PublisherInv
<1>6. Sent(t) \in Int BY <1>2 DEF Sent, RowsTypeOK
<1>7. Base(t) + 1 \in (Base(t) + 1)..Sent(t) BY <1>2, <1>4, <1>5, <1>6
<1>8. PICK i \in 1..Len(queue) : queue[i].task = t /\ queue[i].from <= Base(t) + 1
                                 /\ Base(t) + 1 <= queue[i].upto
  BY <1>2, <1>7 DEF RowsInv, ChainInv
<1>9. i = 1
  <2>1. SUFFICES ASSUME i # 1 PROVE FALSE OBVIOUS
  <2>2. 1 < i BY <1>0, <2>1
  <2>3. p.upto < queue[i].from BY <1>1, <1>8, <2>2 DEF RowsInv, PublisherInv
  <2> QED BY <1>2, <1>3, <1>4, <1>5, <1>8, <2>3
<1>10. p.from <= Base(t) + 1 BY <1>1, <1>8, <1>9
<1> QED BY <1>2, <1>4, <1>5, <1>10
\* Counting the publications of one task.
Of(S, t) == {q \in S : q.task = t}

\* A publication that is new counts once, for its task ...
LEMMA CountAdd ==
    ASSUME NEW S, IsFiniteSet(S), NEW p, p \notin S, NEW t
    PROVE  Cardinality(Of(S \cup {p}, t))
             = IF p.task = t THEN Cardinality(Of(S, t)) + 1 ELSE Cardinality(Of(S, t))
<1>1. IsFiniteSet(Of(S, t)) /\ p \notin Of(S, t) BY FS_Subset DEF Of
<1>2. CASE p.task = t
  <2>1. Of(S \cup {p}, t) = Of(S, t) \cup {p} BY <1>2 DEF Of
  <2> QED BY <1>1, <1>2, <2>1, FS_AddElement
<1>3. CASE p.task # t
  <2>1. Of(S \cup {p}, t) = Of(S, t) BY <1>3 DEF Of
  <2> QED BY <1>3, <2>1
<1> QED BY <1>2, <1>3

\* ... and settling it takes that back.
LEMMA CountRemove ==
    ASSUME NEW S, IsFiniteSet(S), NEW p \in S, NEW t
    PROVE  /\ Cardinality(Of(S, t)) \in Nat
           /\ Cardinality(Of(S \ {p}, t))
                = IF p.task = t THEN Cardinality(Of(S, t)) - 1 ELSE Cardinality(Of(S, t))
           /\ p.task = t => Cardinality(Of(S, t)) > 0
<1>1. IsFiniteSet(Of(S, t)) BY FS_Subset DEF Of
<1>2. Cardinality(Of(S, t)) \in Nat BY <1>1, FS_CardinalityType
<1>3. CASE p.task = t
  <2>1. Of(S \ {p}, t) = Of(S, t) \ {p} /\ p \in Of(S, t) BY <1>3 DEF Of
  <2>2. Of(S, t) # {} BY <2>1
  <2>3. Cardinality(Of(S, t)) # 0 BY <1>1, <2>2, FS_EmptySet
  <2>4. Cardinality(Of(S \ {p}, t)) = Cardinality(Of(S, t)) - 1 BY <1>1, <2>1, FS_RemoveElement
  <2> QED BY <1>2, <1>3, <2>3, <2>4
<1>4. CASE p.task # t
  <2>1. Of(S \ {p}, t) = Of(S, t) BY <1>4 DEF Of
  <2> QED BY <1>2, <1>4, <2>1
<1> QED BY <1>3, <1>4

\* PendingIsExact in terms of Of, now ...
LEMMA PendingCounts == PendingIsExact <=> \A t \in Tasks : pending[t] = Cardinality(Of(accepted, t))
<1> QED BY DEF PendingIsExact, Of

\* ... and after a step.
LEMMA PendingCountsNext ==
    PendingIsExact' <=> \A t \in Tasks : pending'[t] = Cardinality(Of(accepted', t))
<1> QED BY DEF PendingIsExact, Of

\* dispatchRows of a non-empty batch: it joins the end of the queue, unless the
\* driver is going down, which fails the delivery.
LEMMA DispatchRows ==
    ASSUME RowsTypeOK, RowsInv, PendingIsExact, NEW t \in Tasks, Dispatch(t), batch[t] # 0
    PROVE  RowsInv' /\ PendingIsExact'
<1> DEFINE p == [task |-> t, from |-> got[t] - batch[t] + 1, upto |-> got[t]]
<1>1. /\ Publish(p) /\ UNCHANGED <<got, view, retired>>
      /\ batch' = [batch EXCEPT ![t] = 0]
      /\ pending' = [pending EXCEPT ![t] = IF retiring THEN @ ELSE @ + 1]
      /\ deliveryErr' = IF retiring /\ deliveryErr[t] = "nil"
                          THEN [deliveryErr EXCEPT ![t] = "canceled"] ELSE deliveryErr
  BY DEF Dispatch
<1>2. got[t] \in 0..MaxRows /\ batch[t] \in 1..MaxRows /\ batch[t] <= got[t] /\ MaxRows \in Nat
  BY PublisherAssumption DEF RowsTypeOK
<1>3. p \in Publication /\ p.from = Sent(t) + 1 /\ p.upto = got[t] /\ p.task = t
      /\ p.from <= p.upto
  BY <1>2 DEF Publication, Sent
<1>4. Sent(t)' = got[t] /\ Sent(t) < got[t] /\ \A u \in Tasks \ {t} : Sent(u)' = Sent(u)
  BY <1>1, <1>2 DEF Sent, RowsTypeOK
<1>5. \A u \in Tasks : Sent(u)' \in Nat /\ Sent(u) <= Sent(u)' /\ Base(u)' = Base(u)
  BY <1>1, <1>2, <1>4, RowsFacts DEF Base, Publish
<1>6. p \notin accepted BY <1>3, <1>4, <1>2, RowsFacts DEF RowsInv, PublisherInv
<1> HIDE DEF p
<1>7. ViewInv' BY <1>1, <1>5, RowsFacts DEF RowsInv, ViewInv
<1>8. CASE retiring
  <2>1. UNCHANGED <<queue, accepted, running, retiring, pending>>
    BY <1>1, <1>8 DEF Publish, RowsTypeOK, CompletionTypeOK
  <2>2. PendingIsExact' BY <2>1 DEF PendingIsExact
  <2>3. queue = <<>> /\ accepted = {} /\ running = None BY <1>8 DEF RowsInv, PublisherInv
  <2>4. PublisherInv' BY <1>8, <2>1, <2>3, FS_EmptySet DEF PublisherInv
  <2>5. ~Whole(t)' /\ \A u \in Tasks \ {t} : Whole(u)' => Whole(u) BY <1>1, <1>8 DEF Whole, RowsTypeOK, CompletionTypeOK
  <2>6. ChainInv' BY <1>4, <1>5, <1>8, <2>1, <2>3, <2>5 DEF RowsInv, ChainInv
  <2> QED BY <1>7, <2>2, <2>4, <2>6 DEF RowsInv
<1>9. CASE ~retiring
  <2>1. /\ queue' = Append(queue, p) /\ accepted' = accepted \cup {p}
        /\ UNCHANGED <<running, retiring, deliveryErr>>
        /\ pending' = [pending EXCEPT ![t] = @ + 1]
    BY <1>1, <1>9 DEF Publish
  <2>2. /\ Len(queue') = Len(queue) + 1 /\ queue'[Len(queue) + 1] = p
        /\ \A i \in 1..Len(queue) : queue'[i] = queue[i]
    BY <1>3, <2>1, RowsFacts
  <2>3. \A i \in 1..Len(queue') : i = Len(queue) + 1 \/ i \in 1..Len(queue) BY <2>2, RowsFacts
  <2>4. PendingIsExact'
    <3>1. \A u \in Tasks : Cardinality(Of(accepted', u))
             = IF t = u THEN Cardinality(Of(accepted, u)) + 1 ELSE Cardinality(Of(accepted, u))
      BY <1>3, <1>6, <2>1, CountAdd DEF RowsInv, PublisherInv
    <3> QED BY <2>1, <3>1, PendingCounts, PendingCountsNext DEF RowsTypeOK, CompletionTypeOK
  <2>5. PublisherInv'
    <3>1. IsFiniteSet(accepted') BY <2>1, FS_AddElement DEF RowsInv, PublisherInv
    <3>2. \A q \in accepted' : q.from <= q.upto /\ q.upto <= Sent(q.task)'
      BY <1>3, <1>4, <1>5, <2>1, RowsFacts DEF RowsInv, PublisherInv
    <3>3. (\A i \in 1..Len(queue) : queue[i].from <= queue[i].upto
                                    /\ queue[i].upto <= Sent(queue[i].task))'
      <4>1. SUFFICES ASSUME NEW i \in 1..Len(queue')
                     PROVE  (queue[i].from <= queue[i].upto
                             /\ queue[i].upto <= Sent(queue[i].task))'
        OBVIOUS
      <4>2. CASE i \in 1..Len(queue)
        <5>1. PICK u \in Tasks : queue[i].task = u BY <4>2, RowsFacts
        <5>2. queue'[i] = queue[i] /\ Sent(u) <= Sent(u)' /\ queue[i].upto <= Sent(u)
              /\ queue[i].from <= queue[i].upto
          BY <1>5, <2>2, <4>2, <5>1 DEF RowsInv, PublisherInv
        <5>3. Sent(queue[i].task)' = Sent(u)' BY <5>1, <5>2 DEF Sent
        <5> QED BY <1>5, <4>2, <5>1, <5>2, <5>3, RowsFacts
      <4>3. CASE i = Len(queue) + 1
        <5>1. Sent(queue[i].task)' = Sent(t)' BY <1>3, <2>2, <4>3 DEF Sent
        <5> QED BY <1>2, <1>3, <1>4, <2>2, <4>3, <5>1
      <4> QED BY <2>3, <4>2, <4>3
    <3>4. (\A i, j \in 1..Len(queue) :
             i < j /\ queue[i].task = queue[j].task => queue[i].upto < queue[j].from)'
      <4>1. SUFFICES ASSUME NEW i \in 1..Len(queue'), NEW j \in 1..Len(queue'), i < j,
                            queue'[i].task = queue'[j].task
                     PROVE  queue'[i].upto < queue'[j].from
        OBVIOUS
      <4>2. i \in 1..Len(queue) /\ queue'[i] = queue[i] /\ queue[i].upto <= Sent(queue[i].task)
        BY <2>2, <4>1, RowsFacts DEF RowsInv, PublisherInv
      <4>3. CASE j \in 1..Len(queue) BY <2>2, <4>1, <4>2, <4>3 DEF RowsInv, PublisherInv
      <4>4. CASE j = Len(queue) + 1 BY <1>3, <2>2, <4>1, <4>2, <4>4, RowsFacts
      <4> QED BY <2>3, <4>3, <4>4
    <3>5. (running # None => /\ running.from = Len(view[running.task]) + 1
                             /\ running.from <= running.upto
                             /\ running.upto <= Sent(running.task))'
      <4>1. SUFFICES ASSUME running # None
                     PROVE  /\ running.from = Len(view[running.task]) + 1
                            /\ running.from <= running.upto
                            /\ running.upto <= Sent(running.task)'
        BY <1>1, <2>1 DEF Sent
      <4>2. PICK u \in Tasks : running.task = u BY <4>1, RowsFacts
      <4>3. Sent(running.task)' = Sent(u)' /\ Sent(u) <= Sent(u)' /\ running.upto <= Sent(u)
        BY <1>5, <2>1, <4>1, <4>2 DEF Sent, RowsInv, PublisherInv
      <4> QED BY <1>5, <4>1, <4>2, <4>3, RowsFacts DEF RowsInv, PublisherInv
    <3>6. (\A q \in accepted : q.from <= q.upto /\ q.upto <= Sent(q.task))' BY <3>2
    <3> QED BY <1>9, <2>1, <3>1, <3>3, <3>4, <3>5, <3>6 DEF PublisherInv
  <2>6. ASSUME NEW u \in Tasks, Whole(u)'
        PROVE  /\ \A i \in 1..Len(queue') : queue'[i].task = u
                      => queue'[i] \in accepted' /\ Base(u)' < queue'[i].from
               /\ \A r \in (Base(u)' + 1)..Sent(u)' : \E i \in 1..Len(queue') :
                      queue'[i].task = u /\ queue'[i].from <= r /\ r <= queue'[i].upto
               /\ running' # None /\ running'.task = u => running' \in accepted'
    <3>1. Whole(u) BY <1>1, <2>1, <2>6 DEF Whole
    <3>2. Base(u) <= Sent(u) BY RowsFacts DEF Base, RowsInv, PublisherInv, ViewInv
    <3>3. \A i \in 1..Len(queue') : queue'[i].task = u
                => queue'[i] \in accepted' /\ Base(u)' < queue'[i].from
      BY <1>3, <1>5, <2>1, <2>2, <2>3, <3>1, <3>2, RowsFacts DEF RowsInv, ChainInv
    <3>4. ASSUME NEW r \in (Base(u)' + 1)..Sent(u)'
          PROVE  \E i \in 1..Len(queue') :
                    queue'[i].task = u /\ queue'[i].from <= r /\ r <= queue'[i].upto
      <4>1. CASE r \in (Base(u) + 1)..Sent(u)
        <5>1. PICK i \in 1..Len(queue) :
                 queue[i].task = u /\ queue[i].from <= r /\ r <= queue[i].upto
          BY <3>1, <4>1 DEF RowsInv, ChainInv
        <5> QED BY <2>2, <2>3, <5>1, RowsFacts
      <4>2. CASE r \notin (Base(u) + 1)..Sent(u)
        <5>1. u = t /\ Sent(t) < r /\ r <= got[t] BY <1>2, <1>4, <1>5, <3>4, <4>2, RowsFacts
        <5>2. p.from <= r /\ r <= p.upto /\ p.task = u BY <1>3, <5>1, <3>4, RowsFacts
        <5> QED BY <2>2, <5>2, RowsFacts
      <4> QED BY <4>1, <4>2
    <3> QED BY <2>1, <3>1, <3>3, <3>4 DEF RowsInv, ChainInv
  <2>7. ChainInv' BY <1>1, <2>1, <2>6 DEF RowsInv, ChainInv
  <2> QED BY <1>7, <2>4, <2>5, <2>7 DEF RowsInv
<1> QED BY <1>8, <1>9
\* Something unsettled is counted, and settling it counts it off.
LEMMA SettleCount ==
    ASSUME RowsTypeOK, PublisherInv, PendingIsExact, NEW p \in accepted
    PROVE  /\ p.task \in Tasks /\ pending[p.task] > 0
           /\ (Settle(p) /\ pending' = [pending EXCEPT ![p.task] = @ - 1]) => PendingIsExact'
           /\ Settle(p) => IsFiniteSet(accepted')
<1>1. p.task \in Tasks BY RowsFacts
<1>2. pending[p.task] > 0 BY <1>1, CountRemove, PendingCounts DEF PublisherInv
<1>3. ASSUME Settle(p), pending' = [pending EXCEPT ![p.task] = @ - 1] PROVE PendingIsExact'
  <2>1. \A u \in Tasks : Cardinality(Of(accepted', u))
           = IF p.task = u THEN Cardinality(Of(accepted, u)) - 1 ELSE Cardinality(Of(accepted, u))
    BY <1>3, CountRemove DEF Settle, PublisherInv
  <2> QED BY <1>1, <1>3, <2>1, PendingCounts, PendingCountsNext DEF RowsTypeOK, CompletionTypeOK
<1>4. Settle(p) => IsFiniteSet(accepted') BY FS_RemoveElement DEF Settle, PublisherInv
<1> QED BY <1>1, <1>2, <1>3, <1>4

\* A publication that is settled without running belongs to a retired completion:
\* what is still whole keeps its rows.
LEMMA CancelRows ==
    ASSUME RowsTypeOK, RowsInv, PendingIsExact, NEW p, p \in accepted, UICancel(p)
    PROVE  RowsInv' /\ PendingIsExact'
<1>1. /\ p.task \in retired /\ Settle(p)
      /\ UNCHANGED <<queue, running, retiring, view, got, batch, retired>>
      /\ pending' = [pending EXCEPT ![p.task] = @ - 1]
      /\ deliveryErr' = IF deliveryErr[p.task] = "nil"
                          THEN [deliveryErr EXCEPT ![p.task] = "canceled"] ELSE deliveryErr
  BY DEF UICancel, Delivered, BufferUnchanged, taskVars
<1>2. PendingIsExact' /\ IsFiniteSet(accepted') /\ p.task \in Tasks BY <1>1, SettleCount DEF RowsInv
<1>3. accepted' = accepted \ {p} BY <1>1 DEF Settle
<1>4. \A u \in Tasks : /\ Whole(u)' => Whole(u) /\ u # p.task
                       /\ u \notin retired => deliveryErr'[u] = deliveryErr[u]
                       /\ Base(u)' = Base(u) /\ Sent(u)' = Sent(u)
  BY <1>1, <1>2 DEF Whole, Base, Sent, RowsTypeOK, CompletionTypeOK
<1>5. \A q \in accepted : Sent(q.task)' = Sent(q.task) BY <1>4, RowsFacts
<1>6. \A i \in 1..Len(queue) : Sent(queue[i].task)' = Sent(queue[i].task) BY <1>1 DEF Sent
<1>7. PublisherInv'
  <2>1. (\A q \in accepted : q.from <= q.upto /\ q.upto <= Sent(q.task))' BY <1>3, <1>5 DEF RowsInv, PublisherInv
  <2>2. (\A i \in 1..Len(queue) : queue[i].from <= queue[i].upto
                                  /\ queue[i].upto <= Sent(queue[i].task))'
    BY <1>1, <1>6 DEF RowsInv, PublisherInv
  <2>3. (running # None => running.upto <= Sent(running.task))' BY <1>1 DEF RowsInv, PublisherInv, Sent
  <2> QED BY <1>1, <1>2, <1>3, <2>1, <2>2, <2>3 DEF RowsInv, PublisherInv
<1>8. ChainInv' BY <1>1, <1>3, <1>4 DEF RowsInv, ChainInv
<1>9. ViewInv' BY <1>1, <1>4 DEF RowsInv, ViewInv
<1> QED BY <1>2, <1>7, <1>8, <1>9 DEF RowsInv

\* The queue after its head is taken.
LEMMA TailFacts ==
    ASSUME RowsTypeOK, queue # <<>>, queue' = Tail(queue)
    PROVE  /\ Head(queue) = queue[1] /\ Head(queue) \in Publication /\ 1 \in 1..Len(queue)
           /\ Len(queue') = Len(queue) - 1
           /\ \A i \in 1..Len(queue') : i + 1 \in 1..Len(queue) /\ queue'[i] = queue[i + 1]
           /\ \A i \in 1..Len(queue) : i # 1 => i - 1 \in 1..Len(queue') /\ queue'[i - 1] = queue[i]
<1>1. queue \in Seq(Publication) /\ Len(queue) \in Nat /\ Len(queue) > 0 BY EmptySeq, RowsFacts
<1>2. Head(queue) = queue[1] /\ Head(queue) \in Publication /\ 1 \in 1..Len(queue) BY <1>1
<1>3. Len(queue') = Len(queue) - 1 /\ \A i \in 1..Len(queue') : queue'[i] = queue[i + 1] BY <1>1, HeadTailProperties
<1> QED BY <1>1, <1>2, <1>3

\* Taking the head keeps the order and the bounds of the rest.
LEMMA TailRows ==
    ASSUME RowsTypeOK, RowsInv, queue # <<>>, queue' = Tail(queue), UNCHANGED <<got, batch>>
    PROVE  /\ (\A i \in 1..Len(queue) : queue[i].from <= queue[i].upto
                                        /\ queue[i].upto <= Sent(queue[i].task))'
           /\ (\A i, j \in 1..Len(queue) :
                 i < j /\ queue[i].task = queue[j].task => queue[i].upto < queue[j].from)'
<1>1. \A i \in 1..Len(queue') : i + 1 \in 1..Len(queue) /\ queue'[i] = queue[i + 1] BY TailFacts
<1>2. ASSUME NEW i \in 1..Len(queue')
      PROVE  (queue[i].from <= queue[i].upto /\ queue[i].upto <= Sent(queue[i].task))'
  BY <1>1 DEF RowsInv, PublisherInv, Sent
<1>3. ASSUME NEW i \in 1..Len(queue'), NEW j \in 1..Len(queue'), i < j,
             queue'[i].task = queue'[j].task
      PROVE  queue'[i].upto < queue'[j].from
  BY <1>1, <1>3 DEF RowsInv, PublisherInv
<1> QED BY <1>2, <1>3
\* The main loop reaches the head of the queue and runs it ...
LEMMA BeginRunRows ==
    ASSUME RowsTypeOK, RowsInv, PendingIsExact, UIBegin, Head(queue).task \notin retired
    PROVE  RowsInv' /\ PendingIsExact' /\ UNCHANGED <<completionVars, waiterVars>>
<1> DEFINE p == Head(queue)
<1>1. queue # <<>> /\ ~retiring /\ running = None BY DEF UIBegin, Dequeue, RowsInv, PublisherInv
<1>2. /\ queue' = Tail(queue) /\ running' = p
      /\ UNCHANGED <<accepted, retiring, view, got, batch, completionVars, waiterVars>>
  BY <1>1 DEF UIBegin, Dequeue, BufferUnchanged, taskVars
<1>3. p = queue[1] /\ p \in Publication /\ 1 \in 1..Len(queue) BY <1>1, <1>2, TailFacts
<1>4. PICK t \in Tasks : p.task = t BY <1>3, RowsFacts
<1>5. Whole(t) BY <1>1, <1>4 DEF Whole, RowsInv, ChainInv
<1>6. p.from = Len(view[t]) + 1 /\ p.from <= p.upto /\ p.upto <= Sent(t) /\ p \in accepted
  BY <1>1, <1>3, <1>4, <1>5, HeadIsNext DEF RowsInv, PublisherInv, ChainInv
<1>7. p.from \in Nat /\ p.upto \in Nat /\ p # None BY <1>3, RowsFacts, PublisherAssumption
<1>8. \A u \in Tasks : /\ Whole(u)' = Whole(u) /\ Sent(u)' = Sent(u)
                       /\ Base(u) = Len(view[u])
                       /\ Base(u)' = IF u = t THEN p.upto ELSE Len(view[u])
  BY <1>1, <1>2, <1>4, <1>7 DEF Whole, Sent, Base, completionVars
<1> HIDE DEF p
<1>9. PublisherInv'
  <2>1. (\A q \in accepted : q.from <= q.upto /\ q.upto <= Sent(q.task))' BY <1>2 DEF RowsInv, PublisherInv, Sent
  <2>2. (running # None => /\ running.from = Len(view[running.task]) + 1
                           /\ running.from <= running.upto
                           /\ running.upto <= Sent(running.task))'
    BY <1>2, <1>4, <1>6 DEF Sent
  <2> QED BY <1>1, <1>2, <2>1, <2>2, TailRows DEF RowsInv, PublisherInv
<1>10. ASSUME NEW u \in Tasks, Whole(u)
       PROVE  /\ \A i \in 1..Len(queue') : queue'[i].task = u
                     => queue'[i] \in accepted /\ Base(u)' < queue'[i].from
              /\ \A r \in (Base(u)' + 1)..Sent(u) : \E i \in 1..Len(queue') :
                     queue'[i].task = u /\ queue'[i].from <= r /\ r <= queue'[i].upto
              /\ p.task = u => p \in accepted
  <2>1. ASSUME NEW i \in 1..Len(queue'), queue'[i].task = u
        PROVE  queue'[i] \in accepted /\ Base(u)' < queue'[i].from
    <3>1. i + 1 \in 1..Len(queue) /\ queue'[i] = queue[i + 1] /\ 1 < i + 1 BY <1>1, <1>2, TailFacts
    <3>2. queue[i + 1] \in accepted /\ Base(u) < queue[i + 1].from BY <1>10, <2>1, <3>1 DEF RowsInv, ChainInv
    <3>3. u = t => p.upto < queue[i + 1].from BY <1>3, <1>4, <2>1, <3>1 DEF RowsInv, PublisherInv
    <3> QED BY <1>8, <3>1, <3>2, <3>3
  <2>2. ASSUME NEW r \in (Base(u)' + 1)..Sent(u)
        PROVE  \E i \in 1..Len(queue') :
                  queue'[i].task = u /\ queue'[i].from <= r /\ r <= queue'[i].upto
    <3>1. Base(u) <= Base(u)' /\ Base(u) \in Nat /\ Base(u)' \in Nat /\ Sent(u) \in Nat BY <1>6, <1>7, <1>8, RowsFacts
    <3>2. r \in (Base(u) + 1)..Sent(u) BY <3>1
    <3>3. PICK i \in 1..Len(queue) :
             queue[i].task = u /\ queue[i].from <= r /\ r <= queue[i].upto
      BY <1>10, <3>2 DEF RowsInv, ChainInv
    <3>4. i # 1 BY <1>3, <1>4, <1>7, <1>8, <2>2, <3>1, <3>3
    <3>5. i - 1 \in 1..Len(queue') /\ queue'[i - 1] = queue[i] BY <1>1, <1>2, <3>4, TailFacts
    <3> QED BY <3>3, <3>5
  <2> QED BY <1>6, <2>1, <2>2
<1>11. ChainInv' BY <1>2, <1>8, <1>10 DEF RowsInv, ChainInv, completionVars
<1>12. ViewInv' BY <1>2, <1>8 DEF RowsInv, ViewInv
<1>13. PendingIsExact' BY <1>2 DEF PendingIsExact, completionVars
<1> QED BY <1>2, <1>9, <1>11, <1>12, <1>13 DEF RowsInv

\* ... or settles it as canceled, if it has not been settled yet.
LEMMA BeginCancelRows ==
    ASSUME RowsTypeOK, RowsInv, PendingIsExact, UIBegin, Head(queue).task \in retired
    PROVE  /\ RowsInv' /\ PendingIsExact'
           /\ \/ UNCHANGED <<completionVars, waiterVars>>
              \/ \E t \in Tasks : t \in retired /\ pending[t] > 0 /\ Delivered(t, "canceled")
<1> DEFINE p == Head(queue)
<1>1. queue # <<>> /\ ~retiring /\ running = None BY DEF UIBegin, Dequeue, RowsInv, PublisherInv
<1>2. /\ queue' = Tail(queue) /\ Settle(p)
      /\ UNCHANGED <<running, retiring, view, got, batch>>
      /\ IF p \in accepted THEN Delivered(p.task, "canceled")
                           ELSE UNCHANGED <<completionVars, waiterVars>>
  BY <1>1 DEF UIBegin, Dequeue, BufferUnchanged, taskVars, Settle
<1>3. p = queue[1] /\ p \in Publication /\ 1 \in 1..Len(queue) BY <1>1, <1>2, TailFacts
<1>4. PICK t \in Tasks : p.task = t BY <1>3, RowsFacts
<1>5. accepted' = accepted \ {p} BY <1>2 DEF Settle
<1>6. IsFiniteSet(accepted') BY <1>5, FS_RemoveElement DEF RowsInv, PublisherInv
<1>7. PendingIsExact'
  <2>1. CASE p \in accepted BY <1>2, <2>1, SettleCount DEF RowsInv, Delivered
  <2>2. CASE p \notin accepted
    <3>1. accepted' = accepted /\ pending' = pending BY <1>2, <1>5, <2>2 DEF completionVars
    <3> QED BY <3>1 DEF PendingIsExact
  <2> QED BY <2>1, <2>2
<1>8. /\ UNCHANGED retired
      /\ deliveryErr' = deliveryErr \/ deliveryErr' = [deliveryErr EXCEPT ![t] = "canceled"]
  BY <1>2, <1>4 DEF Delivered, completionVars
<1>9. \A u \in Tasks : /\ Whole(u)' => Whole(u) /\ u # t
                       /\ u \notin retired => deliveryErr'[u] = deliveryErr[u]
                       /\ Base(u)' = Base(u) /\ Sent(u)' = Sent(u)
  BY <1>2, <1>4, <1>8 DEF Whole, Base, Sent, RowsTypeOK, CompletionTypeOK
<1> HIDE DEF p
<1>10. PublisherInv'
  <2>1. (\A q \in accepted : q.from <= q.upto /\ q.upto <= Sent(q.task))' BY <1>2, <1>5 DEF RowsInv, PublisherInv, Sent
  <2> QED BY <1>1, <1>2, <1>6, <2>1, TailRows DEF RowsInv, PublisherInv
<1>11. ASSUME NEW u \in Tasks, Whole(u)'
       PROVE  /\ \A i \in 1..Len(queue') : queue'[i].task = u
                     => queue'[i] \in accepted' /\ Base(u)' < queue'[i].from
              /\ \A r \in (Base(u)' + 1)..Sent(u)' : \E i \in 1..Len(queue') :
                     queue'[i].task = u /\ queue'[i].from <= r /\ r <= queue'[i].upto
  <2>0. Whole(u) /\ u # t BY <1>9, <1>11
  <2>1. ASSUME NEW i \in 1..Len(queue'), queue'[i].task = u
        PROVE  queue'[i] \in accepted' /\ Base(u)' < queue'[i].from
    <3>1. i + 1 \in 1..Len(queue) /\ queue'[i] = queue[i + 1] BY <1>1, <1>2, TailFacts
    <3>2. queue[i + 1] \in accepted /\ Base(u) < queue[i + 1].from BY <2>0, <2>1, <3>1 DEF RowsInv, ChainInv
    <3> QED BY <1>4, <1>5, <1>9, <2>0, <2>1, <3>1, <3>2
  <2>2. ASSUME NEW r \in (Base(u)' + 1)..Sent(u)'
        PROVE  \E i \in 1..Len(queue') :
                  queue'[i].task = u /\ queue'[i].from <= r /\ r <= queue'[i].upto
    <3>1. PICK i \in 1..Len(queue) :
             queue[i].task = u /\ queue[i].from <= r /\ r <= queue[i].upto
      BY <1>9, <2>0 DEF RowsInv, ChainInv
    <3>2. i # 1 BY <1>3, <1>4, <2>0, <3>1
    <3>3. i - 1 \in 1..Len(queue') /\ queue'[i - 1] = queue[i] BY <1>1, <1>2, <3>2, TailFacts
    <3> QED BY <3>1, <3>3
  <2> QED BY <2>1, <2>2
<1>12. ChainInv' BY <1>1, <1>2, <1>8, <1>9, <1>11 DEF RowsInv, ChainInv
<1>13. ViewInv' BY <1>2, <1>9 DEF RowsInv, ViewInv
<1>14. p \in accepted => pending[t] > 0 /\ t \in retired BY <1>4, SettleCount DEF RowsInv, p
<1> QED BY <1>2, <1>4, <1>7, <1>10, <1>12, <1>13, <1>14 DEF RowsInv
\* The rows the main loop appends are the ones the grid shows next.
LEMMA AppendRows ==
    ASSUME RowsTypeOK, RowsInv, PendingIsExact, UIAppend
    PROVE  /\ RowsInv' /\ PendingIsExact' /\ (view \in [Tasks -> Seq(1..MaxRows)])'
           /\ \/ UNCHANGED <<completionVars, waiterVars>>
              \/ \E t \in Tasks : pending[t] > 0 /\ Delivered(t, "nil")
<1>1. PICK t \in Tasks : running.task = t BY RowsFacts DEF UIAppend
<1> DEFINE n == running.upto - running.from + 1
           seg == [i \in 1..n |-> running.from + i - 1]
<1>2. /\ running # None /\ running \in Publication /\ ~retiring
      /\ running' = None /\ accepted' = accepted \ {running}
      /\ view' = [view EXCEPT ![t] = @ \o seg]
      /\ UNCHANGED <<queue, retiring, got, batch>>
      /\ IF running \in accepted THEN Delivered(t, "nil")
                                 ELSE UNCHANGED <<completionVars, waiterVars>>
  BY <1>1, RowsFacts
     DEF UIAppend, Return, Settle, BufferUnchanged, taskVars, RowsInv, PublisherInv
<1>3. /\ running.from = Len(view[t]) + 1 /\ running.from <= running.upto
      /\ running.upto <= Sent(t)
      /\ running.from \in 1..MaxRows /\ running.upto \in 1..MaxRows
  BY <1>1, <1>2 DEF RowsInv, PublisherInv, Publication
<1>4. n \in Nat /\ \A i \in 1..n : running.from + i - 1 \in 1..MaxRows BY <1>3, PublisherAssumption
<1>5. seg \in Seq(1..MaxRows) /\ Len(seg) = n
  <2>1. seg \in [1..n -> 1..MaxRows] BY <1>4
  <2> HIDE DEF seg, n
  <2>2. seg \in Seq(1..MaxRows) BY <1>4, <2>1, SeqDef
  <2>3. DOMAIN seg = 1..n /\ DOMAIN seg = 1..Len(seg) /\ Len(seg) \in Nat BY <2>1, <2>2, LenProperties
  <2> QED BY <1>4, <2>2, <2>3
<1>6. \A i \in 1..n : seg[i] = running.from + i - 1 OBVIOUS
<1>7. view[t] \in Seq(1..MaxRows) /\ Len(view[t]) \in Nat BY RowsFacts DEF RowsTypeOK
<1> HIDE DEF seg
<1>8. /\ view[t] \o seg \in Seq(1..MaxRows)
      /\ Len(view[t] \o seg) = Len(view[t]) + n
      /\ \A i \in 1..(Len(view[t]) + n) : (view[t] \o seg)[i] =
             IF i <= Len(view[t]) THEN view[t][i] ELSE seg[i - Len(view[t])]
  <2>1. /\ view[t] \o seg \in Seq(1..MaxRows)
        /\ Len(view[t] \o seg) = Len(view[t]) + Len(seg)
        /\ \A i \in 1..(Len(view[t]) + Len(seg)) : (view[t] \o seg)[i] =
               IF i <= Len(view[t]) THEN view[t][i] ELSE seg[i - Len(view[t])]
    BY <1>5, <1>7, ConcatProperties
  <2> HIDE DEF n
  <2> QED BY <1>5, <2>1
<1>9. view' \in [Tasks -> Seq(1..MaxRows)] /\ view'[t] = view[t] \o seg
      /\ \A u \in Tasks \ {t} : view'[u] = view[u]
  BY <1>2, <1>8 DEF RowsTypeOK
<1>10. Len(view'[t]) = running.upto BY <1>3, <1>7, <1>8, <1>9
<1>11. \A i \in 1..Len(view'[t]) : view'[t][i] = i
  <2>1. SUFFICES ASSUME NEW i \in 1..Len(view'[t]) PROVE view'[t][i] = i OBVIOUS
  <2>2. CASE i <= Len(view[t])
    <3>1. view[t][i] = i BY <1>7, <2>2 DEF RowsInv, ViewInv
    <3> QED BY <1>3, <1>7, <1>8, <1>9, <1>10, <2>2, <3>1
  <2>3. CASE i > Len(view[t])
    <3>1. i - Len(view[t]) \in 1..n BY <1>3, <1>7, <1>10, <2>3
    <3>2. seg[i - Len(view[t])] = running.from + (i - Len(view[t])) - 1 BY <1>6, <3>1
    <3>3. i \in 1..(Len(view[t]) + n) BY <1>3, <1>7, <1>10
    <3>4. view'[t][i] = seg[i - Len(view[t])] BY <1>7, <1>8, <1>9, <2>3, <3>3
    <3> QED BY <1>3, <1>7, <3>2, <3>4
  <2> QED BY <1>7, <2>2, <2>3
<1>12. \A u \in Tasks : /\ Sent(u)' = Sent(u) /\ Base(u)' = Base(u)
                        /\ Whole(u)' = Whole(u)
  <2>1. \A u \in Tasks : Sent(u)' = Sent(u) BY <1>2 DEF Sent
  <2>2. \A u \in Tasks : Base(u)' = Base(u) BY <1>1, <1>2, <1>9, <1>10 DEF Base
  <2>3. UNCHANGED <<retired, deliveryErr>> BY <1>2 DEF Delivered, completionVars
  <2> QED BY <2>1, <2>2, <2>3 DEF Whole
<1>13. UNCHANGED <<retired, deliveryErr>> BY <1>2 DEF Delivered, completionVars
<1>14. ViewInv' BY <1>3, <1>9, <1>10, <1>11, <1>12 DEF RowsInv, ViewInv
<1>15. PublisherInv'
  <2>1. IsFiniteSet(accepted') BY <1>2, FS_RemoveElement DEF RowsInv, PublisherInv
  <2>2. (\A q \in accepted : q.from <= q.upto /\ q.upto <= Sent(q.task))' BY <1>2 DEF RowsInv, PublisherInv, Sent
  <2>3. (\A i \in 1..Len(queue) : queue[i].from <= queue[i].upto
                                  /\ queue[i].upto <= Sent(queue[i].task))'
    BY <1>2 DEF RowsInv, PublisherInv, Sent
  <2> QED BY <1>2, <2>1, <2>2, <2>3 DEF RowsInv, PublisherInv
<1>16. ASSUME NEW u \in Tasks, Whole(u), NEW i \in 1..Len(queue), queue[i].task = u
       PROVE  queue[i] \in accepted'
  <2>1. queue[i] \in accepted /\ Base(u) < queue[i].from BY <1>16 DEF RowsInv, ChainInv
  <2>2. queue[i] # running BY <1>1, <1>2, <1>3, <1>16, <2>1, RowsFacts DEF Base
  <2> QED BY <1>2, <2>1, <2>2
<1>17. ChainInv' BY <1>2, <1>12, <1>13, <1>16 DEF RowsInv, ChainInv
<1>18. PendingIsExact'
  <2>1. CASE running \in accepted BY <1>1, <1>2, <2>1, SettleCount DEF RowsInv, Delivered, Settle
  <2>2. CASE running \notin accepted
    <3>1. accepted' = accepted /\ pending' = pending BY <1>2, <2>2 DEF completionVars
    <3> QED BY <3>1 DEF PendingIsExact
  <2> QED BY <2>1, <2>2
<1>19. running \in accepted => pending[t] > 0 BY <1>1, SettleCount DEF RowsInv
<1> QED BY <1>2, <1>9, <1>14, <1>15, <1>17, <1>18, <1>19 DEF RowsInv

\* The driver goes down: whoever loses a publication is told so, and whoever does
\* not had nothing left to lose.
LEMMA RetireRows ==
    ASSUME RowsTypeOK, RowsInv, PendingIsExact, UIRetire
    PROVE  RowsInv' /\ PendingIsExact' /\ Stable(Tasks)
<1>1. /\ running = None /\ ~retiring /\ retiring' = TRUE /\ accepted' = {} /\ queue' = <<>>
      /\ UNCHANGED <<running, view, got, batch, terminal, err, retired>>
      /\ pending' = [t \in Tasks |-> pending[t] - Cardinality(Of(accepted, t))]
      /\ deliveryErr' = [t \in Tasks |->
                           IF deliveryErr[t] = "nil" /\ \E p \in accepted : p.task = t
                             THEN "canceled" ELSE deliveryErr[t]]
  BY DEF UIRetire, RetireDriver, BufferUnchanged, taskVars, Of
<1>2. \A t \in Tasks : pending'[t] = 0 BY <1>1, PendingCounts DEF RowsTypeOK, CompletionTypeOK
<1>3. \A t : Of({}, t) = {} BY DEF Of
<1>4. PendingIsExact' BY <1>1, <1>2, <1>3, FS_EmptySet, PendingCountsNext
<1>5. \A u \in Tasks : Sent(u)' = Sent(u) /\ Base(u)' = Base(u) /\ Base(u) = Len(view[u]) BY <1>1 DEF Sent, Base
<1>6. ASSUME NEW u \in Tasks, Whole(u)'
      PROVE  Sent(u) <= Len(view[u])
  <2>1. Whole(u) /\ \A p \in accepted : p.task # u BY <1>1, <1>6 DEF Whole
  <2>2. \A i \in 1..Len(queue) : queue[i].task # u BY <2>1 DEF RowsInv, ChainInv
  <2>3. \A r \in (Base(u) + 1)..Sent(u) : FALSE BY <2>1, <2>2 DEF RowsInv, ChainInv
  <2>4. SUFFICES ASSUME Sent(u) > Len(view[u]) PROVE FALSE BY RowsFacts
  <2>5. Sent(u) \in (Base(u) + 1)..Sent(u) BY <1>5, <2>4, RowsFacts
  <2> QED BY <2>3, <2>5
<1>7. ChainInv'
  <2>1. \A t \in Tasks : \A r \in (Base(t)' + 1)..Sent(t)' : ~Whole(t)' BY <1>5, <1>6, RowsFacts
  <2> QED BY <1>1, <2>1 DEF ChainInv
<1>8. PublisherInv' BY <1>1, FS_EmptySet DEF PublisherInv
<1>9. ViewInv' BY <1>1, <1>5 DEF RowsInv, ViewInv
<1>10. CompletionTypeOK'
  <2>1. pending' \in [Tasks -> Nat] BY <1>1, <1>2
  <2> QED BY <1>1, <2>1 DEF RowsTypeOK, CompletionTypeOK, Errors
<1>11. ASSUME NEW t \in Tasks, Clean(t) PROVE Clean(t)'
  <2>1. Of(accepted, t) = {}
    <3>1. IsFiniteSet(Of(accepted, t)) BY FS_Subset DEF RowsInv, PublisherInv, Of
    <3> QED BY <1>11, <3>1, FS_EmptySet, PendingCounts DEF Clean
  <2>2. ~ \E p \in accepted : p.task = t BY <2>1 DEF Of
  <2> QED BY <1>1, <1>2, <1>11, <2>2 DEF Clean
<1>12. Stable(Tasks) BY <1>10, <1>11 DEF Stable
<1> QED BY <1>4, <1>7, <1>8, <1>9, <1>12 DEF RowsInv
-----------------------------------------
(* Core, for the kinds of step Next is made of. *)

\* RowsTyped, after a step.
LEMMA RowsTypedNext == TypeOK' /\ BatchInv' => RowsTypeOK'
<1> QED BY RowsTyped, PTL

\* For a completion nobody retired, ShownInv is a consequence.
LEMMA WholeIsShown ==
    RowsTypeOK /\ RowsInv /\ PendingIsExact /\ BatchInv /\ VerdictInv
      => \A t \in Tasks : Clean(t) /\ t \notin retired => Len(view[t]) = got[t]
<1> SUFFICES ASSUME RowsTypeOK, RowsInv, PendingIsExact, BatchInv, VerdictInv,
                    NEW t \in Tasks, Clean(t), t \notin retired
             PROVE  Len(view[t]) = got[t]
  OBVIOUS
<1>1. Len(view[t]) = Sent(t) BY NothingOutstanding DEF Clean, Whole
<1>2. batch[t] = 0 BY DEF VerdictInv, VerdictOK, Clean, BatchInv, Settled
<1> QED BY <1>1, <1>2 DEF Sent, RowsTypeOK

\* WholeIsShown, after a step.
LEMMA WholeIsShownNext ==
    (RowsTypeOK /\ RowsInv /\ PendingIsExact /\ BatchInv /\ VerdictInv)'
      => (\A t \in Tasks : Clean(t) /\ t \notin retired => Len(view[t]) = got[t])'
<1> QED BY WholeIsShown, PTL

\* A call that only moves itself.
LEMMA CoreFrame ==
    ASSUME TypeOK, Core,
           UNCHANGED <<taskVars, completionVars, waiterVars, stopped, view, publisherVars>>
    PROVE  Core'
<1>1. RowsTypeOK BY RowsTyped DEF Core
<1>2. RowsInv' BY <1>1, RowsFrame DEF Core, taskVars, completionVars, Sent
<1>3. WaiterInv' BY WaiterFrame DEF Core
<1>4. BatchInv' /\ PendingIsExact' BY DEF Core, BatchInv, PendingIsExact, taskVars, completionVars, publisherVars
<1>5. VerdictInv' BY DEF Core, VerdictInv, WorkerOK, VerdictOK, Settled, taskVars, completionVars
<1>6. ShownInv' BY DEF Core, ShownInv, Clean, taskVars, completionVars
<1> QED BY <1>2, <1>3, <1>4, <1>5, <1>6 DEF Core

\* A completion is retired, and its task perhaps stopped.
LEMMA CoreRetire ==
    ASSUME TypeOK, Core, NEW t \in Tasks, Retire(t), UNCHANGED <<taskVars, view, publisherVars>>,
           stopped' \subseteq stopped \cup {t}, stopped \subseteq stopped'
    PROVE  Core' /\ CompletionTypeOK' /\ WaiterTypeOK'
<1>0. RowsTypeOK /\ CompletionTypeOK /\ WaiterTypeOK BY RowsTyped, TypeGroups DEF Core
<1>1. Stable({t}) BY <1>0, RetireStable
<1>2. WaiterTypeOK' /\ WaiterInv' BY <1>0, <1>1, SettleReadyWaiters DEF Core, Retire
<1>3. RowsInv' BY <1>0, RowsFrame DEF Core, taskVars, Retire, Sent
<1>4. BatchInv' /\ PendingIsExact' BY DEF Core, BatchInv, PendingIsExact, taskVars, publisherVars, Retire
<1>5. VerdictInv'
  <2>1. stopped' \subseteq terminal' /\ retired' \subseteq terminal' BY DEF Core, VerdictInv, Retire
  <2>2. ASSUME NEW u \in Tasks PROVE WorkerOK(u)' BY DEF Core, VerdictInv, WorkerOK, Settled, taskVars
  <2>3. ASSUME NEW u \in Tasks PROVE VerdictOK(u)'
    <3>1. err'[u] = "nil" => err[u] = "nil" /\ (u = t => u \in terminal /\ pending[u] = 0)
      BY <1>0 DEF Retire, CompletionTypeOK
    <3> QED BY <3>1 DEF Core, VerdictInv, VerdictOK, Settled, taskVars, Retire
  <2> QED BY <2>1, <2>2, <2>3 DEF VerdictInv
<1>6. ShownInv'
  <2>1. \A u \in Tasks : Clean(u)' => Clean(u) BY <1>0 DEF Clean, Retire, CompletionTypeOK
  <2> QED BY <2>1 DEF Core, ShownInv, taskVars
<1> QED BY <1>1, <1>2, <1>3, <1>4, <1>5, <1>6 DEF Core, Stable

\* A step of one worker on its own locals.
LEMMA CoreLocal ==
    ASSUME TypeOK, Core, UNCHANGED <<completionVars, waiterVars, stopped, view, publisherVars>>,
           BatchInv', \A t \in Tasks : Sent(t)' = Sent(t),
           \A t \in Tasks : WorkerOK(t)',
           \A t \in Tasks : Settled(t) =>
               /\ Settled(t)' /\ result'[t] = result[t] /\ taskErr'[t] = taskErr[t]
               /\ got'[t] = got[t] /\ (t \in closed => t \in closed')
    PROVE  Core'
<1>1. RowsTypeOK BY RowsTyped DEF Core
<1>2. RowsInv' BY <1>1, RowsFrame DEF Core, completionVars
<1>3. WaiterInv' BY WaiterFrame DEF Core
<1>4. PendingIsExact' BY DEF Core, PendingIsExact, completionVars, publisherVars
<1>5. VerdictInv'
  <2>1. ASSUME NEW t \in Tasks PROVE VerdictOK(t)' BY DEF Core, VerdictInv, VerdictOK, completionVars
  <2> QED BY <2>1 DEF Core, VerdictInv, completionVars
<1>6. ShownInv' BY DEF Core, ShownInv, VerdictInv, VerdictOK, Clean, completionVars
<1> QED BY <1>2, <1>3, <1>4, <1>5, <1>6 DEF Core

\* A step of the main loop: deliveries are acknowledged.
LEMMA CoreLoop ==
    ASSUME TypeOK, Core, UNCHANGED <<taskVars, stopped>>, RowsTypeOK', RowsInv', PendingIsExact',
           UNCHANGED <<terminal, err, retired>>, WaiterInv',
           \A t \in Tasks : Clean(t) => Len(view'[t]) = Len(view[t]),
           \A t \in Tasks : pending[t] = 0 => pending'[t] = 0 /\ deliveryErr'[t] = deliveryErr[t]
    PROVE  Core'
<1>1. BatchInv' BY DEF Core, BatchInv, taskVars
<1>2. VerdictInv'
  <2>1. ASSUME NEW t \in Tasks PROVE WorkerOK(t)' /\ VerdictOK(t)'
    BY DEF Core, VerdictInv, WorkerOK, VerdictOK, Settled, taskVars
  <2> QED BY <2>1 DEF Core, VerdictInv
<1>3. ASSUME NEW t \in Tasks, Clean(t)' PROVE Len(view'[t]) = got'[t]
  <2>1. CASE t \notin retired BY <1>1, <1>2, <1>3, <2>1, WholeIsShownNext
  <2>2. CASE t \in retired
    <3>1. pending[t] = 0 BY <1>3, <2>2 DEF Core, VerdictInv, VerdictOK, Clean
    <3>2. Clean(t) BY <1>3, <3>1 DEF Clean
    <3> QED BY <3>2 DEF Core, ShownInv, taskVars
  <2> QED BY <2>1, <2>2
<1> QED BY <1>1, <1>2, <1>3 DEF Core, ShownInv
-----------------------------------------
(* The actions, one by one. *)

Good == TypeOK /\ Core

\* The types a call or a waiter leaves alone.
LEMMA RestFrame ==
    ASSUME TypeOK, UNCHANGED <<taskVars, view, publisherVars>>
    PROVE  TaskTypeOK' /\ PublisherTypeOK' /\ (view \in [Tasks -> Seq(1..MaxRows)])'
<1> QED BY TypeGroups DEF TaskTypeOK, PublisherTypeOK, taskVars, publisherVars

\* Calls that move no completion.
LEMMA CallStep ==
    ASSUME Good,
           \/ \E t \in Tasks : LaunchDuplicate(t) \/ LaunchBegin(t) \/ LaunchWaited(t)
           \/ \E s \in Stoppers : StopBegin(s) \/ StopWaited(s)
           \/ ReadRows
    PROVE  Good'
<1>0. CallTypeOK /\ CompletionTypeOK /\ WaiterTypeOK /\ Snapshot \in Snapshots
  BY TypeGroups DEF Good, CallTypeOK, Snapshot, Snapshots
<1>1. UNCHANGED <<taskVars, completionVars, waiterVars, stopped, view, publisherVars>>
  BY DEF LaunchDuplicate, LaunchBegin, LaunchWaited, StopBegin, StopWaited, ReadRows
<1>2. Core' BY <1>1, CoreFrame DEF Good
<1>3. CallTypeOK'
  <2>1. ASSUME NEW t \in Tasks, LaunchDuplicate(t) \/ LaunchBegin(t) \/ LaunchWaited(t)
        PROVE  CallTypeOK'
    BY <1>0, <1>1, <2>1
       DEF CallTypeOK, LaunchDuplicate, LaunchBegin, LaunchWaited, Launch, stopVars
  <2>2. ASSUME NEW s \in Stoppers, StopBegin(s) \/ StopWaited(s)
        PROVE  CallTypeOK'
    BY <1>0, <1>1, <2>2 DEF CallTypeOK, StopBegin, StopWaited, StopMove, launchVars
  <2>3. CASE ReadRows BY <1>0, <1>1, <2>3, BufferAssumption DEF CallTypeOK, ReadRows, launchVars, stopVars
  <2> QED BY <2>1, <2>2, <2>3
<1>4. TypeOK' BY <1>0, <1>1, <1>3, RestFrame, WaiterFrame, TypeGroupsNext DEF Good
<1> QED BY <1>2, <1>4 DEF Good

\* Calls that retire and stop what they found.
LEMMA RetireReadStep ==
    ASSUME Good, NEW t \in Tasks \cup {None}, RetireRead(t), CallTypeOK',
           UNCHANGED <<taskVars, view, publisherVars, stopped>>
    PROVE  Good'
<1>0. CompletionTypeOK /\ WaiterTypeOK BY TypeGroups DEF Good
<1>1. CASE t = None
  <2>1. UNCHANGED <<completionVars, waiterVars>> BY <1>1 DEF RetireRead
  <2> QED BY <1>0, <2>1, CoreFrame, RestFrame, WaiterFrame, TypeGroupsNext DEF Good
<1>2. CASE t # None
  <2>1. t \in Tasks /\ Retire(t) BY <1>2 DEF RetireRead
  <2> QED BY <2>1, CoreRetire, RestFrame, TypeGroupsNext DEF Good
<1> QED BY <1>1, <1>2

\* stopFn: the once of a task that is stopped for the first time retires it.
LEMMA StopOnceStep ==
    ASSUME Good, NEW t \in Tasks, StopOnce(t), CallTypeOK',
           UNCHANGED <<taskVars, view, publisherVars>>
    PROVE  Good'
<1>0. CompletionTypeOK /\ WaiterTypeOK BY TypeGroups DEF Good
<1>1. CASE t \in stopped
  <2>1. UNCHANGED <<completionVars, waiterVars, stopped>> BY <1>1 DEF StopOnce
  <2> QED BY <1>0, <2>1, CoreFrame, RestFrame, WaiterFrame, TypeGroupsNext DEF Good
<1>2. CASE t \notin stopped
  <2>1. Retire(t) /\ stopped' = stopped \cup {t} BY <1>2 DEF StopOnce
  <2> QED BY <2>1, CoreRetire, RestFrame, TypeGroupsNext DEF Good
<1> QED BY <1>1, <1>2

\* NewQueryTask retires and stops the task it found.
LEMMA LaunchStopStep ==
    ASSUME Good, TargetInv, NEW t \in Tasks, LaunchRetire(t) \/ LaunchStop(t)
    PROVE  Good'
<1>0. CallTypeOK BY TypeGroups DEF Good
<1>1. CASE LaunchRetire(t)
  <2>1. CallTypeOK' BY <1>0, <1>1 DEF CallTypeOK, LaunchRetire, Launch, stopVars
  <2>2. prior[t].completion \in Tasks \cup {None} BY <1>0 DEF CallTypeOK, Snapshots
  <2> QED BY <1>1, <2>1, <2>2, RetireReadStep DEF LaunchRetire
<1>2. CASE LaunchStop(t)
  <2>1. prior[t].stop \in Tasks BY <1>2 DEF LaunchStop, Launch, TargetInv
  <2>2. CallTypeOK' BY <1>0, <1>2, <2>1 DEF CallTypeOK, LaunchStop, Launch, stopVars, StopOnce
  <2> QED BY <1>2, <2>1, <2>2, StopOnceStep DEF LaunchStop
<1> QED BY <1>1, <1>2

\* Stop retires and stops the task it found.
LEMMA StopStopStep ==
    ASSUME Good, TargetInv, NEW s \in Stoppers, StopRetire(s) \/ StopClose(s)
    PROVE  Good'
<1>0. CallTypeOK BY TypeGroups DEF Good
<1>1. CASE StopRetire(s)
  <2>1. CallTypeOK' BY <1>0, <1>1 DEF CallTypeOK, StopRetire, StopMove, launchVars
  <2>2. stopOf[s].completion \in Tasks \cup {None} BY <1>0 DEF CallTypeOK, Snapshots
  <2> QED BY <1>1, <2>1, <2>2, RetireReadStep DEF StopRetire
<1>2. CASE StopClose(s)
  <2>1. stopOf[s].stop \in Tasks BY <1>2 DEF StopClose, StopMove, TargetInv
  <2>2. CallTypeOK' BY <1>0, <1>2, <2>1 DEF CallTypeOK, StopClose, StopMove, launchVars, StopOnce
  <2> QED BY <1>2, <2>1, <2>2, StopOnceStep DEF StopClose
<1> QED BY <1>1, <1>2
\* A step of worker t on its own locals, and what it owes the others.
LocalOK ==
    /\ TaskTypeOK' /\ CallTypeOK' /\ BatchInv'
    /\ \A t \in Tasks : Sent(t)' = Sent(t)
    /\ \A t \in Tasks : WorkerOK(t)'
    /\ \A t \in Tasks : Settled(t) =>
          /\ Settled(t)' /\ result'[t] = result[t] /\ taskErr'[t] = taskErr[t]
          /\ got'[t] = got[t] /\ (t \in closed => t \in closed')

\* A local step keeps everything.
LEMMA LocalStep ==
    ASSUME Good, LocalOK,
           UNCHANGED <<completionVars, waiterVars, stopped, view, publisherVars>>
    PROVE  Good'
<1>1. Core' BY CoreLocal DEF Good, LocalOK
<1>2. CompletionTypeOK' /\ WaiterTypeOK' /\ PublisherTypeOK'
      /\ (view \in [Tasks -> Seq(1..MaxRows)])'
  BY TypeGroups, WaiterFrame DEF Good, PublisherTypeOK, publisherVars
<1> QED BY <1>1, <1>2, TypeGroupsNext DEF Good, LocalOK

\* The steps of runTask between two dispatches and around the cleanup.
WorkerLocal(t) ==
    \/ Open(t) \/ FillNext(t) \/ DrainHead(t) \/ NextRow(t)
    \/ \E r \in {"eof", "failed", "canceled"} : NextEnd(t, r)
    \/ LoopStop(t) \/ LoopDrain(t) \/ LoopRequest(t) \/ CloseStream(t) \/ FireOnDone(t)

\* They keep everything.
LEMMA WorkerLocalStep ==
    ASSUME Good, NEW t \in Tasks, WorkerLocal(t)
    PROVE  Good'
<1> USE DEF WorkerLocal, Open, FillNext, DrainHead, NextRow, NextEnd, LoopStop, LoopDrain,
            LoopRequest, CloseStream, FireOnDone, Goto
<1>0. TaskTypeOK /\ CallTypeOK /\ BatchInv /\ \A u \in Tasks : WorkerOK(u) BY TypeGroups DEF Good, Core, VerdictInv
<1>1. TaskTypeOK' BY <1>0, BufferAssumption, PublisherAssumption DEF TaskTypeOK, BatchInv, Live, Errors
<1>2. CallTypeOK' BY <1>0, BufferAssumption DEF Local, launchVars, stopVars, CallTypeOK
<1>3. BatchInv' /\ \A u \in Tasks : Sent(u)' = Sent(u) BY <1>0 DEF TaskTypeOK, BatchInv, Sent
<1>4. \A u \in Tasks : WorkerOK(u)' BY <1>0 DEF Local, TaskTypeOK, WorkerOK, Settled
<1>5. \A u \in Tasks : Settled(u) =>
         /\ Settled(u)' /\ result'[u] = result[u] /\ taskErr'[u] = taskErr[u]
         /\ got'[u] = got[u] /\ (u \in closed => u \in closed')
  BY <1>0 DEF TaskTypeOK, Settled
<1>6. UNCHANGED <<completionVars, waiterVars, stopped, view, publisherVars>> BY DEF Local
<1> QED BY <1>1, <1>2, <1>3, <1>4, <1>5, <1>6, LocalStep DEF LocalOK

\* NewQueryTask installs its task.
LEMMA InstallStep ==
    ASSUME Good, NEW t \in Tasks, LaunchInstall(t)
    PROVE  Good'
<1>0. TaskTypeOK /\ CallTypeOK /\ BatchInv /\ \A u \in Tasks : WorkerOK(u) BY TypeGroups DEF Good, Core, VerdictInv
<1>1. TaskTypeOK' /\ CallTypeOK' BY <1>0 DEF LaunchInstall, Launch, Goto, stopVars, TaskTypeOK, CallTypeOK, Live
<1>2. BatchInv' /\ \A u \in Tasks : Sent(u)' = Sent(u) BY <1>0 DEF LaunchInstall, Goto, TaskTypeOK, BatchInv, Sent
<1>3. \A u \in Tasks : WorkerOK(u)' BY <1>0 DEF LaunchInstall, Goto, TaskTypeOK, WorkerOK, Settled
<1>4. \A u \in Tasks : Settled(u) =>
         /\ Settled(u)' /\ result'[u] = result[u] /\ taskErr'[u] = taskErr[u]
         /\ got'[u] = got[u] /\ (u \in closed => u \in closed')
  BY <1>0 DEF LaunchInstall, Goto, TaskTypeOK, Settled
<1> QED BY <1>1, <1>2, <1>3, <1>4, LocalStep DEF LocalOK, LaunchInstall

\* The cleanup clears the manager.
LEMMA ClearStep ==
    ASSUME Good, NEW t \in Tasks, ClearManager(t)
    PROVE  Good'
<1>0. TaskTypeOK /\ CallTypeOK /\ BatchInv /\ \A u \in Tasks : WorkerOK(u) BY TypeGroups DEF Good, Core, VerdictInv
<1>1. TaskTypeOK' /\ CallTypeOK' BY <1>0 DEF ClearManager, Launch, Goto, stopVars, TaskTypeOK, CallTypeOK, Live
<1>2. BatchInv' /\ \A u \in Tasks : Sent(u)' = Sent(u) BY <1>0 DEF ClearManager, Goto, TaskTypeOK, BatchInv, Sent
<1>3. \A u \in Tasks : WorkerOK(u)' BY <1>0 DEF ClearManager, Goto, TaskTypeOK, WorkerOK, Settled
<1>4. \A u \in Tasks : Settled(u) =>
         /\ Settled(u)' /\ result'[u] = result[u] /\ taskErr'[u] = taskErr[u]
         /\ got'[u] = got[u] /\ (u \in closed => u \in closed')
  BY <1>0 DEF ClearManager, Goto, TaskTypeOK, Settled
<1> QED BY <1>1, <1>2, <1>3, <1>4, LocalStep DEF LocalOK, ClearManager

\* A batch is published and counted, or the driver's refusal is noted.
LEMMA DispatchStep ==
    ASSUME Good, NEW t \in Tasks, Dispatch(t)
    PROVE  Good'
<1>0. TaskTypeOK /\ CallTypeOK /\ CompletionTypeOK /\ WaiterTypeOK /\ RowsTypeOK /\ BatchInv
      /\ \A u \in Tasks : WorkerOK(u) /\ VerdictOK(u)
  BY TypeGroups, RowsTyped DEF Good, Core, VerdictInv
<1>1. TaskTypeOK' /\ CallTypeOK'
  <2>1. AfterDrain(t) \in Live BY DEF AfterDrain, Live
  <2>2. worker' = [worker EXCEPT ![t] = AfterDrain(t)] BY DEF Dispatch, Goto
  <2>3. fill' \in [Tasks -> 0..InitialRows] BY <1>0, BufferAssumption DEF Dispatch, TaskTypeOK
  <2>4. batch' \in [Tasks -> 0..MaxRows] BY <1>0, PublisherAssumption DEF Dispatch, TaskTypeOK
  <2>5. taskErr' \in [Tasks -> Errors] BY <1>0 DEF Dispatch, TaskTypeOK
  <2>6. UNCHANGED <<want, got, result, closed, onDone>> BY DEF Dispatch
  <2>7. TaskTypeOK' BY <1>0, <2>1, <2>2, <2>3, <2>4, <2>5, <2>6 DEF TaskTypeOK
  <2>8. CallTypeOK' BY <1>0 DEF Dispatch, CallTypeOK, launchVars, stopVars
  <2> QED BY <2>7, <2>8
<1>2. BatchInv'
  <2>1. /\ worker' = [worker EXCEPT ![t] = AfterDrain(t)]
        /\ batch' = [batch EXCEPT ![t] = 0] /\ got' = got
    BY DEF Dispatch, Goto
  <2> QED BY <1>0, <2>1 DEF TaskTypeOK, BatchInv
<1>3. \A u \in Tasks : WorkerOK(u)' BY <1>0 DEF Dispatch, Goto, AfterDrain, TaskTypeOK, WorkerOK, Settled, Errors
<1>4. \A u \in Tasks : Settled(u) => u # t /\ Settled(u)' /\ result'[u] = result[u]
                                    /\ taskErr'[u] = taskErr[u] /\ got'[u] = got[u]
                                    /\ (u \in closed => u \in closed')
  BY <1>0 DEF Dispatch, Goto, TaskTypeOK, Settled
<1>5. UNCHANGED <<view, stopped>> BY DEF Dispatch
<1>6. CASE batch[t] = 0
  <2>1. UNCHANGED <<completionVars, waiterVars, publisherVars>> BY <1>6 DEF Dispatch
  <2>2. \A u \in Tasks : Sent(u)' = Sent(u) BY <1>0, <1>6 DEF Dispatch, Sent, TaskTypeOK
  <2> QED BY <1>1, <1>2, <1>3, <1>4, <1>5, <2>1, <2>2, LocalStep DEF LocalOK
<1>7. CASE batch[t] # 0
  <2>1. /\ pending' = [pending EXCEPT ![t] = IF retiring THEN @ ELSE @ + 1]
        /\ deliveryErr' = IF retiring /\ deliveryErr[t] = "nil"
                            THEN [deliveryErr EXCEPT ![t] = "canceled"] ELSE deliveryErr
        /\ UNCHANGED <<terminal, err, retired>>
        /\ SettleReady({t})
    BY <1>7 DEF Dispatch
  <2>2. RowsInv' /\ PendingIsExact' BY <1>0, <1>7, DispatchRows DEF Good, Core
  <2>3. t \in terminal => err[t] # "nil" BY <1>0 DEF VerdictOK, Settled, Dispatch, Goto
  <2>4. CompletionTypeOK' BY <1>0, <2>1 DEF CompletionTypeOK, Errors
  <2>5. \A u \in Tasks \ {t} : pending'[u] = pending[u] /\ deliveryErr'[u] = deliveryErr[u]
    BY <1>0, <2>1 DEF CompletionTypeOK
  <2>6. \A u \in Tasks : Clean(u)' <=> Clean(u) BY <2>1, <2>3, <2>5 DEF Clean
  <2>7. \A u \in Tasks \ {t} : Ready(u)' => Ready(u) BY <2>1, <2>5 DEF Ready, Verdict
  <2>8. WaiterTypeOK' /\ WaiterInv' BY <1>0, <2>1, <2>4, <2>6, <2>7, SettleReadyWaiters DEF Stable, Good, Core
  <2>9. VerdictInv'
    <3>1. ASSUME NEW u \in Tasks PROVE VerdictOK(u)'
      <4>1. CASE u = t BY <1>0, <2>1, <2>3, <4>1 DEF VerdictOK, Good, Core, VerdictInv
      <4>2. CASE u # t BY <1>0, <1>4, <2>1, <2>5, <4>2 DEF VerdictOK
      <4> QED BY <4>1, <4>2
    <3> QED BY <1>3, <1>5, <2>1, <3>1 DEF VerdictInv, Good, Core
  <2>10. ShownInv' BY <1>4, <1>5, <2>3, <2>6 DEF Good, Core, ShownInv, Clean, Dispatch
  <2>11. PublisherTypeOK'
    <3>1. [task |-> t, from |-> got[t] - batch[t] + 1, upto |-> got[t]] \in Publication
      BY <1>0, <1>7, PublisherAssumption DEF Publication, TaskTypeOK, BatchInv
    <3>2. Publish([task |-> t, from |-> got[t] - batch[t] + 1, upto |-> got[t]]) BY <1>7 DEF Dispatch
    <3> QED BY <1>0, <3>1, <3>2 DEF Publish, PublisherTypeOK, RowsTypeOK
  <2>12. (view \in [Tasks -> Seq(1..MaxRows)])' BY <1>0, <1>5 DEF RowsTypeOK
  <2> QED BY <1>1, <1>2, <2>2, <2>4, <2>8, <2>9, <2>10, <2>11, <2>12, TypeGroupsNext DEF Good, Core
<1> QED BY <1>6, <1>7

\* The worker's verdict settles the completion, unless a retirement came first.
LEMMA SettleStep ==
    ASSUME Good, NEW t \in Tasks, SettleTask(t)
    PROVE  Good'
<1>0. TaskTypeOK /\ CallTypeOK /\ CompletionTypeOK /\ WaiterTypeOK /\ RowsTypeOK /\ BatchInv
      /\ PublisherTypeOK /\ \A u \in Tasks : WorkerOK(u) /\ VerdictOK(u)
  BY TypeGroups, RowsTyped DEF Good, Core, VerdictInv
<1>1. /\ worker[t] = "settle" /\ worker' = [worker EXCEPT ![t] = "clear"]
      /\ UNCHANGED <<want, fill, got, batch, result, taskErr, closed, onDone,
                     launchVars, stopVars, stopped, requests, drain, view, publisherVars>>
      /\ FinishCompletion(t, taskErr[t])
  BY DEF SettleTask, Goto
<1>2. TaskTypeOK' /\ CallTypeOK' /\ PublisherTypeOK' /\ (view \in [Tasks -> Seq(1..MaxRows)])'
  BY <1>0, <1>1
     DEF TaskTypeOK, CallTypeOK, PublisherTypeOK, RowsTypeOK, launchVars, stopVars,
         publisherVars, Live
<1>3. taskErr[t] \in Errors BY <1>0 DEF TaskTypeOK
<1>4. Stable({t}) BY <1>0, <1>1, <1>3, FinishStable
<1>5. CompletionTypeOK' /\ WaiterTypeOK' /\ WaiterInv'
  BY <1>0, <1>1, <1>4, SettleReadyWaiters DEF Stable, FinishCompletion, Good, Core
<1>6. TypeOK' BY <1>2, <1>5, TypeGroupsNext
<1>7. BatchInv' BY <1>0, <1>1 DEF TaskTypeOK, BatchInv
<1>8. RowsInv' BY <1>0, <1>1, RowsFrame DEF FinishCompletion, Sent, Good, Core
<1>9. PendingIsExact' BY <1>1 DEF FinishCompletion, PendingIsExact, publisherVars, Good, Core
<1>10. UNCHANGED <<deliveryErr, pending, retired>> /\ terminal' = terminal \cup {t}
       /\ err' = IF t \in terminal THEN err ELSE [err EXCEPT ![t] = taskErr[t]]
  BY <1>1 DEF FinishCompletion
<1>11. t \in terminal => err[t] # "nil" BY <1>0, <1>1 DEF VerdictOK, Settled
<1>12. VerdictInv'
  <2>1. ASSUME NEW u \in Tasks PROVE WorkerOK(u)' BY <1>0, <1>1 DEF WorkerOK, Settled, TaskTypeOK
  <2>2. ASSUME NEW u \in Tasks PROVE VerdictOK(u)'
    <3>1. CASE u # t BY <1>0, <1>1, <1>10, <3>1 DEF VerdictOK, Settled, TaskTypeOK, CompletionTypeOK
    <3>2. CASE u = t
      <4>1. SUFFICES ASSUME err'[t] = "nil" PROVE VerdictOK(t)' BY <3>2 DEF VerdictOK
      <4>2. t \notin terminal /\ taskErr[t] = "nil" BY <1>0, <1>10, <1>11, <4>1 DEF CompletionTypeOK
      <4>3. t \notin stopped /\ t \notin retired BY <4>2 DEF Good, Core, VerdictInv
      <4>4. result[t] = "eof" /\ t \in closed BY <1>0, <1>1, <4>2, <4>3 DEF WorkerOK
      <4> QED BY <1>0, <1>1, <1>10, <4>2, <4>3, <4>4 DEF VerdictOK, Settled, TaskTypeOK
    <3> QED BY <3>1, <3>2
  <2> QED BY <1>1, <1>10, <2>1, <2>2 DEF VerdictInv, Good, Core
<1>13. ShownInv'
  <2>1. SUFFICES ASSUME NEW u \in Tasks, Clean(u)' PROVE Len(view'[u]) = got'[u] BY DEF ShownInv
  <2>2. CASE u \notin retired BY <1>6, <1>7, <1>8, <1>9, <1>10, <1>12, <2>1, <2>2, RowsTypedNext, WholeIsShownNext
  <2>3. CASE u \in retired
    <3>1. u \in terminal BY <2>3 DEF Good, Core, VerdictInv
    <3>2. Clean(u) BY <1>0, <1>10, <2>1, <3>1 DEF Clean, CompletionTypeOK
    <3> QED BY <1>1, <3>2 DEF Good, Core, ShownInv
  <2> QED BY <2>2, <2>3
<1> QED BY <1>5, <1>6, <1>7, <1>8, <1>9, <1>12, <1>13 DEF Good, Core
\* A step of the main loop that acknowledges at most one delivery.
LEMMA LoopStep ==
    ASSUME Good, BufferUnchanged, PublisherTypeOK', RowsInv', PendingIsExact',
           (view \in [Tasks -> Seq(1..MaxRows)])',
           \A t \in Tasks : Clean(t) => Len(view'[t]) = Len(view[t]),
           \/ UNCHANGED <<completionVars, waiterVars>>
           \/ \E t \in Tasks, e \in Errors : pending[t] > 0 /\ Delivered(t, e)
    PROVE  Good'
<1>0. TaskTypeOK /\ CallTypeOK /\ CompletionTypeOK /\ WaiterTypeOK /\ RowsTypeOK BY TypeGroups, RowsTyped DEF Good, Core
<1>1. TaskTypeOK' /\ CallTypeOK' BY <1>0 DEF BufferUnchanged, taskVars, launchVars, stopVars, TaskTypeOK, CallTypeOK
<1>2. /\ CompletionTypeOK' /\ WaiterTypeOK' /\ WaiterInv' /\ UNCHANGED <<terminal, err, retired>>
      /\ \A t \in Tasks : pending[t] = 0 => pending'[t] = 0 /\ deliveryErr'[t] = deliveryErr[t]
  <2>1. CASE UNCHANGED <<completionVars, waiterVars>> BY <1>0, <2>1, WaiterFrame DEF completionVars, Good, Core
  <2>2. ASSUME NEW t \in Tasks, NEW e \in Errors, pending[t] > 0, Delivered(t, e)
        PROVE  /\ CompletionTypeOK' /\ WaiterTypeOK' /\ WaiterInv'
               /\ UNCHANGED <<terminal, err, retired>>
               /\ \A u \in Tasks : pending[u] = 0
                     => pending'[u] = 0 /\ deliveryErr'[u] = deliveryErr[u]
    <3>1. Stable({t}) BY <1>0, <2>2, DeliveredStable
    <3>2. CompletionTypeOK' /\ WaiterTypeOK' /\ WaiterInv'
      BY <1>0, <2>2, <3>1, SettleReadyWaiters DEF Delivered, Stable, Good, Core
    <3> QED BY <1>0, <2>2, <3>2 DEF Delivered, CompletionTypeOK
  <2> QED BY <2>1, <2>2
<1>3. TypeOK' BY <1>1, <1>2, TypeGroupsNext
<1>4. BatchInv' BY DEF Good, Core, BatchInv, BufferUnchanged, taskVars
<1>5. Core' BY <1>2, <1>3, <1>4, RowsTypedNext, CoreLoop DEF Good, BufferUnchanged
<1> QED BY <1>3, <1>5 DEF Good

\* The main loop takes a publication.
LEMMA BeginStep ==
    ASSUME Good, UIBegin
    PROVE  Good'
<1>0. RowsTypeOK /\ RowsInv /\ PendingIsExact /\ PublisherTypeOK BY RowsTyped, TypeGroups DEF Good, Core
<1>1. queue # <<>> /\ queue' = Tail(queue) /\ BufferUnchanged /\ UNCHANGED <<view, retiring>>
      /\ accepted' \subseteq accepted /\ running' \in {running, Head(queue)}
  BY DEF UIBegin, Dequeue, Settle
<1>2. PublisherTypeOK' /\ (view \in [Tasks -> Seq(1..MaxRows)])'
  BY <1>0, <1>1, HeadTailProperties DEF PublisherTypeOK, RowsTypeOK
<1>3. "canceled" \in Errors BY DEF Errors
<1>4. CASE Head(queue).task \in retired BY <1>0, <1>1, <1>2, <1>3, <1>4, BeginCancelRows, LoopStep
<1>5. CASE Head(queue).task \notin retired BY <1>0, <1>1, <1>2, <1>5, BeginRunRows, LoopStep
<1> QED BY <1>4, <1>5

\* appendRows returns.
LEMMA AppendStep ==
    ASSUME Good, UIAppend
    PROVE  Good'
<1>0. RowsTypeOK /\ RowsInv /\ PendingIsExact /\ PublisherTypeOK BY RowsTyped, TypeGroups DEF Good, Core
<1>1. BufferUnchanged /\ running # None /\ running' = None /\ UNCHANGED <<queue, retiring>>
      /\ accepted' \subseteq accepted
  BY DEF UIAppend, Return, Settle
<1>2. PublisherTypeOK' BY <1>0, <1>1 DEF PublisherTypeOK
<1>3. "nil" \in Errors BY DEF Errors
<1>4. ASSUME NEW t \in Tasks, Clean(t) PROVE Len(view'[t]) = Len(view[t])
  <2>1. running.task \in Tasks /\ running.from \in Nat /\ running.upto \in Nat BY <1>0, <1>1, RowsFacts
  <2>2. running.task # t
    <3>1. SUFFICES ASSUME running.task = t PROVE FALSE OBVIOUS
    <3>2. running.from = Len(view[t]) + 1 /\ running.from <= running.upto
          /\ running.upto <= Sent(t)
      BY <1>1, <3>1 DEF Good, Core, RowsInv, PublisherInv
    <3>3. Len(view[t]) = got[t] /\ Sent(t) <= got[t] BY <1>0, <1>4 DEF Good, Core, ShownInv, Sent, RowsTypeOK
    <3> QED BY <1>0, <2>1, <3>2, <3>3, RowsFacts DEF RowsTypeOK
  <2> QED BY <1>0, <2>1, <2>2 DEF UIAppend, RowsTypeOK
<1> QED BY <1>0, <1>1, <1>2, <1>3, <1>4, AppendRows, LoopStep

\* The AfterFunc of a retired completion.
LEMMA CancelStep ==
    ASSUME Good, NEW p \in accepted, UICancel(p)
    PROVE  Good'
<1>0. RowsTypeOK /\ RowsInv /\ PendingIsExact /\ PublisherTypeOK BY RowsTyped, TypeGroups DEF Good, Core
<1>1. BufferUnchanged /\ UNCHANGED <<queue, running, retiring, view>> /\ accepted' \subseteq accepted
      /\ Delivered(p.task, "canceled")
  BY DEF UICancel, Settle
<1>2. PublisherTypeOK' /\ (view \in [Tasks -> Seq(1..MaxRows)])' BY <1>0, <1>1 DEF PublisherTypeOK, RowsTypeOK
<1>3. "canceled" \in Errors BY DEF Errors
<1>4. p.task \in Tasks /\ pending[p.task] > 0 BY <1>0, SettleCount DEF RowsInv
<1>5. RowsInv' /\ PendingIsExact' BY <1>0, CancelRows
<1> QED BY <1>1, <1>2, <1>3, <1>4, <1>5, LoopStep

\* The driver goes down.
LEMMA DriverStep ==
    ASSUME Good, UIRetire
    PROVE  Good'
<1>0. TaskTypeOK /\ CallTypeOK /\ CompletionTypeOK /\ WaiterTypeOK /\ RowsTypeOK
      /\ RowsInv /\ PendingIsExact
  BY TypeGroups, RowsTyped DEF Good, Core
<1>1. TaskTypeOK' /\ CallTypeOK'
  BY <1>0 DEF UIRetire, BufferUnchanged, taskVars, launchVars, stopVars, TaskTypeOK, CallTypeOK
<1>2. RowsInv' /\ PendingIsExact' /\ Stable(Tasks) BY <1>0, RetireRows
<1>3. CompletionTypeOK' /\ WaiterTypeOK' /\ WaiterInv'
  BY <1>0, <1>2, SettleReadyWaiters DEF UIRetire, Stable, Good, Core
<1>4. PublisherTypeOK' /\ (view \in [Tasks -> Seq(1..MaxRows)])'
  BY <1>0 DEF UIRetire, RetireDriver, PublisherTypeOK, RowsTypeOK
<1>5. TypeOK' BY <1>1, <1>3, <1>4, TypeGroupsNext
<1>6. BatchInv' BY DEF Good, Core, BatchInv, UIRetire, BufferUnchanged, taskVars
<1>7. \A t \in Tasks : pending[t] = 0 => pending'[t] = 0 /\ deliveryErr'[t] = deliveryErr[t]
  <2>1. SUFFICES ASSUME NEW t \in Tasks, pending[t] = 0
                 PROVE  pending'[t] = 0 /\ deliveryErr'[t] = deliveryErr[t]
    OBVIOUS
  <2>2. IsFiniteSet(Of(accepted, t)) BY <1>0, FS_Subset DEF RowsInv, PublisherInv, Of
  <2>3. Of(accepted, t) = {} BY <1>0, <2>1, <2>2, FS_EmptySet, PendingCounts
  <2>4. ~ \E p \in accepted : p.task = t BY <2>3 DEF Of
  <2>5. Cardinality({p \in accepted : p.task = t}) = 0 BY <2>3, FS_EmptySet DEF Of
  <2> QED BY <2>1, <2>4, <2>5 DEF UIRetire
<1>8. Core'
  BY <1>2, <1>3, <1>5, <1>6, <1>7, RowsTypedNext, CoreLoop
     DEF Good, UIRetire, BufferUnchanged
<1> QED BY <1>5, <1>8 DEF Good

\* Waiters come, are canceled and withdraw; no completion changes.
LEMMA CoreWaiter ==
    ASSUME Good, UNCHANGED <<taskVars, completionVars, stopped, view, publisherVars>>,
           CallTypeOK', WaiterTypeOK', \A w \in Waiters : WaiterOK(w)'
    PROVE  Good'
<1>0. RowsTypeOK /\ CompletionTypeOK BY TypeGroups, RowsTyped DEF Good, Core
<1>1. CompletionTypeOK' BY <1>0 DEF CompletionTypeOK, completionVars
<1>2. TypeOK' BY <1>1, RestFrame, TypeGroupsNext DEF Good
<1>3. RowsInv' BY <1>0, RowsFrame DEF Good, Core, taskVars, completionVars, Sent
<1>4. BatchInv' /\ PendingIsExact' BY DEF Good, Core, BatchInv, PendingIsExact, taskVars, completionVars, publisherVars
<1>5. VerdictInv' BY DEF Good, Core, VerdictInv, WorkerOK, VerdictOK, Settled, taskVars, completionVars
<1>6. ShownInv' BY DEF Good, Core, ShownInv, Clean, taskVars, completionVars
<1>7. WaiterInv' BY DEF WaiterInv
<1> QED BY <1>2, <1>3, <1>4, <1>5, <1>6, <1>7 DEF Good, Core
\* ReadToEndWithCompletion, the cancellation of its context and its withdrawal.
LEMMA WaiterStepGood ==
    ASSUME Good, NEW w \in Waiters, WaiterStep(w)
    PROVE  Good'
<1>0. CallTypeOK /\ WaiterTypeOK /\ CompletionTypeOK /\ \A v \in Waiters : WaiterOK(v)
  BY TypeGroups DEF Good, Core, WaiterInv
<1>1. UNCHANGED <<taskVars, completionVars, stopped, view, publisherVars>>
  BY DEF WaiterStep, ReadToEnd, AddWaiter, CancelWaiter, DropWaiter
<1>2. \A t \in Tasks : (Ready(t)' <=> Ready(t)) /\ (Clean(t)' <=> Clean(t))
  BY <1>1 DEF Ready, Verdict, Clean, completionVars
<1>3. CASE ReadToEnd(w)
  <2>1. CallTypeOK' BY <1>0, <1>1, <1>3 DEF ReadToEnd, CallTypeOK, launchVars, stopVars
  <2>2. told[w] = <<>> /\ waiting[w] = None /\ UNCHANGED <<waiting, canceled>>
        /\ asked' \in [Waiters -> Tasks \cup {None}]
        /\ \A v \in Waiters \ {w} : asked'[v] = asked[v]
    BY <1>0, <1>3 DEF ReadToEnd, WaiterTypeOK, CallTypeOK
  <2>3. told' = told \/ told' = [told EXCEPT ![w] = <<"canceled">>]
        \/ told' = [told EXCEPT ![w] = <<"nostream">>]
    BY <1>3 DEF ReadToEnd
  <2>4. <<"canceled">> \in Seq(Errors \cup {"nostream"})
        /\ <<"nostream">> \in Seq(Errors \cup {"nostream"})
    BY DEF Errors
  <2>5. told' \in [Waiters -> Seq(Errors \cup {"nostream"})] BY <1>0, <2>3, <2>4 DEF WaiterTypeOK
  <2>6. WaiterTypeOK' BY <1>0, <2>2, <2>5 DEF WaiterTypeOK
  <2>7. told'[w] = <<>> \/ told'[w] = <<"canceled">> \/ told'[w] = <<"nostream">> BY <1>0, <2>2, <2>3 DEF WaiterTypeOK
  <2>8. \A v \in Waiters \ {w} : told'[v] = told[v] BY <1>0, <2>3 DEF WaiterTypeOK
  <2>9. Len(told'[w]) <= 1 /\ told'[w] # <<"nil">>
    <3>1. CASE told'[w] = <<>> BY <3>1
    <3>2. CASE told'[w] = <<"canceled">> BY <3>2
    <3>3. CASE told'[w] = <<"nostream">> BY <3>3
    <3> QED BY <2>7, <3>1, <3>2, <3>3
  <2>10. WaiterOK(w)' BY <2>2, <2>9, PublisherAssumption DEF WaiterOK
  <2>11. \A v \in Waiters \ {w} : WaiterOK(v)' BY <1>0, <1>2, <2>2, <2>8 DEF WaiterOK
  <2> QED BY <1>1, <2>1, <2>6, <2>10, <2>11, CoreWaiter
<1>4. CASE AddWaiter(w)
  <2>1. PICK t \in Tasks : asked[w] = t BY <1>0, <1>4 DEF AddWaiter, WaiterTypeOK
  <2>2. told[w] = <<>> /\ waiting[w] = None /\ UNCHANGED <<asked, canceled>> BY <1>4 DEF AddWaiter
  <2>3. CallTypeOK' BY <1>0, <1>1, <1>4, <2>1 DEF AddWaiter, CallTypeOK, launchVars, stopVars
  <2>4. CASE Ready(t)
    <3>1. told' = [told EXCEPT ![w] = Answer(w, Verdict(t))] /\ waiting' = waiting BY <1>4, <2>1, <2>4 DEF AddWaiter
    <3>2. Verdict(t) \in Errors BY <1>0 DEF Verdict, CompletionTypeOK
    <3>3. Answer(w, Verdict(t)) \in Seq(Errors \cup {"nostream"}) BY <1>0, <3>2, AnswerType
    <3>4. WaiterTypeOK' BY <1>0, <2>2, <3>1, <3>3 DEF WaiterTypeOK
    <3>5. Answer(w, Verdict(t)) = <<"canceled">> \/ Answer(w, Verdict(t)) = <<Verdict(t)>> BY <2>2 DEF Answer
    <3>6. told'[w] = <<"canceled">> \/ told'[w] = <<Verdict(t)>> BY <1>0, <3>1, <3>5 DEF WaiterTypeOK
    <3>7. Len(told'[w]) <= 1 /\ (told'[w] = <<"nil">> => Verdict(t) = "nil")
      <4>1. CASE told'[w] = <<"canceled">> BY <4>1
      <4>2. CASE told'[w] = <<Verdict(t)>> BY <4>2
      <4> QED BY <3>6, <4>1, <4>2
    <3>8. Verdict(t) = "nil" => Clean(t) BY <2>4 DEF Ready, Clean, Verdict
    <3>9. WaiterOK(w)' BY <1>2, <2>1, <2>2, <3>1, <3>7, <3>8, PublisherAssumption DEF WaiterOK
    <3>10. \A v \in Waiters \ {w} : WaiterOK(v)' BY <1>0, <1>2, <2>2, <3>1 DEF WaiterOK, WaiterTypeOK
    <3> QED BY <1>1, <2>3, <3>4, <3>9, <3>10, CoreWaiter
  <2>5. CASE ~Ready(t)
    <3>1. waiting' = [waiting EXCEPT ![w] = t] /\ told' = told BY <1>4, <2>1, <2>5 DEF AddWaiter
    <3>2. WaiterTypeOK' BY <1>0, <2>2, <3>1 DEF WaiterTypeOK
    <3>3. Len(told[w]) <= 1 /\ told[w] # <<"nil">> BY <2>2
    <3>4. WaiterOK(w)' BY <1>0, <1>2, <2>1, <2>2, <2>5, <3>1, <3>3 DEF WaiterOK, WaiterTypeOK
    <3>5. \A v \in Waiters \ {w} : WaiterOK(v)' BY <1>0, <1>2, <2>2, <3>1 DEF WaiterOK, WaiterTypeOK
    <3> QED BY <1>1, <2>3, <3>2, <3>4, <3>5, CoreWaiter
  <2> QED BY <2>4, <2>5
<1>5. CASE CancelWaiter(w)
  <2>1. CallTypeOK' /\ WaiterTypeOK' /\ UNCHANGED <<asked, waiting, told>>
    BY <1>0, <1>1, <1>5 DEF CancelWaiter, CallTypeOK, WaiterTypeOK, launchVars, stopVars
  <2>2. \A v \in Waiters : WaiterOK(v)' BY <1>0, <1>2, <2>1 DEF WaiterOK
  <2> QED BY <1>1, <2>1, <2>2, CoreWaiter
<1>6. CASE DropWaiter(w)
  <2>1. /\ waiting' = [waiting EXCEPT ![w] = None]
        /\ told' = [told EXCEPT ![w] = Answer(w, "canceled")] /\ UNCHANGED <<asked, canceled>>
    BY <1>6 DEF DropWaiter
  <2>2. CallTypeOK' BY <1>0, <1>1, <1>6 DEF DropWaiter, CallTypeOK, launchVars, stopVars
  <2>3. Answer(w, "canceled") \in Seq(Errors \cup {"nostream"}) BY <1>0, AnswerType DEF Errors
  <2>4. WaiterTypeOK' BY <1>0, <2>1, <2>3 DEF WaiterTypeOK
  <2>5. told[w] \in Seq(Errors \cup {"nostream"}) BY <1>0 DEF WaiterTypeOK
  <2>6. Answer(w, "canceled") = IF told[w] # <<>> THEN told[w] ELSE <<"canceled">>
    <3>1. told[w] \o <<>> = told[w] /\ <<>> \o <<"canceled">> = <<"canceled">> BY <2>5, ConcatEmptySeq
    <3> QED BY <3>1 DEF Answer
  <2>7. told'[w] = told[w] \/ told'[w] = <<"canceled">> BY <1>0, <2>1, <2>6 DEF WaiterTypeOK
  <2>8. CASE told'[w] = <<"canceled">>
    <3>1. Len(told'[w]) <= 1 /\ told'[w] # <<"nil">> BY <2>8
    <3>2. WaiterOK(w)' BY <1>0, <2>1, <3>1, PublisherAssumption DEF WaiterOK, WaiterTypeOK
    <3>3. \A v \in Waiters \ {w} : WaiterOK(v)' BY <1>0, <1>2, <2>1 DEF WaiterOK, WaiterTypeOK
    <3> QED BY <1>1, <2>2, <2>4, <3>2, <3>3, CoreWaiter
  <2>9. CASE told'[w] = told[w]
    <3>1. WaiterOK(w)' BY <1>0, <1>2, <2>1, <2>9, PublisherAssumption DEF WaiterOK, WaiterTypeOK
    <3>2. \A v \in Waiters \ {w} : WaiterOK(v)' BY <1>0, <1>2, <2>1 DEF WaiterOK, WaiterTypeOK
    <3> QED BY <1>1, <2>2, <2>4, <3>1, <3>2, CoreWaiter
  <2> QED BY <2>7, <2>8, <2>9
<1> QED BY <1>3, <1>4, <1>5, <1>6 DEF WaiterStep
-----------------------------------------
(* The calls that hand the manager over. *)

\* Only calls change what they found, and they wait only for what they found.
LEMMA TargetStep ==
    ASSUME TypeOK, TargetInv, [Next]_vars
    PROVE  TargetInv'
<1>0. CallTypeOK BY TypeGroups
<1>1. ASSUME NEW t \in Tasks, LaunchStep(t) PROVE TargetInv'
  <2>1. UNCHANGED stopVars
    BY <1>1 DEF LaunchStep, LaunchDuplicate, LaunchBegin, LaunchRetire, LaunchStop,
                LaunchWaited, LaunchInstall
  <2>2. CASE LaunchBegin(t) BY <1>0, <2>1, <2>2 DEF LaunchBegin, Launch, TargetInv, CallTypeOK, stopVars
  <2>3. CASE LaunchRetire(t) BY <1>0, <2>1, <2>3 DEF LaunchRetire, Launch, TargetInv, CallTypeOK, stopVars, Snapshots
  <2>4. CASE LaunchDuplicate(t) \/ LaunchStop(t) \/ LaunchWaited(t) \/ LaunchInstall(t)
    BY <1>0, <2>1, <2>4 DEF LaunchDuplicate, LaunchStop, LaunchWaited, LaunchInstall,
                            Launch, TargetInv, CallTypeOK, stopVars
  <2> QED BY <1>1, <2>2, <2>3, <2>4 DEF LaunchStep
<1>2. ASSUME NEW s \in Stoppers, StopStep(s) PROVE TargetInv'
  <2>1. UNCHANGED launchVars BY <1>2 DEF StopStep, StopBegin, StopRetire, StopClose, StopWaited
  <2> QED
    BY <1>0, <1>2, <2>1 DEF StopStep, StopBegin, StopRetire, StopClose, StopWaited, StopMove,
                            TargetInv, CallTypeOK, launchVars, Snapshots
<1>3. ASSUME UNCHANGED <<launch, prior, stopVars>> PROVE TargetInv' BY <1>3 DEF TargetInv, stopVars
<1>4. ASSUME NEW t \in Tasks, Serve(t) \/ StreamStep(t) \/ Cleanup(t)
      PROVE  UNCHANGED <<launch, prior, stopVars>>
  BY <1>4 DEF Serve, StreamStep, Cleanup, Open, FillNext, DrainHead, Dispatch, LoopStop,
              LoopDrain, LoopRequest, NextRow, NextEnd, CloseStream, SettleTask,
              ClearManager, FireOnDone, Local, launchVars
<1>5. ASSUME NEW w \in Waiters, WaiterStep(w) PROVE UNCHANGED <<launch, prior, stopVars>>
  BY <1>5 DEF WaiterStep, ReadToEnd, AddWaiter, CancelWaiter, DropWaiter, launchVars
<1>6. ASSUME ReadRows \/ UIStep \/ UIRetire \/ UNCHANGED vars
      PROVE  UNCHANGED <<launch, prior, stopVars>>
  BY <1>6 DEF ReadRows, UIStep, UIBegin, UIAppend, UICancel, UIRetire, BufferUnchanged,
              launchVars, vars
<1> QED BY <1>1, <1>2, <1>3, <1>4, <1>5, <1>6 DEF Next

\* NewQueryTask calls come one at a time: the manager names the one worker that is
\* not past its cleanup, and the launch under way will find it gone.
LEMMA LaunchInvStep ==
    ASSUME TypeOK, SerialLaunch, LaunchInv, [Next]_vars
    PROVE  LaunchInv'
<1>0. CallTypeOK /\ TaskTypeOK BY TypeGroups
<1>1. ASSUME NEW t \in Tasks, LaunchStep(t) PROVE LaunchInv'
  <2>1. CASE LaunchDuplicate(t) BY <1>0, <2>1 DEF LaunchDuplicate, Launch, LaunchInv, Launching, CallTypeOK, taskVars
  <2>2. CASE LaunchBegin(t)
    <3>1. \A u \in Tasks : ~Launching(u) BY <2>2 DEF LaunchBegin, Alone, Launching
    <3>2. /\ launch' = [launch EXCEPT ![t] = "retire"]
          /\ prior' = [prior EXCEPT ![t] = Snapshot] /\ UNCHANGED <<current, worker>>
      BY <2>2 DEF LaunchBegin, Launch, taskVars
    <3>3. \A u \in Tasks : Launching(u)' => u = t BY <1>0, <3>1, <3>2 DEF Launching, CallTypeOK
    <3>4. prior'[t].stop = current BY <1>0, <3>2 DEF CallTypeOK, Snapshot
    <3> QED BY <1>0, <3>2, <3>3, <3>4 DEF LaunchInv, CallTypeOK, Launching
  <2>3. CASE LaunchRetire(t)
    <3>1. /\ launch[t] = "retire" /\ UNCHANGED <<current, worker, prior>>
          /\ launch' = [launch EXCEPT ![t] = IF prior[t].stop = None THEN "install" ELSE "stop"]
      BY <2>3 DEF LaunchRetire, Launch, taskVars
    <3>2. current \in {None, prior[t].stop} BY <3>1 DEF LaunchInv, Launching
    <3>3. \A u \in Tasks : Launching(u)' => Launching(u) BY <1>0, <3>1 DEF Launching, CallTypeOK
    <3> QED BY <1>0, <3>1, <3>2, <3>3 DEF LaunchInv, CallTypeOK
  <2>4. CASE LaunchStop(t) BY <1>0, <2>4 DEF LaunchStop, Launch, LaunchInv, Launching, CallTypeOK, taskVars
  <2>5. CASE LaunchWaited(t)
    <3>1. /\ launch[t] = "wait" /\ UNCHANGED <<current, worker, prior>>
          /\ launch' = [launch EXCEPT ![t] = "install"] /\ worker[prior[t].stop] = "done"
      BY <2>5 DEF LaunchWaited, Launch, taskVars
    <3>2. current \in {None, prior[t].stop} BY <3>1 DEF LaunchInv, Launching
    <3>3. current = None
      <4>1. SUFFICES ASSUME current # None PROVE FALSE OBVIOUS
      <4>2. current \in Tasks /\ current = prior[t].stop BY <1>0, <3>2, <4>1 DEF CallTypeOK
      <4>3. worker[current] \in Live BY <4>2 DEF LaunchInv
      <4> QED BY <3>1, <4>2, <4>3 DEF Live
    <3>4. \A u \in Tasks : Launching(u)' => Launching(u) BY <1>0, <3>1 DEF Launching, CallTypeOK
    <3> QED BY <1>0, <3>1, <3>3, <3>4 DEF LaunchInv, CallTypeOK
  <2>6. CASE LaunchInstall(t)
    <3>1. /\ launch[t] = "install" /\ launch' = [launch EXCEPT ![t] = "launched"]
          /\ current' = t /\ worker' = [worker EXCEPT ![t] = "open"] /\ UNCHANGED prior
      BY <2>6 DEF LaunchInstall, Launch, Goto
    <3>2. current = None /\ \A u \in Tasks : Launching(u) => u = t BY <3>1 DEF LaunchInv, Launching
    <3>3. \A u \in Tasks : worker[u] \notin Live \ {"ondone"} BY <3>2, PublisherAssumption DEF LaunchInv
    <3>4. \A u \in Tasks : ~Launching(u)' BY <1>0, <3>1, <3>2 DEF Launching, CallTypeOK
    <3>5. \A u \in Tasks : launch'[u] # "install" BY <3>4 DEF Launching
    <3>6. \A u \in Tasks : worker'[u] \in Live \ {"ondone"} <=> current' = u BY <1>0, <3>1, <3>3 DEF TaskTypeOK, Live
    <3> QED BY <3>4, <3>5, <3>6 DEF LaunchInv
  <2> QED BY <1>1, <2>1, <2>2, <2>3, <2>4, <2>5, <2>6 DEF LaunchStep
<1>2. ASSUME UNCHANGED <<launch, prior, current>>,
             \A u \in Tasks : worker'[u] \in Live \ {"ondone"} <=> worker[u] \in Live \ {"ondone"}
      PROVE  LaunchInv'
  BY <1>2 DEF LaunchInv, Launching
<1>3. ASSUME NEW t \in Tasks, Serve(t) \/ StreamStep(t) PROVE LaunchInv'
  <2>1. UNCHANGED <<launch, prior, current>>
    BY <1>3 DEF Serve, StreamStep, Open, FillNext, DrainHead, Dispatch, LoopStop, LoopDrain,
                LoopRequest, NextRow, NextEnd, Local, launchVars
  <2>2. \E v \in {"close", "fill", "settle", "loop", "drain", "dispatch", "next"} :
           worker[t] \in {"open", "fill", "drain", "next", "dispatch", "loop"}
           /\ worker' = [worker EXCEPT ![t] = v]
    BY <1>3 DEF Serve, StreamStep, Open, FillNext, DrainHead, Dispatch, LoopStop, LoopDrain,
                LoopRequest, NextRow, NextEnd, Goto, AfterDrain
  <2> QED BY <1>0, <1>2, <2>1, <2>2 DEF TaskTypeOK, Live
<1>4. ASSUME NEW t \in Tasks, Cleanup(t) PROVE LaunchInv'
  <2>1. CASE CloseStream(t) \/ SettleTask(t) \/ FireOnDone(t)
    BY <1>0, <1>2, <2>1 DEF CloseStream, SettleTask, FireOnDone, Goto, Local, launchVars,
                            TaskTypeOK, Live
  <2>2. CASE ClearManager(t)
    <3>1. /\ worker[t] = "clear" /\ worker' = [worker EXCEPT ![t] = "ondone"]
          /\ current' = (IF current = t THEN None ELSE current)
          /\ UNCHANGED <<launch, prior>>
      BY <2>2 DEF ClearManager, Goto
    <3>2. current = t BY <3>1 DEF LaunchInv, Live
    <3> QED BY <1>0, <3>1, <3>2, PublisherAssumption DEF LaunchInv, Launching, TaskTypeOK, Live
  <2> QED BY <1>4, <2>1, <2>2 DEF Cleanup
<1>5. ASSUME UNCHANGED <<launch, prior, current, worker>> PROVE LaunchInv' BY <1>2, <1>5
<1>6. ASSUME NEW s \in Stoppers, StopStep(s) PROVE UNCHANGED <<launch, prior, current, worker>>
  BY <1>6 DEF StopStep, StopBegin, StopRetire, StopClose, StopWaited, launchVars, taskVars
<1>7. ASSUME NEW w \in Waiters, WaiterStep(w)
      PROVE  UNCHANGED <<launch, prior, current, worker>>
  BY <1>7 DEF WaiterStep, ReadToEnd, AddWaiter, CancelWaiter, DropWaiter, launchVars, taskVars
<1>8. ASSUME ReadRows \/ UIStep \/ UIRetire \/ UNCHANGED vars
      PROVE  UNCHANGED <<launch, prior, current, worker>>
  BY <1>8 DEF ReadRows, UIStep, UIBegin, UIAppend, UICancel, UIRetire, BufferUnchanged,
              launchVars, taskVars, vars
<1> QED BY <1>1, <1>3, <1>4, <1>5, <1>6, <1>7, <1>8 DEF Next
-----------------------------------------
(* The theorems. *)

\* The invariant holds initially ...
LEMMA InitGood == Init => IInv
<1> SUFFICES ASSUME Init PROVE IInv OBVIOUS
<1>1. PublisherTypeOK /\ TaskTypeOK /\ CallTypeOK /\ (view \in [Tasks -> Seq(1..MaxRows)])
  <2>1. Idle \in Snapshots BY DEF Idle, Snapshots
  <2>2. PublisherTypeOK /\ (view \in [Tasks -> Seq(1..MaxRows)])
    <3>1. <<>> \in Seq(Publication) /\ <<>> \in Seq(1..MaxRows) BY EmptySeq
    <3>2. queue = <<>> /\ accepted = {} /\ running = None /\ retiring = FALSE
          /\ view = [t \in Tasks |-> <<>>]
      BY DEF Init, PublisherInit
    <3> QED BY <3>1, <3>2 DEF PublisherTypeOK
  <2>3. TaskTypeOK BY BufferAssumption, PublisherAssumption DEF Init, TaskTypeOK, Errors
  <2>4. CallTypeOK BY <2>1, BufferAssumption DEF Init, CallTypeOK
  <2> QED BY <2>2, <2>3, <2>4
<1>2. CompletionTypeOK /\ WaiterTypeOK BY DEF Init, CompletionTypeOK, WaiterTypeOK, Errors
<1>3. TypeOK BY <1>1, <1>2, TypeGroups
<1>4. queue = <<>> /\ accepted = {} /\ running = None /\ retiring = FALSE BY DEF Init, PublisherInit
<1>5. \A t \in Tasks : Sent(t) = 0 /\ Len(view[t]) = 0 /\ Base(t) = 0 /\ got[t] = 0 BY <1>4 DEF Init, Sent, Base
<1>6. PublisherInv /\ ViewInv BY <1>4, <1>5, FS_EmptySet DEF PublisherInv, ViewInv
<1>7. ChainInv BY <1>4, <1>5 DEF ChainInv, Init
<1>8. PendingIsExact
  <2>1. \A t : Of({}, t) = {} BY DEF Of
  <2> QED BY <1>4, <2>1, FS_EmptySet, PendingCounts DEF Init
<1>9. BatchInv /\ VerdictInv /\ ShownInv
  BY <1>5 DEF Init, BatchInv, VerdictInv, WorkerOK, VerdictOK, Settled, ShownInv, Clean
<1>10. WaiterInv BY PublisherAssumption DEF Init, WaiterInv, WaiterOK
<1>11. TargetInv /\ LaunchInv BY PublisherAssumption DEF Init, TargetInv, LaunchInv, Launching, Live
<1> QED BY <1>3, <1>6, <1>7, <1>8, <1>9, <1>10, <1>11 DEF IInv, Core, RowsInv

\* ... and every step keeps it.
LEMMA NextGood == IInv /\ [Next]_vars => IInv'
<1> SUFFICES ASSUME IInv, [Next]_vars PROVE IInv' OBVIOUS
<1>0. Good /\ TargetInv BY DEF IInv, Good
<1>1. ASSUME NEW t \in Tasks, LaunchStep(t) PROVE Good'
  BY <1>0, <1>1, CallStep, LaunchStopStep, InstallStep DEF LaunchStep
<1>2. ASSUME NEW t \in Tasks, Serve(t) PROVE Good' BY <1>0, <1>2, WorkerLocalStep, DispatchStep DEF Serve, WorkerLocal
<1>3. ASSUME NEW t \in Tasks, StreamStep(t) PROVE Good' BY <1>0, <1>3, WorkerLocalStep DEF StreamStep, WorkerLocal
<1>4. ASSUME NEW t \in Tasks, Cleanup(t) PROVE Good'
  BY <1>0, <1>4, WorkerLocalStep, SettleStep, ClearStep DEF Cleanup, WorkerLocal
<1>5. ASSUME NEW s \in Stoppers, StopStep(s) PROVE Good' BY <1>0, <1>5, CallStep, StopStopStep DEF StopStep
<1>6. ASSUME NEW w \in Waiters, WaiterStep(w) PROVE Good' BY <1>0, <1>6, WaiterStepGood
<1>7. ASSUME ReadRows PROVE Good' BY <1>0, <1>7, CallStep
<1>8. ASSUME UIStep PROVE Good' BY <1>0, <1>8, BeginStep, AppendStep, CancelStep DEF UIStep
<1>9. ASSUME UIRetire PROVE Good' BY <1>0, <1>9, DriverStep
<1>10. ASSUME UNCHANGED vars PROVE Good'
  <2>1. UNCHANGED <<taskVars, completionVars, waiterVars, stopped, view, publisherVars>> BY <1>10 DEF vars
  <2>2. CallTypeOK' BY <1>0, <1>10, TypeGroups DEF Good, CallTypeOK, vars, launchVars, stopVars
  <2> QED BY <1>0, <2>1, <2>2, CoreFrame, RestFrame, WaiterFrame, TypeGroups, TypeGroupsNext DEF Good
<1>11. Good' BY <1>1, <1>2, <1>3, <1>4, <1>5, <1>6, <1>7, <1>8, <1>9, <1>10 DEF Next
<1>12. TargetInv' /\ (SerialLaunch => LaunchInv') BY TargetStep, LaunchInvStep DEF IInv
<1> QED BY <1>11, <1>12 DEF IInv, Good

\* The inductive invariant holds of every behaviour.
THEOREM BufferInvariant == Spec => []IInv
<1> QED BY InitGood, NextGood, PTL DEF Spec

\* Every variable of the manager, its workers and the publisher keeps its type:
\* no acknowledgment takes completion.pending below zero and no batch outgrows
\* the stream.
THEOREM BufferTypeCorrect == Spec => []TypeOK
<1>1. IInv => TypeOK BY DEF IInv
<1> QED BY <1>1, BufferInvariant, PTL

\* ReadToEndWithCompletion reports success only for a result that ended cleanly
\* and whose every row is on the grid (streamCompletion.settleReady).
THEOREM SuccessTheorem == Spec => []SuccessMeansDelivered
<1>1. IInv => SuccessMeansDelivered
  <2>1. SUFFICES ASSUME IInv, NEW w \in Waiters, told[w] = <<"nil">>
                 PROVE  /\ result[asked[w]] = "eof" /\ asked[w] \in closed
                        /\ taskErr[asked[w]] = "nil"
                        /\ view[asked[w]] = [i \in 1..got[asked[w]] |-> i]
    BY DEF SuccessMeansDelivered
  <2>2. PICK t \in Tasks : asked[w] = t /\ Clean(t) BY <2>1 DEF IInv, Core, WaiterInv, WaiterOK
  <2>3. result[t] = "eof" /\ t \in closed /\ taskErr[t] = "nil"
    BY <2>1, <2>2 DEF IInv, Core, VerdictInv, VerdictOK, Clean
  <2>4. Len(view[t]) = got[t] /\ \A i \in 1..Len(view[t]) : view[t][i] = i
    BY <2>1, <2>2 DEF IInv, Core, ShownInv, RowsInv, ViewInv
  <2>5. view[t] \in [1..Len(view[t]) -> 1..MaxRows] BY <2>1, LenProperties DEF IInv, TypeOK
  <2>6. view[t] = [i \in 1..got[t] |-> i] BY <2>4, <2>5
  <2> QED BY <2>2, <2>3, <2>6
<1> QED BY <1>1, BufferInvariant, PTL

\* Every ReadToEndWithCompletion call is answered at most once, and while it is
\* registered its completion has no verdict to give (addWaiter, settleReady).
THEOREM WaitersTheorem == Spec => []WaitersServed
<1>1. IInv => WaitersServed
  <2>1. SUFFICES ASSUME IInv, NEW w \in Waiters
                 PROVE  /\ Len(told[w]) <= 1
                        /\ waiting[w] # None => told[w] = <<>> /\ ~Ready(waiting[w])
    BY DEF WaitersServed, AnsweredOnce, WaiterHasSource
  <2>2. WaiterOK(w) /\ waiting[w] \in Tasks \cup {None} BY <2>1 DEF IInv, TypeOK, Core, WaiterInv
  <2> QED BY <2>2 DEF WaiterOK
<1> QED BY <1>1, BufferInvariant, PTL

\* The grid shows a prefix of the stream in order, and completion.pending is the
\* number of unsettled publications (dispatchRows, gocuiDriver.settle).
THEOREM GridTheorem == Spec => []GridMatchesStream
<1>1. IInv => GridMatchesStream
  <2>1. SUFFICES ASSUME IInv, NEW t \in Tasks
                 PROVE  view[t] = [i \in 1..Len(view[t]) |-> i] /\ Len(view[t]) <= got[t]
    BY DEF GridMatchesStream, ViewIsPrefix, IInv, Core
  <2>2. Len(view[t]) <= Sent(t) /\ \A i \in 1..Len(view[t]) : view[t][i] = i BY <2>1 DEF IInv, Core, RowsInv, ViewInv
  <2>3. view[t] \in [1..Len(view[t]) -> 1..MaxRows] /\ Len(view[t]) \in Nat BY <2>1, LenProperties DEF IInv, TypeOK
  <2>4. got[t] \in Nat /\ batch[t] \in Nat /\ batch[t] <= got[t] BY <2>1 DEF IInv, TypeOK, Core, BatchInv
  <2>5. view[t] = [i \in 1..Len(view[t]) |-> i] BY <2>2, <2>3
  <2> QED BY <2>2, <2>3, <2>4, <2>5 DEF Sent
<1> QED BY <1>1, BufferInvariant, PTL

\* With one launcher, two workers never hold a stream at once, and the manager
\* names the one that does (NewQueryTask's hand-off).
THEOREM OneWorkerTheorem == ASSUME SerialLaunch PROVE Spec => []OneCurrentWorker
<1>1. IInv => OneCurrentWorker
  <2>1. SUFFICES ASSUME IInv PROVE OneCurrentWorker OBVIOUS
  <2>2. LaunchInv /\ current \in Tasks \cup {None} BY <2>1 DEF IInv, TypeOK
  <2>3. OneWorker BY <2>2 DEF OneWorker, HoldsStream, LaunchInv
  <2>4. CurrentIsLive BY <2>2 DEF CurrentIsLive, LaunchInv
  <2> QED BY <2>3, <2>4 DEF OneCurrentWorker
<1> QED BY <1>1, BufferInvariant, PTL
=============================================================================
