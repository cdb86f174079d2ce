---------------------------- MODULE PanelProofs -----------------------------
(***************************************************************************)
(* Proofs about the two parts of the interface that share what they show    *)
(* with others: the relationship panel with the writes that make its counts *)
(* stale, and the connection manager with other programs and a text editor. *)
(***************************************************************************)
EXTENDS RelationPanel, ConnectionManager, FiniteSetTheorems, WellFoundedInduction, TLAPS

LEMMA LeastNumber ==
    ASSUME NEW S \in SUBSET Nat, S # {}
    PROVE  \E p \in S : \A q \in S : p <= q
<1>1. PICK p \in S : \A q \in S : ~(<<q, p>> \in OpToRel(<, Nat)) BY NatLessThanWellFounded, WFMin
<1>2. \A q \in S : ~(q < p) BY <1>1 DEF OpToRel
<1> QED BY <1>2

-----------------------------------------
\* The relationship panel (RelationPanel).

PanelParts == {"open", "focused", "tab", "row", "known", "ident", "epoch", "timer", "ui", "workers", "built",
               "outbound", "inbound", "sel", "dirty", "previews", "counts", "gen", "forward", "reverse",
               "picker", "jumped", "version", "evicted", "evicting", "left"}

\* Work that a worker still has: keys of child tables, in order.
Keyed(q) == q \in Seq(Range(q)) /\ q # <<>> /\ \A k \in Range(q) : k.child \in RpChildren
\* What was started for the panel as it is.
ForPanel(s, w) == w.epoch = s.epoch /\ w.gen = s.gen /\ w.origin = s.tab /\ w.ident = s.ident[s.tab]

PanelShape(s) ==
    /\ DOMAIN s = PanelParts
    /\ s.tab \in RpTabs /\ DOMAIN s.row = RpTabs /\ DOMAIN s.ident = RpTabs
    /\ s.epoch \in Nat /\ s.gen \in Nat /\ s.timer \in {0, s.epoch} /\ s.sel \in Int
\* Every eviction under way, and every one done, is of a write that was made.
VersionsFit(s) ==
    /\ DOMAIN s.version = RpChildren /\ DOMAIN s.evicted = RpChildren
    /\ \A c \in RpChildren : s.version[c] \in Nat /\ s.evicted[c] \in Nat /\ s.evicted[c] <= s.version[c]
    /\ \A e \in s.evicting : e.child \in RpChildren /\ e.version \in Nat /\ e.version <= s.version[e.child]
InboundKey(r) == r.key = {} \/ \E k : r.key = {k} /\ k.child \in RpChildren
ListsFit(s) ==
    /\ s.outbound \in Seq(Range(s.outbound)) /\ s.inbound \in Seq(Range(s.inbound))
    /\ \A i \in DOMAIN s.inbound : InboundKey(s.inbound[i])
WorkerFields == {"kind", "epoch", "gen", "origin", "ident", "todo"}
WorkFits(s) ==
    \A w \in s.workers :
        /\ DOMAIN w = WorkerFields
        /\ w.kind \in {"preview", "estimate", "exact"} /\ w.gen \in Nat /\ w.gen <= s.gen
        /\ w.kind # "preview" => Keyed(w.todo)
\* An answer of the present count generation was read after every eviction done.
JobFits(s, j) ==
    /\ j.kind \in {"repaint", "estimate", "exact"}
    /\ j.kind # "repaint" =>
         /\ j.gen \in Nat /\ j.gen <= s.gen /\ j.key.child \in RpChildren
         /\ j.got = Failed \/ (j.got \in Nat /\ (j.gen = s.gen => j.got >= s.evicted[j.key.child]))
JobsFit(s) == \A j \in s.ui : JobFits(s, j)
CountFits(s, k, v) == v \in {Unread, Failed} \/ (v \in Nat /\ v >= s.evicted[k.child])
CountsFit(s) ==
    \A k \in DOMAIN s.counts :
        /\ k.child \in RpChildren /\ DOMAIN s.counts[k] = {"est", "exact"}
        /\ CountFits(s, k, s.counts[k].est) /\ CountFits(s, k, s.counts[k].exact)
        /\ s.counts[k].est # Unread \/ s.counts[k].exact # Unread
JumpFits(s) == ~s.jumped.owed => s.jumped.args = s.jumped.entry
PanelBase(s) ==
    PanelShape(s) /\ VersionsFit(s) /\ ListsFit(s) /\ WorkFits(s) /\ JobsFit(s) /\ CountsFit(s) /\ JumpFits(s)

PaintFits(s) == s.open => Owed(s) \/ s.built = here(s)
\* A listed key without a count is with a worker, or its count with the main loop.
OnItsWay(s, k) ==
    \/ (\E w \in s.workers : w.kind = "estimate" /\ ForPanel(s, w) /\ k \in Range(w.todo))
    \/ (\E j \in s.ui : j.kind = "estimate" /\ ForPanel(s, j) /\ j.key = k)
FillFits(s) ==
    s.open /\ ~Owed(s) /\ ~s.dirty =>
        \A i \in DOMAIN s.inbound : \A k \in s.inbound[i].key : k \in DOMAIN s.counts \/ OnItsWay(s, k)
PanelOK(s) == PanelBase(s) /\ PaintFits(s) /\ FillFits(s)

\* A panel that differs from another in the parts F alone.
Redraws(s, r, F) == DOMAIN r = PanelParts /\ \A f \in PanelParts \ F : r[f] = s[f]

LEMMA BaseKept ==
    ASSUME NEW s, NEW r, NEW F, PanelBase(s), Redraws(s, r, F)
    PROVE  /\ "version" \notin F /\ "evicted" \notin F /\ "evicting" \notin F => VersionsFit(r)
           /\ "outbound" \notin F /\ "inbound" \notin F => ListsFit(r)
           /\ "workers" \notin F /\ "gen" \notin F => WorkFits(r)
           /\ "ui" \notin F /\ "gen" \notin F /\ "evicted" \notin F => JobsFit(r)
           /\ "counts" \notin F /\ "evicted" \notin F => CountsFit(r)
           /\ "jumped" \notin F => JumpFits(r)
<1>1. ASSUME "version" \notin F, "evicted" \notin F, "evicting" \notin F PROVE VersionsFit(r)
  <2>1. r.version = s.version /\ r.evicted = s.evicted /\ r.evicting = s.evicting BY <1>1 DEF Redraws, PanelParts
  <2> QED BY <2>1 DEF PanelBase, VersionsFit
<1>2. ASSUME "outbound" \notin F, "inbound" \notin F PROVE ListsFit(r)
  <2>1. r.outbound = s.outbound /\ r.inbound = s.inbound BY <1>2 DEF Redraws, PanelParts
  <2> QED BY <2>1 DEF PanelBase, ListsFit
<1>3. ASSUME "workers" \notin F, "gen" \notin F PROVE WorkFits(r)
  <2>1. r.workers = s.workers /\ r.gen = s.gen BY <1>3 DEF Redraws, PanelParts
  <2> QED BY <2>1 DEF PanelBase, WorkFits
<1>4. ASSUME "ui" \notin F, "gen" \notin F, "evicted" \notin F PROVE JobsFit(r)
  <2>1. r.ui = s.ui /\ r.gen = s.gen /\ r.evicted = s.evicted BY <1>4 DEF Redraws, PanelParts
  <2> QED BY <2>1 DEF PanelBase, JobsFit, JobFits
<1>5. ASSUME "counts" \notin F, "evicted" \notin F PROVE CountsFit(r)
  <2>1. r.counts = s.counts /\ r.evicted = s.evicted BY <1>5 DEF Redraws, PanelParts
  <2> QED BY <2>1 DEF PanelBase, CountsFit, CountFits
<1>6. ASSUME "jumped" \notin F PROVE JumpFits(r)
  <2>1. r.jumped = s.jumped BY <1>6 DEF Redraws, PanelParts
  <2> QED BY <2>1 DEF PanelBase, JumpFits
<1> QED BY <1>1, <1>2, <1>3, <1>4, <1>5, <1>6

\* Whether a repaint is owed, and what a jump needs, depends on few parts.
LEMMA OwedKept ==
    ASSUME NEW s, NEW r, NEW F, PanelBase(s), Redraws(s, r, F)
    PROVE  /\ "timer" \notin F /\ "ui" \notin F /\ "epoch" \notin F => (Owed(r) <=> Owed(s))
           /\ "tab" \notin F /\ "row" \notin F => here(r) = here(s)
<1>1. ASSUME "timer" \notin F, "ui" \notin F, "epoch" \notin F PROVE Owed(r) <=> Owed(s)
  <2>1. r.timer = s.timer /\ r.ui = s.ui /\ r.epoch = s.epoch BY <1>1 DEF Redraws, PanelParts
  <2> QED BY <2>1 DEF Owed
<1>2. ASSUME "tab" \notin F, "row" \notin F PROVE here(r) = here(s)
  <2>1. r.tab = s.tab /\ r.row = s.row BY <1>2 DEF Redraws, PanelParts
  <2> QED BY <2>1 DEF here, cursorRow
<1> QED BY <1>1, <1>2

\* A step that touches none of the parts that the lists of the panel are about.
LEMMA IdleKeeps ==
    ASSUME NEW s, NEW r, PanelOK(s), PanelShape(r),
           Redraws(s, r, {"focused", "sel", "known", "previews", "forward", "reverse", "picker", "version",
                          "evicting", "left", "jumped"}),
           VersionsFit(r), JumpFits(r)
    PROVE  PanelOK(r)
<1> DEFINE F == {"focused", "sel", "known", "previews", "forward", "reverse", "picker", "version",
                 "evicting", "left", "jumped"}
<1>1. PanelBase(r) BY BaseKept DEF PanelBase, PanelOK
<1>2. (Owed(r) <=> Owed(s)) /\ here(r) = here(s) BY OwedKept DEF PanelOK
<1>3. /\ r.open = s.open /\ r.built = s.built /\ r.dirty = s.dirty /\ r.inbound = s.inbound /\ r.counts = s.counts
      /\ r.workers = s.workers /\ r.ui = s.ui /\ r.epoch = s.epoch /\ r.gen = s.gen /\ r.tab = s.tab /\ r.ident = s.ident
  BY DEF Redraws, PanelParts
<1>4. PaintFits(r) BY <1>2, <1>3 DEF PanelOK, PaintFits
<1>5. FillFits(r) BY <1>2, <1>3 DEF PanelOK, FillFits, OnItsWay, ForPanel
<1> QED BY <1>1, <1>4, <1>5 DEF PanelOK

\* A closed panel, or one that owes a repaint, has nothing to be right about.
LEMMA OwingIsFine ==
    ASSUME NEW s, PanelBase(s), s.open => Owed(s)
    PROVE  PanelOK(s)
  BY DEF PanelOK, PaintFits, FillFits

\* The keys that are to be asked for, as the function of a length that pending is.
PendingUpTo(rels, cached, n, q) ==
    q = [m \in 0..n |-> IF m = 0 THEN <<>>
                        ELSE IF rels[m].key \subseteq cached THEN q[m - 1]
                        ELSE Append(q[m - 1], CHOOSE k \in rels[m].key : TRUE)]

\* It exists for every length: the shortest for which it did not would extend one.
LEMMA PendingExists ==
    ASSUME NEW rels, NEW cached, NEW n \in Nat
    PROVE  \E q : PendingUpTo(rels, cached, n, q)
<1> DEFINE Bad == {k \in Nat : ~ \E f : PendingUpTo(rels, cached, k, f)}
           more(f, k) == IF rels[k].key \subseteq cached THEN f[k - 1]
                         ELSE Append(f[k - 1], CHOOSE x \in rels[k].key : TRUE)
<1> SUFFICES ASSUME Bad # {} PROVE FALSE OBVIOUS
<1>1. PICK k \in Bad : \A j \in Bad : k <= j BY LeastNumber
<1>2. CASE k = 0
  <2> DEFINE f == [j \in 0..0 |-> <<>>]
  <2>1. f = [j \in 0..0 |-> IF j = 0 THEN <<>> ELSE more(f, j)] OBVIOUS
  <2>2. PendingUpTo(rels, cached, 0, f) BY <2>1 DEF PendingUpTo
  <2> QED BY <1>1, <1>2, <2>2
<1>3. CASE k # 0
  <2>1. k - 1 \in Nat /\ k \in Nat /\ ~(k <= k - 1) BY <1>1, <1>3
  <2>2. PICK f : PendingUpTo(rels, cached, k - 1, f) BY <1>1, <2>1
  <2> DEFINE h == [j \in 0..k |-> IF j = k THEN more(f, k) ELSE f[j]]
  <2>3. ASSUME NEW j \in 0..(k - 1) PROVE f[j] = IF j = 0 THEN <<>> ELSE more(f, j) BY <2>1, <2>2, <2>3 DEF PendingUpTo
  <2>4. ASSUME NEW j \in 0..k PROVE h[j] = IF j = 0 THEN <<>> ELSE more(h, j)
    <3>1. CASE j = k
      <4>1. h[j] = more(f, k) /\ h[k - 1] = f[k - 1] BY <2>1, <3>1
      <4> QED BY <1>3, <3>1, <4>1
    <3>2. CASE j # k
      <4>1. h[j] = f[j] /\ j \in 0..(k - 1) /\ (j # 0 => h[j - 1] = f[j - 1]) BY <2>1, <2>4, <3>2
      <4> QED BY <2>3, <4>1
    <3> QED BY <3>1, <3>2
  <2>5. h = [j \in 0..k |-> h[j]] OBVIOUS
  <2> HIDE DEF h
  <2>6. h = [j \in 0..k |-> IF j = 0 THEN <<>> ELSE more(h, j)] BY <2>4, <2>5
  <2>7. PendingUpTo(rels, cached, k, h) BY <2>6 DEF PendingUpTo
  <2> QED BY <1>1, <2>7
<1> QED BY <1>2, <1>3

\* A sequence of keys, extended by one.
LEMMA AppendRange ==
    ASSUME NEW q, q \in Seq(Range(q)), NEW x
    PROVE  Append(q, x) \in Seq(Range(Append(q, x))) /\ Range(Append(q, x)) = Range(q) \cup {x}
<1> DEFINE a == Append(q, x)
<1>1. q \in Seq(Range(q) \cup {x}) /\ Len(q) \in Nat BY DEF Range
<1>2. /\ a \in Seq(Range(q) \cup {x}) /\ Len(a) = Len(q) + 1 /\ a[Len(q) + 1] = x
      /\ \A i \in 1..Len(q) : a[i] = q[i]
  BY <1>1
<1>3. DOMAIN a = 1..(Len(q) + 1) /\ DOMAIN q = 1..Len(q) BY <1>1, <1>2
<1> HIDE DEF a
<1>4. Range(a) = Range(q) \cup {x} BY <1>1, <1>2, <1>3 DEF Range
<1> QED BY <1>2, <1>4 DEF a

\* What is pending: the keys of the relationships that the cache lacks, all of child tables.
LEMMA MissingKeys ==
    ASSUME NEW rels, NEW cached, rels \in Seq(Range(rels)), \A i \in DOMAIN rels : InboundKey(rels[i])
    PROVE  LET q == missing(rels, cached) IN
           /\ q = <<>> \/ Keyed(q)
           /\ \A i \in DOMAIN rels : \A k \in rels[i].key : k \notin cached => k \in Range(q)
<1> DEFINE n == Len(rels)
           q == pending(rels, cached)
<1>1. n \in Nat /\ DOMAIN rels = 1..n OBVIOUS
<1>2. PendingUpTo(rels, cached, n, q)
  <2>1. q = CHOOSE f : PendingUpTo(rels, cached, n, f) BY DEF pending, PendingUpTo
  <2> QED BY <1>1, <2>1, PendingExists
<1> HIDE DEF n, q
<1> DEFINE Good(m) == /\ q[m] \in Seq(Range(q[m])) /\ \A k \in Range(q[m]) : k.child \in RpChildren
                      /\ \A i \in 1..m : \A k \in rels[i].key : k \notin cached => k \in Range(q[m])
<1>3. ASSUME NEW m \in 0..n
      PROVE  q[m] = IF m = 0 THEN <<>> ELSE IF rels[m].key \subseteq cached THEN q[m - 1]
                    ELSE Append(q[m - 1], CHOOSE k \in rels[m].key : TRUE)
  BY <1>1, <1>2, <1>3 DEF PendingUpTo
<1>4. ASSUME NEW m \in 0..n, m # 0 => Good(m - 1) PROVE Good(m)
  <2>1. CASE m = 0
    <3>1. q[m] = <<>> BY <1>3, <2>1
    <3> QED BY <2>1, <3>1 DEF Range
  <2>2. CASE m # 0
    <3>1. m - 1 \in 0..n /\ m \in 1..n /\ m \in DOMAIN rels /\ \A i \in 1..m : i = m \/ i \in 1..(m - 1) BY <1>1, <2>2
    <3>2. Good(m - 1) BY <1>4, <2>2
    <3>3. CASE rels[m].key \subseteq cached
      <4>1. q[m] = q[m - 1] BY <1>3, <2>2, <3>3
      <4> QED BY <3>1, <3>2, <3>3, <4>1
    <3>4. CASE ~(rels[m].key \subseteq cached)
      <4>1. PICK k : rels[m].key = {k} /\ k.child \in RpChildren BY <3>1, <3>4 DEF InboundKey
      <4>2. q[m] = Append(q[m - 1], k) BY <1>3, <2>2, <3>4, <4>1
      <4>3. q[m] \in Seq(Range(q[m])) /\ Range(q[m]) = Range(q[m - 1]) \cup {k} BY <3>2, <4>2, AppendRange
      <4> QED BY <3>1, <3>2, <4>1, <4>3
    <3> QED BY <3>3, <3>4
  <2> QED BY <2>1, <2>2
<1> HIDE DEF Good
<1>5. Good(n)
  <2> DEFINE Bad == {m \in 0..n : ~Good(m)}
  <2> SUFFICES ASSUME Bad # {} PROVE FALSE BY <1>1
  <2>0. Bad \in SUBSET Nat BY <1>1
  <2>1. PICK m \in Bad : \A j \in Bad : m <= j
    <3> HIDE DEF Bad
    <3> QED BY <2>0, LeastNumber
  <2>2. m # 0 => m - 1 \in 0..n /\ ~(m <= m - 1) BY <1>1
  <2>3. m # 0 => Good(m - 1) BY <2>1, <2>2
  <2> QED BY <1>4, <2>1, <2>3
<1>6. missing(rels, cached) = q[n] BY DEF missing, q, n
<1> QED BY <1>1, <1>5, <1>6 DEF Good, Keyed

\* The rest of a worker's keys, once the first has been taken.
LEMMA TailKeyed ==
    ASSUME NEW q, Keyed(q)
    PROVE  /\ Head(q).child \in RpChildren /\ Head(q) \in Range(q)
           /\ Tail(q) = <<>> \/ Keyed(Tail(q))
           /\ \A k \in Range(q) : k = Head(q) \/ (Tail(q) # <<>> /\ k \in Range(Tail(q)))
<1> DEFINE t == Tail(q)
<1>1. q \in Seq(Range(q)) /\ Len(q) \in Nat /\ Len(q) # 0 /\ DOMAIN q = 1..Len(q) BY DEF Keyed
<1>2. /\ Head(q) = q[1] /\ t \in Seq(Range(q)) /\ Len(t) = Len(q) - 1
      /\ \A i \in 1..(Len(q) - 1) : t[i] = q[i + 1]
  BY <1>1
<1>3. DOMAIN t = 1..(Len(q) - 1) BY <1>1, <1>2
<1>4. t = <<>> \/ t # <<>> OBVIOUS
<1>5. ASSUME NEW i \in 2..Len(q) PROVE t # <<>> /\ q[i] \in Range(t)
  <2>1. i - 1 \in 1..(Len(q) - 1) /\ t[i - 1] = q[i] BY <1>1, <1>2
  <2>2. t # <<>> BY <1>3, <2>1
  <2> HIDE DEF t
  <2> QED BY <1>3, <2>1, <2>2 DEF Range
<1> HIDE DEF t
<1>6. Range(t) \subseteq Range(q)
  <2>1. ASSUME NEW i \in DOMAIN t PROVE t[i] \in Range(q)
    <3>1. i \in 1..(Len(q) - 1) /\ i + 1 \in 1..Len(q) /\ t[i] = q[i + 1] BY <1>1, <1>2, <1>3
    <3> QED BY <1>1, <3>1 DEF Range
  <2> QED BY <2>1 DEF Range
<1>7. t \in Seq(Range(t))
  <2>1. \A i \in 1..Len(t) : t[i] \in Range(t) BY <1>1, <1>2, <1>3 DEF Range
  <2> QED BY <1>2, <2>1
<1>8. Head(q) \in Range(q) BY <1>1, <1>2 DEF Range
<1>9. \A k \in Range(q) : k = Head(q) \/ (t # <<>> /\ k \in Range(t))
  <2> TAKE k \in Range(q)
  <2>1. PICK i \in 1..Len(q) : k = q[i] BY <1>1 DEF Range
  <2>2. CASE i = 1 BY <1>2, <2>1, <2>2
  <2>3. CASE i # 1 BY <1>5, <2>1, <2>3
  <2> QED BY <2>2, <2>3
<1> QED BY <1>6, <1>7, <1>8, <1>9 DEF Keyed, t

\* A worker that starts disturbs nothing, and takes its keys.
LEMMA LaunchKeeps ==
    ASSUME NEW s, PanelBase(s), NEW kind \in {"preview", "estimate", "exact"}, NEW todo,
           kind # "preview" => (todo = <<>> \/ Keyed(todo))
    PROVE  LET r == launchCount(s, fill(s, kind, todo)) IN
           /\ PanelBase(r) /\ Redraws(s, r, {"workers"})
           /\ \A w \in s.workers : w \in r.workers
           /\ kind = "estimate" => \A k \in Range(todo) : todo = <<>> \/ OnItsWay(r, k)
<1> DEFINE w == fill(s, kind, todo)
           r == launchCount(s, w)
<1>1. /\ w.kind = kind /\ w.epoch = s.epoch /\ w.gen = s.gen /\ w.origin = s.tab /\ w.ident = s.ident[s.tab]
      /\ w.todo = todo /\ DOMAIN w = WorkerFields
  BY DEF fill, WorkerFields
<1>2. r = IF todo = <<>> THEN s ELSE [s EXCEPT !.workers = @ \cup {w}] BY <1>1 DEF launchCount
<1> HIDE DEF w, r
<1>3. DOMAIN s = PanelParts /\ s.gen \in Nat BY DEF PanelBase, PanelShape
<1>4. CASE todo = <<>>
  <2>1. r = s BY <1>2, <1>4
  <2> QED BY <1>3, <1>4, <2>1 DEF Redraws, w, r
<1>5. CASE todo # <<>>
  <2>1. Redraws(s, r, {"workers"}) /\ r.workers = s.workers \cup {w} BY <1>2, <1>3, <1>5 DEF Redraws, PanelParts
  <2>2. WorkFits(r)
    <3>1. r.gen = s.gen BY <2>1 DEF Redraws, PanelParts
    <3> QED BY <1>1, <1>3, <1>5, <2>1, <3>1 DEF PanelBase, WorkFits
  <2>3. PanelShape(r) BY <2>1 DEF Redraws, PanelParts, PanelBase, PanelShape
  <2>4. PanelBase(r) BY <2>1, <2>2, <2>3, BaseKept DEF PanelBase
  <2>5. r.epoch = s.epoch /\ r.gen = s.gen /\ r.tab = s.tab /\ r.ident = s.ident BY <2>1 DEF Redraws, PanelParts
  <2>6. kind = "estimate" => \A k \in Range(todo) : OnItsWay(r, k) BY <1>1, <2>1, <2>5 DEF OnItsWay, ForPanel
  <2> QED BY <2>1, <2>4, <2>6 DEF w, r
<1> QED BY <1>4, <1>5

\* The fills a repaint starts: every listed key is counted or on its way.
LEMMA FillsStart ==
    ASSUME NEW s, PanelBase(s)
    PROVE  LET r == startFills(s) IN
           /\ PanelBase(r) /\ Redraws(s, r, {"workers"})
           /\ \A i \in DOMAIN r.inbound : \A k \in r.inbound[i].key : k \in DOMAIN r.counts \/ OnItsWay(r, k)
<1> DEFINE p == startPreviewFill(s)
           q == missing(p.inbound, DOMAIN p.counts)
           r == startEstimateFill(p)
<1>1. PanelBase(p) /\ Redraws(s, p, {"workers"}) BY LaunchKeeps DEF startPreviewFill
<1> HIDE DEF p
<1>2. /\ q = <<>> \/ Keyed(q)
      /\ \A i \in DOMAIN p.inbound : \A k \in p.inbound[i].key : k \notin DOMAIN p.counts => k \in Range(q)
  BY <1>1, MissingKeys DEF PanelBase, ListsFit
<1>3. r = launchCount(p, fill(p, "estimate", q)) BY DEF startEstimateFill
<1> HIDE DEF q, r
<1>4. /\ PanelBase(r) /\ Redraws(p, r, {"workers"})
      /\ \A k \in Range(q) : q = <<>> \/ OnItsWay(r, k)
  BY <1>1, <1>2, <1>3, LaunchKeeps
<1>5. Redraws(s, r, {"workers"}) BY <1>1, <1>4 DEF Redraws
<1>6. r.inbound = p.inbound /\ r.counts = p.counts BY <1>4 DEF Redraws, PanelParts
<1>7. Range(<<>>) = {} BY DEF Range
<1>8. \A k \in Range(q) : OnItsWay(r, k) BY <1>4, <1>7
<1>9. startFills(s) = r BY DEF startFills, r, p
<1> QED BY <1>2, <1>4, <1>5, <1>6, <1>8, <1>9

\* The lists of a table's keys.
LEMMA ListedKeys ==
    ASSUME NEW fks, fks \in Seq(Range(fks))
    PROVE  LET l == listed(fks) IN
           l \in Seq(Range(fks)) /\ DOMAIN l = 1..Len(l) /\ Len(l) \in Nat
                                 /\ \A i \in DOMAIN l : i \in DOMAIN fks /\ l[i] = fks[i]
<1> DEFINE n == IF Len(fks) > RpMaxRels THEN RpMaxRels ELSE Len(fks)
<1>1. Len(fks) \in Nat /\ DOMAIN fks = 1..Len(fks) /\ n \in Nat /\ n <= Len(fks) BY RelationAssumption
<1> HIDE DEF n
<1>2. SubSeq(fks, 1, n) = [i \in 1..n |-> fks[i]] BY <1>1
<1>3. \A i \in 1..n : fks[i] \in Range(fks) BY <1>1 DEF Range
<1>4. listed(fks) = SubSeq(fks, 1, n) BY DEF listed, n
<1>5. listed(fks) \in Seq(Range(fks)) /\ Len(listed(fks)) = n BY <1>1, <1>2, <1>3, <1>4
<1> QED BY <1>1, <1>2, <1>4, <1>5

LEMMA MappedSeq ==
    ASSUME NEW n \in Nat, NEW f, DOMAIN f = 1..n, f = [i \in 1..n |-> f[i]]
    PROVE  f \in Seq(Range(f)) /\ Len(f) = n
<1>1. \A i \in 1..n : f[i] \in Range(f) BY DEF Range
<1> QED BY <1>1

LEMMA InboundLists ==
    ASSUME NEW fks, NEW cells, fks \in Seq(Range(fks)), \A fk \in Range(fks) : fk.child \in RpChildren
    PROVE  LET l == inboundRels(fks, cells) IN l \in Seq(Range(l)) /\ \A i \in DOMAIN l : InboundKey(l[i])
<1> DEFINE l == inboundRels(fks, cells)
           n == Len(listed(fks))
<1>1. n \in Nat /\ DOMAIN listed(fks) = 1..n /\ \A i \in 1..n : i \in DOMAIN fks BY ListedKeys
<1>2. l = [i \in 1..n |-> buildInboundRel(fks[i], cells)] BY <1>1 DEF inboundRels
<1> HIDE DEF n, l
<1>3. l \in Seq(Range(l)) /\ DOMAIN l = 1..n BY <1>1, <1>2, MappedSeq
<1>4. ASSUME NEW i \in 1..n PROVE InboundKey(l[i])
  <2>1. fks[i] \in Range(fks) BY <1>1 DEF Range
  <2>2. fks[i].child \in RpChildren /\ l[i] = buildInboundRel(fks[i], cells) BY <1>2, <2>1
  <2> QED BY <2>2 DEF InboundKey, buildInboundRel, estimateCacheKey
<1> QED BY <1>3, <1>4 DEF l

LEMMA OutboundLists ==
    ASSUME NEW fks, NEW cells, fks \in Seq(Range(fks))
    PROVE  LET l == outboundRels(fks, cells) IN l \in Seq(Range(l))
<1> DEFINE l == outboundRels(fks, cells)
           n == Len(listed(fks))
<1>1. n \in Nat /\ DOMAIN listed(fks) = 1..n BY ListedKeys
<1>2. l = [i \in 1..n |-> buildOutboundRel(fks[i], cells)] BY <1>1 DEF outboundRels
<1> HIDE DEF n, l
<1>3. l \in Seq(Range(l)) BY <1>1, <1>2, MappedSeq
<1> QED BY <1>3 DEF l

\* A lookup answers with the keys of the table, or with none.
LEMMA ReverseFound ==
    ASSUME NEW s, NEW t \in RpTabs, NEW f \in lookupReverseFK(s, RpTable[t])
    PROVE  f.fks \in Seq(Range(f.fks)) /\ \A fk \in Range(f.fks) : fk.child \in RpChildren
<1>1. f.fks = RpReverse[RpTable[t]] \/ f.fks = <<>> BY DEF lookupReverseFK, FKGet
<1>2. RpTable[t] \in DOMAIN RpReverse BY RelationAssumption
<1>3. \A fk \in Range(RpReverse[RpTable[t]]) : fk.child \in RpChildren BY <1>2 DEF RpChildren
<1>4. Range(<<>>) = {} /\ <<>> \in Seq(Range(<<>>)) BY DEF Range
<1> QED BY <1>1, <1>2, <1>3, <1>4, RelationAssumption

LEMMA ForwardFound ==
    ASSUME NEW s, NEW t \in RpTabs, NEW f \in lookupForwardFK(s, RpTable[t])
    PROVE  f.fks \in Seq(Range(f.fks))
<1>1. f.fks = RpForward[RpTable[t]] \/ f.fks = <<>> BY DEF lookupForwardFK, FKGet
<1>2. RpTable[t] \in DOMAIN RpForward BY RelationAssumption
<1>4. Range(<<>>) = {} /\ <<>> \in Seq(Range(<<>>)) BY DEF Range
<1> QED BY <1>1, <1>2, <1>4, RelationAssumption

\* A rebuilt panel lists the row under the cursor.
LEMMA RebuildTruth ==
    ASSUME NEW s, PanelBase(s), NEW b \in rebuildOutbound(s)
    PROVE  /\ PanelBase(b)
           /\ Redraws(s, b, {"outbound", "inbound", "sel", "dirty", "built", "forward", "reverse"})
           /\ b.built = here(b)
<1> DEFINE blank == unlisted(s)
           F == {"outbound", "inbound", "sel", "dirty", "built", "forward", "reverse"}
           cells == rowSnapshot(s)
           t == splitBaseTable(s, s.tab)
<1>1. DOMAIN s = PanelParts /\ s.tab \in RpTabs BY DEF PanelBase, PanelShape
<1>2. Redraws(s, blank, F) /\ blank.outbound = <<>> /\ blank.inbound = <<>> /\ blank.sel = 0 /\ blank.built = here(s)
  BY <1>1 DEF Redraws, PanelParts, unlisted
<1>3. b = blank \/ \E f \in lookupForwardFK(s, t), r \in lookupReverseFK(s, t) : t # RpNone /\ b = relisted(s, f, r)
  <2>1. b \in IF t = RpNone THEN {blank}
              ELSE {relisted(s, f, r) : f \in lookupForwardFK(s, t), r \in lookupReverseFK(s, t)}
    BY DEF rebuildOutbound
  <2> HIDE DEF t, blank, cells
  <2> QED BY <2>1
<1> HIDE DEF blank, cells
<1>4. Range(<<>>) = {} /\ <<>> \in Seq({}) /\ DOMAIN <<>> = {} BY DEF Range
<1>5. ListsFit(b) /\ Redraws(s, b, F) /\ b.sel = 0 /\ b.built = here(s)
  <2>1. CASE b = blank BY <1>2, <1>4, <2>1 DEF ListsFit
  <2>2. CASE b # blank
    <3>1. PICK f \in lookupForwardFK(s, RpTable[s.tab]), r \in lookupReverseFK(s, RpTable[s.tab]) :
             b = relisted(s, f, r)
      <4>1. t # RpNone BY <1>3, <2>2
      <4>2. t = RpTable[s.tab] BY <4>1 DEF splitBaseTable
      <4> HIDE DEF t
      <4> QED BY <1>3, <2>2, <4>2
    <3> DEFINE out == outboundRels(f.fks, cells)
               in == IF s.tab \in RpKeyed THEN inboundRels(r.fks, cells) ELSE <<>>
    <3>2. out \in Seq(Range(out)) BY <1>1, ForwardFound, OutboundLists
    <3>3. in \in Seq(Range(in)) /\ \A i \in DOMAIN in : InboundKey(in[i])
      <4>1. CASE s.tab \in RpKeyed
        <5>1. r.fks \in Seq(Range(r.fks)) /\ \A fk \in Range(r.fks) : fk.child \in RpChildren BY <1>1, ReverseFound
        <5> QED BY <4>1, <5>1, InboundLists
      <4>2. CASE s.tab \notin RpKeyed BY <1>4, <4>2
      <4> QED BY <4>1, <4>2
    <3> HIDE DEF out, in
    <3>4. b = [blank EXCEPT !.outbound = out, !.forward = f.cache, !.inbound = in,
                            !.reverse = IF s.tab \in RpKeyed THEN r.cache ELSE s.reverse]
      BY <3>1 DEF out, in, relisted, blank, cells
    <3>5. DOMAIN blank = PanelParts /\ DOMAIN b = PanelParts BY <1>2, <3>4 DEF Redraws
    <3>6. b.outbound = out /\ b.inbound = in /\ b.sel = blank.sel /\ b.built = blank.built BY <3>4, <3>5 DEF PanelParts
    <3>7. \A g \in PanelParts \ F : b[g] = blank[g] BY <3>4, <3>5 DEF PanelParts
    <3> QED BY <1>2, <3>2, <3>3, <3>5, <3>6, <3>7 DEF ListsFit, Redraws
  <2> QED BY <2>1, <2>2
<1>6. PanelShape(b)
  <2>1. /\ b.tab = s.tab /\ b.row = s.row /\ b.ident = s.ident /\ b.epoch = s.epoch /\ b.gen = s.gen
        /\ b.timer = s.timer /\ DOMAIN b = PanelParts
    BY <1>5 DEF Redraws, PanelParts
  <2>2. PanelShape(s) BY DEF PanelBase
  <2>3. b.sel \in Int BY <1>5
  <2> QED BY <2>1, <2>2, <2>3 DEF PanelShape
<1>7. here(b) = here(s) BY <1>5, OwedKept
<1>8. PanelBase(b) BY <1>5, <1>6, BaseKept DEF PanelBase
<1> QED BY <1>5, <1>7, <1>8

\* Rebuilt and its fills started, the panel keeps all its promises; closed or open.
LEMMA RepaintKeeps ==
    ASSUME NEW s, PanelBase(s), NEW b \in rebuildOutbound(s)
    PROVE  PanelOK(startFills(b)) /\ PanelOK(startFills([b EXCEPT !.open = TRUE]))
<1>1. PanelBase(b) /\ b.built = here(b) /\ DOMAIN b = PanelParts BY RebuildTruth DEF PanelBase, PanelShape
<1> DEFINE c == [b EXCEPT !.open = TRUE]
<1>2. Redraws(b, c, {"open"}) /\ c.open = TRUE BY <1>1 DEF Redraws, PanelParts
<1> HIDE DEF c
<1>3. PanelShape(c) BY <1>1, <1>2 DEF Redraws, PanelParts, PanelBase, PanelShape
<1>4. PanelBase(c) /\ c.built = here(c)
  <2>1. c.built = b.built BY <1>2 DEF Redraws, PanelParts
  <2>2. here(c) = here(b) BY <1>1, <1>2, OwedKept
  <2> QED BY <1>1, <1>2, <1>3, <2>1, <2>2, BaseKept DEF PanelBase
<1>5. ASSUME NEW d, PanelBase(d), d.built = here(d) PROVE PanelOK(startFills(d))
  <2> DEFINE r == startFills(d)
  <2>1. /\ PanelBase(r) /\ Redraws(d, r, {"workers"})
        /\ \A i \in DOMAIN r.inbound : \A k \in r.inbound[i].key : k \in DOMAIN r.counts \/ OnItsWay(r, k)
    BY <1>5, FillsStart
  <2> HIDE DEF r
  <2>2. here(r) = here(d) BY <1>5, <2>1, OwedKept
  <2>4. r.built = d.built BY <2>1 DEF Redraws, PanelParts
  <2>3. PanelOK(r) BY <1>5, <2>1, <2>2, <2>4 DEF PanelOK, PaintFits, FillFits
  <2> QED BY <2>3 DEF r
<1> QED BY <1>1, <1>4, <1>5 DEF c

\* Asking for a repaint of the present epoch.
LEMMA RepaintAsked ==
    ASSUME NEW s, PanelBase(s)
    PROVE  LET r == repaint(s, s.epoch) IN PanelBase(r) /\ Redraws(s, r, {"ui"}) /\ Owed(r)
<1> DEFINE j == [kind |-> "repaint", epoch |-> s.epoch]
           r == [s EXCEPT !.ui = @ \cup {j}]
<1>1. repaint(s, s.epoch) = r BY DEF repaint
<1>2. DOMAIN s = PanelParts BY DEF PanelBase, PanelShape
<1>3. Redraws(s, r, {"ui"}) /\ r.ui = s.ui \cup {j} BY <1>2 DEF Redraws, PanelParts
<1>4. j.kind = "repaint" /\ j.epoch = s.epoch OBVIOUS
<1> HIDE DEF j, r
<1>5. r.epoch = s.epoch /\ r.gen = s.gen /\ r.evicted = s.evicted BY <1>3 DEF Redraws, PanelParts
<1>6. JobsFit(r) BY <1>3, <1>4, <1>5 DEF PanelBase, JobsFit, JobFits
<1>7. PanelShape(r) BY <1>3 DEF Redraws, PanelParts, PanelBase, PanelShape
<1>8. PanelBase(r) BY <1>3, <1>6, <1>7, BaseKept DEF PanelBase
<1>9. Owed(r) BY <1>3, <1>4, <1>5 DEF Owed
<1> QED BY <1>1, <1>3, <1>8, <1>9

\* Both notifications leave a panel that is closed or owes a repaint.
LEMMA CursorNotified ==
    ASSUME NEW s, PanelBase(s)
    PROVE  PanelOK(NotifyCursorChange(s))
<1> DEFINE r == NotifyCursorChange(s)
<1>1. CASE s.open
  <2>1. r = [s EXCEPT !.epoch = @ + 1, !.timer = s.epoch + 1] BY <1>1 DEF NotifyCursorChange
  <2>2. DOMAIN s = PanelParts /\ s.epoch \in Nat BY DEF PanelBase, PanelShape
  <2>3. Redraws(s, r, {"epoch", "timer"}) /\ r.epoch = s.epoch + 1 /\ r.timer = s.epoch + 1
    BY <2>1, <2>2 DEF Redraws, PanelParts
  <2> HIDE DEF r
  <2>4. PanelShape(r) BY <2>2, <2>3 DEF Redraws, PanelParts, PanelBase, PanelShape
  <2>5. PanelBase(r) BY <2>3, <2>4, BaseKept DEF PanelBase
  <2>6. Owed(r) BY <2>2, <2>3 DEF Owed
  <2> QED BY <2>5, <2>6, OwingIsFine DEF r
<1>2. CASE ~s.open BY <1>2, OwingIsFine DEF NotifyCursorChange
<1> QED BY <1>1, <1>2

LEMMA TabNotified ==
    ASSUME NEW s, PanelBase(s)
    PROVE  LET r == NotifyActiveTabChanged(s) IN PanelOK(r) /\ Redraws(s, r, {"epoch", "timer", "ui"})
<1> DEFINE q == [s EXCEPT !.epoch = @ + 1, !.timer = 0]
           r == NotifyActiveTabChanged(s)
<1>0. DOMAIN s = PanelParts /\ s.epoch \in Nat BY DEF PanelBase, PanelShape
<1>1. CASE s.open
  <2>1. r = repaint(q, s.epoch + 1) BY <1>1 DEF NotifyActiveTabChanged
  <2>3. Redraws(s, q, {"epoch", "timer"}) /\ q.epoch = s.epoch + 1 /\ q.timer = 0 BY <1>0 DEF Redraws, PanelParts
  <2> HIDE DEF q, r
  <2>4. PanelShape(q) BY <1>0, <2>3 DEF Redraws, PanelParts, PanelBase, PanelShape
  <2>5. PanelBase(q) BY <2>3, <2>4, BaseKept DEF PanelBase
  <2>6. PanelBase(r) /\ Redraws(q, r, {"ui"}) /\ Owed(r) BY <2>1, <2>3, <2>5, RepaintAsked
  <2>7. Redraws(s, r, {"epoch", "timer", "ui"}) BY <2>3, <2>6 DEF Redraws, PanelParts
  <2> QED BY <2>6, <2>7, OwingIsFine DEF r
<1>2. CASE ~s.open
  <2>1. r = s BY <1>2 DEF NotifyActiveTabChanged
  <2> QED BY <1>0, <1>2, <2>1, OwingIsFine DEF Redraws
<1> QED BY <1>1, <1>2

\* Coming to another tab.
LEMMA OtherTabShown ==
    ASSUME NEW s, PanelOK(s), NEW t \in RpTabs
    PROVE  LET r == ActivateTab(s, t) IN PanelOK(r)
<1> DEFINE q == [s EXCEPT !.tab = t]
<1>1. DOMAIN s = PanelParts /\ PanelBase(s) BY DEF PanelOK, PanelBase, PanelShape
<1>2. Redraws(s, q, {"tab"}) /\ q.tab = t BY <1>1 DEF Redraws, PanelParts
<1>3. ActivateTab(s, t) = IF t = s.tab THEN s ELSE NotifyActiveTabChanged(q) BY DEF ActivateTab
<1> HIDE DEF q
<1>4. PanelShape(q) BY <1>1, <1>2 DEF Redraws, PanelParts, PanelBase, PanelShape
<1>5. PanelBase(q) BY <1>1, <1>2, <1>4, BaseKept DEF PanelBase
<1> QED BY <1>3, <1>5, TabNotified

\* Spending some of a behaviour's budget.
LEMMA SpendKeeps ==
    ASSUME NEW s, PanelOK(s), NEW what
    PROVE  LET r == RpSpend(s, what) IN PanelOK(r) /\ Redraws(s, r, {"left"})
<1> DEFINE r == RpSpend(s, what)
<1>1. DOMAIN s = PanelParts BY DEF PanelOK, PanelBase, PanelShape
<1>2. Redraws(s, r, {"left"}) BY <1>1 DEF Redraws, PanelParts, RpSpend
<1> HIDE DEF r
<1>3. PanelShape(r) BY <1>2 DEF Redraws, PanelParts, PanelOK, PanelBase, PanelShape
<1>4. VersionsFit(r) /\ JumpFits(r) BY <1>2, BaseKept DEF PanelOK
<1>5. PanelOK(r) BY <1>2, <1>3, <1>4, IdleKeeps DEF Redraws
<1> QED BY <1>2, <1>5 DEF r

LEMMA BaseSpent ==
    ASSUME NEW s, PanelBase(s), NEW what
    PROVE  LET r == RpSpend(s, what) IN PanelBase(r) /\ Redraws(s, r, {"left"})
<1> DEFINE r == RpSpend(s, what)
<1>1. DOMAIN s = PanelParts BY DEF PanelBase, PanelShape
<1>2. Redraws(s, r, {"left"}) BY <1>1 DEF Redraws, PanelParts, RpSpend
<1> HIDE DEF r
<1>3. PanelShape(r) BY <1>2 DEF Redraws, PanelParts, PanelBase, PanelShape
<1>4. PanelBase(r) BY <1>2, <1>3, BaseKept DEF PanelBase
<1> QED BY <1>2, <1>4 DEF r

LEMMA MoveKeeps == ASSUME PanelOK(rp), MovePanelCursor PROVE PanelOK(rp')
<1>1. PICK x \in DOMAIN RpCells[rp.tab] :
         rp' = NotifyCursorChange(RpSpend([rp EXCEPT !.row[rp.tab] = x], "moves"))
  BY DEF MovePanelCursor
<1> DEFINE q == [rp EXCEPT !.row[rp.tab] = x]
<1>2. PanelBase(rp) /\ DOMAIN rp = PanelParts /\ DOMAIN rp.row = RpTabs BY DEF PanelOK, PanelBase, PanelShape
<1>3. Redraws(rp, q, {"row"}) /\ DOMAIN q.row = RpTabs BY <1>2 DEF Redraws, PanelParts
<1>4. rp' = NotifyCursorChange(RpSpend(q, "moves")) BY <1>1
<1> HIDE DEF q
<1>5. PanelShape(q) BY <1>2, <1>3 DEF Redraws, PanelParts, PanelBase, PanelShape
<1>6. PanelBase(q) BY <1>2, <1>3, <1>5, BaseKept DEF PanelBase
<1> QED BY <1>4, <1>6, BaseSpent, CursorNotified

LEMMA SwitchKeeps == ASSUME PanelOK(rp), SwitchPanelTab PROVE PanelOK(rp')
<1>1. PICK t \in RpTabs : rp' = ActivateTab(RpSpend(rp, "tabs"), t) BY DEF SwitchPanelTab
<1> QED BY <1>1, SpendKeeps, OtherTabShown

LEMMA IdentityKeeps == ASSUME PanelOK(rp), IdentityResolved PROVE PanelOK(rp')
<1>1. PICK t \in RpTabs :
         rp' = RpSpend([rp EXCEPT !.known[t] = TRUE, !.ident[t] = @ + 1, !.dirty = TRUE], "idents")
  BY DEF IdentityResolved
<1> DEFINE q == [rp EXCEPT !.known[t] = TRUE, !.ident[t] = @ + 1, !.dirty = TRUE]
<1>2. PanelBase(rp) /\ DOMAIN rp = PanelParts /\ DOMAIN rp.ident = RpTabs BY DEF PanelOK, PanelBase, PanelShape
<1>3. Redraws(rp, q, {"known", "ident", "dirty"}) /\ DOMAIN q.ident = RpTabs /\ q.dirty BY <1>2 DEF Redraws, PanelParts
<1>4. rp' = RpSpend(q, "idents") BY <1>1
<1> HIDE DEF q
<1>5. PanelShape(q) BY <1>2, <1>3 DEF Redraws, PanelParts, PanelBase, PanelShape
<1>6. PanelBase(q) BY <1>2, <1>3, <1>5, BaseKept DEF PanelBase
<1>7. (Owed(q) <=> Owed(rp)) /\ here(q) = here(rp) BY <1>2, <1>3, OwedKept
<1>8. q.open = rp.open /\ q.built = rp.built BY <1>3 DEF Redraws, PanelParts
<1>9. PanelOK(q) BY <1>3, <1>6, <1>7, <1>8 DEF PanelOK, PaintFits, FillFits
<1> QED BY <1>4, <1>9, SpendKeeps

LEMMA TimerKeeps == ASSUME PanelOK(rp), TimerFires PROVE PanelOK(rp')
<1> DEFINE q == [rp EXCEPT !.timer = 0]
<1>1. rp' = repaint(q, rp.timer) /\ rp.timer # 0 BY DEF TimerFires
<1>2. PanelBase(rp) /\ DOMAIN rp = PanelParts /\ rp.timer \in {0, rp.epoch} BY DEF PanelOK, PanelBase, PanelShape
<1>3. Redraws(rp, q, {"timer"}) /\ q.timer = 0 /\ q.epoch = rp.epoch BY <1>2 DEF Redraws, PanelParts
<1> HIDE DEF q
<1>5. PanelShape(q) BY <1>2, <1>3 DEF Redraws, PanelParts, PanelBase, PanelShape
<1>6. PanelBase(q) BY <1>2, <1>3, <1>5, BaseKept DEF PanelBase
<1>7. rp' = repaint(q, q.epoch) BY <1>1, <1>2, <1>3
<1> QED BY <1>6, <1>7, RepaintAsked, OwingIsFine

\* Taking a callback from the main loop's queue.
LEMMA CallbackTaken ==
    ASSUME NEW s, PanelBase(s), NEW j
    PROVE  LET r == [s EXCEPT !.ui = @ \ {j}] IN PanelBase(r) /\ Redraws(s, r, {"ui"}) /\ r.ui = s.ui \ {j}
<1> DEFINE r == [s EXCEPT !.ui = @ \ {j}]
<1>1. DOMAIN s = PanelParts BY DEF PanelBase, PanelShape
<1>2. Redraws(s, r, {"ui"}) /\ r.ui = s.ui \ {j} BY <1>1 DEF Redraws, PanelParts
<1> HIDE DEF r
<1>3. r.gen = s.gen /\ r.evicted = s.evicted BY <1>2 DEF Redraws, PanelParts
<1>4. JobsFit(r) BY <1>2, <1>3 DEF PanelBase, JobsFit, JobFits
<1>5. PanelShape(r) BY <1>2 DEF Redraws, PanelParts, PanelBase, PanelShape
<1>6. PanelBase(r) BY <1>2, <1>4, <1>5, BaseKept DEF PanelBase
<1> QED BY <1>2, <1>6 DEF r

LEMMA RepaintRuns == ASSUME PanelOK(rp), RunRepaint PROVE PanelOK(rp')
<1>1. PICK j \in rp.ui :
         LET s == [rp EXCEPT !.ui = @ \ {j}] IN
         /\ j.kind = "repaint"
         /\ rp' \in IF j.epoch # s.epoch \/ ~s.open THEN {s} ELSE {startFills(b) : b \in rebuildOutbound(s)}
  BY DEF RunRepaint
<1> DEFINE s == [rp EXCEPT !.ui = @ \ {j}]
<1>2. PanelBase(s) /\ Redraws(rp, s, {"ui"}) /\ s.ui = rp.ui \ {j} BY CallbackTaken DEF PanelOK
<1>3. rp' \in IF j.epoch # s.epoch \/ ~s.open THEN {s} ELSE {startFills(b) : b \in rebuildOutbound(s)} BY <1>1
<1>4. j.kind = "repaint" BY <1>1
<1> HIDE DEF s
<1>5. CASE ~s.open BY <1>2, <1>3, <1>5, OwingIsFine
<1>6. CASE s.open /\ j.epoch # s.epoch
  <2>1. rp' = s BY <1>3, <1>6
  <2>2. /\ s.epoch = rp.epoch /\ s.timer = rp.timer /\ s.open = rp.open /\ s.built = rp.built /\ s.dirty = rp.dirty
        /\ s.inbound = rp.inbound /\ s.counts = rp.counts /\ s.workers = rp.workers /\ s.gen = rp.gen
        /\ s.tab = rp.tab /\ s.ident = rp.ident
    BY <1>2 DEF Redraws, PanelParts
  <2>3. Owed(s) <=> Owed(rp) BY <1>2, <1>6, <2>2 DEF Owed
  <2>4. here(s) = here(rp) BY <1>2, OwedKept DEF PanelOK
  <2>5. PaintFits(s) BY <2>2, <2>3, <2>4 DEF PanelOK, PaintFits
  <2>6. \A k : OnItsWay(rp, k) => OnItsWay(s, k) BY <1>2, <1>4, <2>2 DEF OnItsWay, ForPanel
  <2>7. FillFits(s) BY <2>2, <2>3, <2>6 DEF PanelOK, FillFits
  <2> QED BY <1>2, <2>1, <2>5, <2>7 DEF PanelOK
<1>7. CASE s.open /\ j.epoch = s.epoch BY <1>2, <1>3, <1>7, RepaintKeeps
<1> QED BY <1>5, <1>6, <1>7

\* A new count generation: what counts are left are older than no eviction.
LEMMA GenerationTurns ==
    ASSUME NEW s, PanelBase(s), NEW r,
           Redraws(s, r, {"gen", "counts", "dirty", "previews", "reverse", "evicted", "evicting", "open", "focused"}),
           r.gen = s.gen + 1, VersionsFit(r),
           \A k \in DOMAIN r.counts : /\ k \in DOMAIN s.counts /\ r.counts[k] = s.counts[k]
                                      /\ r.evicted[k.child] = s.evicted[k.child]
    PROVE  PanelBase(r) /\ (PaintFits(s) /\ r.dirty /\ r.open = s.open => PanelOK(r))
<1>1. /\ r.epoch = s.epoch /\ r.timer = s.timer /\ r.tab = s.tab /\ r.row = s.row /\ r.ident = s.ident
      /\ r.sel = s.sel /\ r.workers = s.workers /\ r.ui = s.ui /\ r.built = s.built /\ DOMAIN r = PanelParts
  BY DEF Redraws, PanelParts
<1>2. PanelShape(s) /\ s.gen \in Nat BY DEF PanelBase, PanelShape
<1>3. PanelShape(r) BY <1>1, <1>2 DEF PanelShape
<1>4. WorkFits(r) BY <1>1, <1>2 DEF PanelBase, WorkFits
<1>5. JobsFit(r) BY <1>1, <1>2 DEF PanelBase, JobsFit, JobFits
<1>6. CountsFit(r) BY DEF PanelBase, CountsFit, CountFits
<1>7. ListsFit(r) /\ JumpFits(r) BY BaseKept
<1>8. (Owed(r) <=> Owed(s)) /\ here(r) = here(s) BY OwedKept
<1> QED BY <1>1, <1>3, <1>4, <1>5, <1>6, <1>7, <1>8 DEF PanelBase, PanelOK, PaintFits, FillFits

LEMMA CachesCleared ==
    ASSUME NEW s, PanelBase(s)
    PROVE  LET r == ClearCaches(s) IN
           PanelBase(r) /\ Redraws(s, r, {"gen", "counts", "dirty", "previews"}) /\ (PaintFits(s) => PanelOK(r))
<1> DEFINE r == ClearCaches(s)
<1>1. DOMAIN s = PanelParts BY DEF PanelBase, PanelShape
<1>2. /\ Redraws(s, r, {"gen", "counts", "dirty", "previews"}) /\ r.gen = s.gen + 1 /\ r.dirty
      /\ r.counts = <<>>
  BY <1>1 DEF Redraws, PanelParts, ClearCaches
<1> HIDE DEF r
<1>3. r.open = s.open /\ DOMAIN r.counts = {} BY <1>2 DEF Redraws, PanelParts
<1>4. VersionsFit(r) BY <1>2, BaseKept
<1>5. Redraws(s, r, {"gen", "counts", "dirty", "previews", "reverse", "evicted", "evicting", "open", "focused"})
  BY <1>2 DEF Redraws
<1>6. PanelBase(r) /\ (PaintFits(s) /\ r.dirty /\ r.open = s.open => PanelOK(r))
  BY <1>2, <1>3, <1>4, <1>5, GenerationTurns
<1> QED BY <1>2, <1>3, <1>6 DEF r

LEMMA ToggleKeeps == ASSUME PanelOK(rp), TogglePanel PROVE PanelOK(rp')
<1> DEFINE s == RpSpend(rp, "toggles")
<1>1. rp' \in IF s.open THEN {[ClearCaches(s) EXCEPT !.open = FALSE, !.focused = FALSE]}
              ELSE {startFills([b EXCEPT !.open = TRUE]) : b \in rebuildOutbound(s)}
  BY DEF TogglePanel
<1>2. PanelBase(s) BY SpendKeeps DEF PanelOK
<1> HIDE DEF s
<1>3. CASE s.open
  <2> DEFINE c == ClearCaches(s)
             r == [c EXCEPT !.open = FALSE, !.focused = FALSE]
  <2>1. PanelBase(c) BY <1>2, CachesCleared
  <2>2. rp' = r BY <1>1, <1>3
  <2> HIDE DEF c
  <2>3. DOMAIN c = PanelParts BY <2>1 DEF PanelBase, PanelShape
  <2>4. Redraws(c, r, {"open", "focused"}) /\ ~r.open BY <2>3 DEF Redraws, PanelParts
  <2> HIDE DEF r
  <2>5. PanelShape(r) BY <2>1, <2>4 DEF Redraws, PanelParts, PanelBase, PanelShape
  <2>6. PanelBase(r) BY <2>1, <2>4, <2>5, BaseKept DEF PanelBase
  <2> QED BY <2>2, <2>4, <2>6, OwingIsFine
<1>4. CASE ~s.open BY <1>1, <1>2, <1>4, RepaintKeeps
<1> QED BY <1>3, <1>4

LEMMA DeletedKeeps == ASSUME PanelOK(rp), ConnectionDeleted PROVE PanelOK(rp')
<1>1. rp' = ClearCaches(RpSpend(rp, "toggles")) BY DEF ConnectionDeleted
<1>2. PanelOK(RpSpend(rp, "toggles")) BY SpendKeeps
<1> QED BY <1>1, <1>2, CachesCleared DEF PanelOK

\* Another worker puts nothing in doubt.
LEMMA MoreWorkers ==
    ASSUME NEW s, PanelOK(s), NEW r, PanelBase(r), Redraws(s, r, {"workers"}), \A w \in s.workers : w \in r.workers
    PROVE  PanelOK(r)
<1>1. /\ r.open = s.open /\ r.built = s.built /\ r.dirty = s.dirty /\ r.inbound = s.inbound /\ r.counts = s.counts
      /\ r.ui = s.ui /\ r.epoch = s.epoch /\ r.gen = s.gen /\ r.tab = s.tab /\ r.ident = s.ident
  BY DEF Redraws, PanelParts
<1>2. (Owed(r) <=> Owed(s)) /\ here(r) = here(s) BY OwedKept DEF PanelOK
<1>3. \A k : OnItsWay(s, k) => OnItsWay(r, k) BY <1>1 DEF OnItsWay, ForPanel
<1>4. PaintFits(r) BY <1>1, <1>2 DEF PanelOK, PaintFits
<1>5. FillFits(r) BY <1>1, <1>2, <1>3 DEF PanelOK, FillFits
<1> QED BY <1>4, <1>5 DEF PanelOK

LEMMA ExactKeeps ==
    ASSUME NEW s, PanelOK(s)
    PROVE  PanelOK(maybeStartExactFill(s))
<1> DEFINE keys == UNION {r.key : r \in selectedInbound(s)}
           todo == {k \in keys : countOf(s, k).exact = Unread}
           x == CHOOSE k \in todo : TRUE
           r == launchCount(s, fill(s, "exact", <<x>>))
<1>0. maybeStartExactFill(s) = IF s.focused /\ s.open /\ todo # {} THEN r ELSE s BY DEF maybeStartExactFill
<1>1. CASE todo # {}
  <2>1. x \in todo BY <1>1
  <2>2. x.child \in RpChildren
    <3>1. PICK e \in selectedInbound(s) : x \in e.key BY <2>1
    <3> DEFINE i == s.sel - Len(s.outbound)
    <3>2. i >= 0 /\ i < Len(s.inbound) /\ e = s.inbound[i + 1] BY <3>1 DEF selectedInbound
    <3>3. s.sel \in Int /\ s.outbound \in Seq(Range(s.outbound)) /\ s.inbound \in Seq(Range(s.inbound))
      BY DEF PanelOK, PanelBase, PanelShape, ListsFit
    <3>4. i + 1 \in DOMAIN s.inbound
      <4>1. Len(s.outbound) \in Nat /\ Len(s.inbound) \in Nat /\ DOMAIN s.inbound = 1..Len(s.inbound) BY <3>3
      <4> QED BY <3>2, <3>3, <4>1
    <3>5. InboundKey(e) BY <3>2, <3>4 DEF PanelOK, PanelBase, ListsFit
    <3> QED BY <3>1, <3>5 DEF InboundKey
  <2> HIDE DEF x
  <2>3. Keyed(<<x>>)
    <3>1. Range(<<x>>) = {x} /\ <<x>> \in Seq({x}) /\ <<x>> # <<>> BY DEF Range
    <3> QED BY <2>2, <3>1 DEF Keyed
  <2>4. PanelBase(r) /\ Redraws(s, r, {"workers"}) /\ \A w \in s.workers : w \in r.workers
    BY <2>3, LaunchKeeps DEF PanelOK
  <2>5. PanelOK(r) BY <2>4, MoreWorkers
  <2> QED BY <1>0, <2>5
<1>2. CASE todo = {} BY <1>0, <1>2
<1> QED BY <1>1, <1>2

LEMMA EnterPanelKeeps == ASSUME PanelOK(rp), EnterPanel PROVE PanelOK(rp')
<1> DEFINE s == RpSpend(rp, "keys")
           sel == IF s.sel >= Len(s.outbound) THEN 0 ELSE s.sel
           q == [s EXCEPT !.focused = TRUE, !.sel = sel]
<1>1. rp' = maybeStartExactFill(q) BY DEF EnterPanel
<1>2. PanelOK(s) BY SpendKeeps
<1> HIDE DEF s
<1>3. DOMAIN s = PanelParts /\ s.sel \in Int BY <1>2 DEF PanelOK, PanelBase, PanelShape
<1>0. sel \in Int BY <1>3
<1> HIDE DEF sel
<1>4. Redraws(s, q, {"focused", "sel"}) /\ q.sel \in Int BY <1>0, <1>3 DEF Redraws, PanelParts
<1> HIDE DEF q
<1>5. PanelShape(q) BY <1>2, <1>4 DEF Redraws, PanelParts, PanelOK, PanelBase, PanelShape
<1>6. VersionsFit(q) /\ JumpFits(q) BY <1>2, <1>4, BaseKept DEF PanelOK
<1>7. PanelOK(q) BY <1>2, <1>4, <1>5, <1>6, IdleKeeps DEF Redraws
<1> QED BY <1>1, <1>7, ExactKeeps

LEMMA ExitKeeps == ASSUME PanelOK(rp), ExitPanel PROVE PanelOK(rp')
<1> DEFINE q == [rp EXCEPT !.focused = FALSE]
<1>1. rp' = RpSpend(q, "keys") BY DEF ExitPanel
<1>3. DOMAIN rp = PanelParts BY DEF PanelOK, PanelBase, PanelShape
<1>4. Redraws(rp, q, {"focused"}) BY <1>3 DEF Redraws, PanelParts
<1> HIDE DEF q
<1>5. PanelShape(q) BY <1>4 DEF Redraws, PanelParts, PanelOK, PanelBase, PanelShape
<1>6. VersionsFit(q) /\ JumpFits(q) BY <1>4, BaseKept DEF PanelOK
<1>7. PanelOK(q) BY <1>4, <1>5, <1>6, IdleKeeps DEF Redraws
<1> QED BY <1>1, <1>7, SpendKeeps

LEMMA SelectionKeeps == ASSUME PanelOK(rp), MoveSelection PROVE PanelOK(rp')
<1> DEFINE s == RpSpend(rp, "keys")
           n == Len(rp.outbound) + Len(rp.inbound)
           bounded(i) == IF i < 0 THEN 0 ELSE IF i >= n THEN n - 1 ELSE i
<1>1. PICK d \in {1, -1} : rp' = maybeStartExactFill([s EXCEPT !.sel = bounded(@ + d)]) BY DEF MoveSelection
<1>2. PanelOK(s) BY SpendKeeps
<1>3. n \in Int
  <2>1. rp.outbound \in Seq(Range(rp.outbound)) /\ rp.inbound \in Seq(Range(rp.inbound))
    BY DEF PanelOK, PanelBase, ListsFit
  <2>2. Len(rp.outbound) \in Nat /\ Len(rp.inbound) \in Nat BY <2>1
  <2> QED BY <2>2
<1> HIDE DEF s, n
<1> DEFINE q == [s EXCEPT !.sel = bounded(s.sel + d)]
<1>4. DOMAIN s = PanelParts /\ s.sel \in Int BY <1>2 DEF PanelOK, PanelBase, PanelShape
<1>5. bounded(s.sel + d) \in Int BY <1>3, <1>4
<1> HIDE DEF bounded
<1>6. Redraws(s, q, {"sel"}) /\ q.sel \in Int BY <1>4, <1>5 DEF Redraws, PanelParts
<1>7. rp' = maybeStartExactFill(q) BY <1>1
<1> HIDE DEF q
<1>8. PanelShape(q) BY <1>2, <1>6 DEF Redraws, PanelParts, PanelOK, PanelBase, PanelShape
<1>9. VersionsFit(q) /\ JumpFits(q) BY <1>2, <1>6, BaseKept DEF PanelOK
<1>10. PanelOK(q) BY <1>2, <1>6, <1>8, <1>9, IdleKeeps DEF Redraws
<1> QED BY <1>7, <1>10, ExactKeeps

\* A jump that asks for the row it comes back to, or owes a repaint.
LEMMA JumpMade ==
    ASSUME NEW s, PanelOK(s), NEW args, NEW entry, ~Owed(s) => args = entry
    PROVE  PanelOK(jumpFrom(s, args, entry))
<1> DEFINE r == jumpFrom(s, args, entry)
<1>1. DOMAIN s = PanelParts BY DEF PanelOK, PanelBase, PanelShape
<1>2. Redraws(s, r, {"jumped"}) /\ r.jumped = [args |-> args, entry |-> entry, owed |-> Owed(s)]
  BY <1>1 DEF Redraws, PanelParts, jumpFrom
<1>3. JumpFits(r) BY <1>2 DEF JumpFits
<1> HIDE DEF r
<1>4. PanelShape(r) BY <1>2 DEF Redraws, PanelParts, PanelOK, PanelBase, PanelShape
<1>5. VersionsFit(r) BY <1>2, BaseKept DEF PanelOK
<1>6. PanelOK(r) BY <1>2, <1>3, <1>4, <1>5, IdleKeeps DEF Redraws
<1> QED BY <1>6 DEF r

LEMMA JumpKeeps == ASSUME PanelOK(rp), Jump PROVE PanelOK(rp')
<1> DEFINE s == RpSpend(rp, "keys")
<1>1. rp' \in UNION ({openInbound(s, r) : r \in selectedInbound(s)} \cup {jumpOutbound(s, r) : r \in selectedRel(s)})
  BY DEF Jump
<1>2. PanelOK(s) /\ Redraws(rp, s, {"left"}) BY SpendKeeps
<1>3. s.open
  <2>1. rp.open /\ s.open = rp.open BY <1>2 DEF Jump, PanelKey, Redraws, PanelParts
  <2> QED BY <2>1
<1> HIDE DEF s
<1>4. ASSUME NEW r, rp' \in openInbound(s, r) PROVE PanelOK(rp')
  <2> DEFINE j == jumpFrom(s, s.built, here(s))
  <2>1. PanelOK(j) BY <1>2, <1>3, JumpMade DEF PanelOK, PaintFits
  <2>2. rp' = s \/ rp' = j \/ \E t \in RpTabs : rp' = NotifyActiveTabChanged(ActivateTab(j, t)) BY <1>4 DEF openInbound
  <2> HIDE DEF j
  <2>3. ASSUME NEW t \in RpTabs, rp' = NotifyActiveTabChanged(ActivateTab(j, t)) PROVE PanelOK(rp')
    <3>1. PanelOK(ActivateTab(j, t)) BY <2>1, OtherTabShown
    <3>2. PanelOK(NotifyActiveTabChanged(ActivateTab(j, t))) BY <3>1, TabNotified DEF PanelOK
    <3> QED BY <2>3, <3>2
  <2> QED BY <1>2, <2>1, <2>2, <2>3
<1>5. ASSUME NEW r, rp' \in jumpOutbound(s, r) PROVE PanelOK(rp')
  <2> DEFINE j == jumpFrom(s, here(s), here(s))
  <2>1. PanelOK(j) BY <1>2, JumpMade
  <2>2. rp' = s \/ rp' = j \/ \E t \in RpTabs : rp' = ActivateTab(j, t) BY <1>5 DEF jumpOutbound
  <2> HIDE DEF j
  <2> QED BY <1>2, <2>1, <2>2, OtherTabShown
<1> QED BY <1>1, <1>4, <1>5

LEMMA PickerOpens == ASSUME PanelOK(rp), fkReverse PROVE PanelOK(rp')
<1> DEFINE s == RpSpend(rp, "picks")
<1>1. PICK r \in lookupReverseFK(s, splitBaseTable(rp, rp.tab)) :
         rp' = OpenReverse([s EXCEPT !.reverse = r.cache],
                           [i \in DOMAIN r.fks |-> reverseReferencedValues(r.fks[i], rowSnapshot(s))])
  BY DEF fkReverse
<1>2. PanelOK(s) /\ DOMAIN s = PanelParts BY SpendKeeps DEF PanelOK, PanelBase, PanelShape
<1> HIDE DEF s
<1> DEFINE entries == [i \in DOMAIN r.fks |-> reverseReferencedValues(r.fks[i], rowSnapshot(s))]
           q == [s EXCEPT !.reverse = r.cache]
<1>3. Redraws(s, q, {"reverse"}) /\ DOMAIN q = PanelParts BY <1>2 DEF Redraws, PanelParts
<1>4. rp' = OpenReverse(q, entries) BY <1>1
<1> HIDE DEF entries, q
<1>5. Redraws(s, rp', {"reverse", "picker"})
  <2>1. rp' = IF entries = <<>> THEN q ELSE [q EXCEPT !.picker = SetPickerTabs(entries, here(q))]
    BY <1>4 DEF OpenReverse
  <2> QED BY <1>3, <2>1 DEF Redraws, PanelParts
<1>6. PanelShape(rp') BY <1>2, <1>5 DEF Redraws, PanelParts, PanelOK, PanelBase, PanelShape
<1>7. VersionsFit(rp') /\ JumpFits(rp') BY <1>2, <1>5, BaseKept DEF PanelOK
<1> QED BY <1>2, <1>5, <1>6, <1>7, IdleKeeps DEF Redraws

\* Only the picker has changed.
LEMMA PickerKeeps ==
    ASSUME NEW s, PanelOK(s), NEW p
    PROVE  PanelOK([s EXCEPT !.picker = p])
<1> DEFINE r == [s EXCEPT !.picker = p]
<1>1. DOMAIN s = PanelParts BY DEF PanelOK, PanelBase, PanelShape
<1>2. Redraws(s, r, {"picker"}) BY <1>1 DEF Redraws, PanelParts
<1> HIDE DEF r
<1>3. PanelShape(r) BY <1>2 DEF Redraws, PanelParts, PanelOK, PanelBase, PanelShape
<1>4. VersionsFit(r) /\ JumpFits(r) BY <1>2, BaseKept DEF PanelOK
<1>5. PanelOK(r) BY <1>2, <1>3, <1>4, IdleKeeps DEF Redraws
<1> QED BY <1>5 DEF r

LEMMA PickerSteps == ASSUME PanelOK(rp), PickerTab \/ ClosePicker PROVE PanelOK(rp')
<1>1. CASE PickerTab
  <2>1. PICK d \in {1, -1} : rp' = RpSpend([rp EXCEPT !.picker = StepPickerTab(@, d)], "picks") BY <1>1 DEF PickerTab
  <2>2. PanelOK([rp EXCEPT !.picker = StepPickerTab(rp.picker, d)]) BY PickerKeeps
  <2> QED BY <2>1, <2>2, SpendKeeps
<1>2. CASE ClosePicker BY <1>2, PickerKeeps DEF ClosePicker
<1> QED BY <1>1, <1>2

LEMMA SelectKeeps == ASSUME PanelOK(rp), SelectReverse PROVE PanelOK(rp')
<1> DEFINE s == RpSpend(rp, "picks")
           j == jumpFrom(s, rp.picker.origin, rp.picker.origin)
<1>1. rp' = j \/ \E t \in RpTabs : rp' = [ActivateTab(j, t) EXCEPT !.picker = NoPicker] BY DEF SelectReverse
<1>2. PanelOK(j) BY SpendKeeps, JumpMade
<1> HIDE DEF j
<1>3. \A t \in RpTabs : PanelOK(ActivateTab(j, t)) BY <1>2, OtherTabShown
<1>4. \A t \in RpTabs : PanelOK([ActivateTab(j, t) EXCEPT !.picker = NoPicker])
  <2> TAKE t \in RpTabs
  <2> DEFINE a == ActivateTab(j, t)
  <2>1. PanelOK(a) BY <1>3
  <2> HIDE DEF a
  <2>2. PanelOK([a EXCEPT !.picker = NoPicker]) BY <2>1, PickerKeeps
  <2> QED BY <2>2 DEF a
<1> QED BY <1>1, <1>2, <1>4

\* Steps of workers: what was listed stays listed, what was on its way stays so.
LEMMA WorkDone ==
    ASSUME NEW s, PanelOK(s), NEW r, PanelBase(r), Redraws(s, r, {"workers", "ui", "previews", "counts"}),
           \A j : j.kind = "repaint" => (j \in r.ui <=> j \in s.ui),
           \A k : k \in DOMAIN s.counts => k \in DOMAIN r.counts,
           s.open => \A k : OnItsWay(s, k) => k \in DOMAIN r.counts \/ OnItsWay(r, k)
    PROVE  PanelOK(r)
<1>1. /\ r.open = s.open /\ r.built = s.built /\ r.dirty = s.dirty /\ r.inbound = s.inbound
      /\ r.epoch = s.epoch /\ r.timer = s.timer
  BY DEF Redraws, PanelParts
<1>2. Owed(r) <=> Owed(s) BY <1>1 DEF Owed
<1>3. here(r) = here(s) BY OwedKept DEF PanelOK
<1>4. PaintFits(r) BY <1>1, <1>2, <1>3 DEF PanelOK, PaintFits
<1>5. FillFits(r) BY <1>1, <1>2 DEF PanelOK, FillFits
<1> QED BY <1>4, <1>5 DEF PanelOK

\* A worker's key is done with.
LEMMA RestKeeps ==
    ASSUME NEW s, PanelBase(s), NEW w \in s.workers
    PROVE  LET r == rest(s, w) IN
           /\ PanelBase(r) /\ Redraws(s, r, {"workers"})
           /\ \A x \in s.workers : x = w \/ x \in r.workers
           /\ w.kind # "preview" /\ Tail(w.todo) # <<>> =>
                \E x \in r.workers : /\ x.kind = w.kind /\ x.todo = Tail(w.todo)
                                     /\ x.epoch = w.epoch /\ x.gen = w.gen /\ x.origin = w.origin /\ x.ident = w.ident
<1> DEFINE t == Tail(w.todo)
           x == [w EXCEPT !.todo = t]
           ws == IF t = <<>> THEN s.workers \ {w} ELSE (s.workers \ {w}) \cup {x}
           r == rest(s, w)
<1>1. DOMAIN s = PanelParts /\ WorkFits(s) /\ DOMAIN w = WorkerFields BY DEF PanelBase, PanelShape, WorkFits
<1>2. w.kind # "preview" /\ t # <<>> => Keyed(t) BY <1>1, TailKeyed DEF WorkFits
<1> HIDE DEF t
<1>3. /\ x.kind = w.kind /\ x.todo = t /\ x.epoch = w.epoch /\ x.gen = w.gen /\ x.origin = w.origin
      /\ x.ident = w.ident /\ DOMAIN x = WorkerFields
  BY <1>1 DEF WorkerFields
<1> HIDE DEF x
<1>4. Redraws(s, r, {"workers"}) /\ r.workers = ws
  <2>1. r = IF t = <<>> THEN [s EXCEPT !.workers = @ \ {w}]
            ELSE [[s EXCEPT !.workers = @ \ {w}] EXCEPT !.workers = @ \cup {x}]
    BY DEF rest, t, x
  <2> QED BY <1>1, <2>1 DEF Redraws, PanelParts
<1> HIDE DEF r
<1>5. r.gen = s.gen BY <1>4 DEF Redraws, PanelParts
<1>6. WorkFits(r) BY <1>1, <1>2, <1>3, <1>4, <1>5 DEF WorkFits
<1>7. PanelShape(r) BY <1>4 DEF Redraws, PanelParts, PanelBase, PanelShape
<1>8. PanelBase(r) BY <1>4, <1>6, <1>7, BaseKept DEF PanelBase
<1>9. t # <<>> => x \in r.workers BY <1>4
<1> QED BY <1>3, <1>4, <1>8, <1>9 DEF r, t

\* A worker gives up.
LEMMA FillerGone ==
    ASSUME NEW s, PanelBase(s), NEW w
    PROVE  LET r == [s EXCEPT !.workers = @ \ {w}] IN
           PanelBase(r) /\ Redraws(s, r, {"workers"}) /\ r.workers = s.workers \ {w}
<1> DEFINE r == [s EXCEPT !.workers = @ \ {w}]
<1>1. DOMAIN s = PanelParts BY DEF PanelBase, PanelShape
<1>2. Redraws(s, r, {"workers"}) /\ r.workers = s.workers \ {w} BY <1>1 DEF Redraws, PanelParts
<1> HIDE DEF r
<1>3. r.gen = s.gen BY <1>2 DEF Redraws, PanelParts
<1>4. WorkFits(r) BY <1>2, <1>3 DEF PanelBase, WorkFits
<1>5. PanelShape(r) BY <1>2 DEF Redraws, PanelParts, PanelBase, PanelShape
<1>6. PanelBase(r) BY <1>2, <1>4, <1>5, BaseKept DEF PanelBase
<1> QED BY <1>2, <1>6 DEF r

\* Everything but the workers stands: what is on its way without w stays on its way.
LEMMA OnItsWayWithout ==
    ASSUME NEW s, NEW r, Redraws(s, r, {"workers"}), NEW w,
           \A x \in s.workers : x = w \/ x \in r.workers, NEW k, OnItsWay(s, k)
    PROVE  OnItsWay(r, k) \/ (w \in s.workers /\ w.kind = "estimate" /\ ForPanel(s, w) /\ k \in Range(w.todo))
<1>1. r.ui = s.ui /\ r.epoch = s.epoch /\ r.gen = s.gen /\ r.tab = s.tab /\ r.ident = s.ident BY DEF Redraws, PanelParts
<1> QED BY <1>1 DEF OnItsWay, ForPanel

LEMMA WorkersOnly ==
    ASSUME NEW s, PanelOK(s), NEW r, PanelBase(r), Redraws(s, r, {"workers"}),
           \A k : OnItsWay(s, k) => OnItsWay(r, k)
    PROVE  PanelOK(r)
<1>1. r.ui = s.ui /\ r.counts = s.counts BY DEF Redraws, PanelParts
<1>2. Redraws(s, r, {"workers", "ui", "previews", "counts"}) BY DEF Redraws
<1> QED BY <1>1, <1>2, WorkDone

LEMMA PreviewKeeps == ASSUME PanelOK(rp), WorkPreview PROVE PanelOK(rp')
<1>1. PICK w \in rp.workers :
         /\ w.kind = "preview"
         /\ rp' \in IF w.epoch # rp.epoch \/ ~rp.open THEN {[rp EXCEPT !.workers = @ \ {w}]}
                    ELSE {[rest(rp, w) EXCEPT !.previews = p] : p \in ReadPreview(rp, Head(w.todo))}
  BY DEF WorkPreview
<1>2. PanelBase(rp) BY DEF PanelOK
<1>3. CASE rp' = [rp EXCEPT !.workers = @ \ {w}]
  <2>1. PanelBase(rp') /\ Redraws(rp, rp', {"workers"}) /\ rp'.workers = rp.workers \ {w} BY <1>2, <1>3, FillerGone
  <2>2. \A k : OnItsWay(rp, k) => OnItsWay(rp', k) BY <1>1, <2>1, OnItsWayWithout
  <2> QED BY <2>1, <2>2, WorkersOnly
<1>4. ASSUME NEW p, rp' = [rest(rp, w) EXCEPT !.previews = p] PROVE PanelOK(rp')
  <2> DEFINE q == rest(rp, w)
  <2>1. PanelBase(q) /\ Redraws(rp, q, {"workers"}) /\ \A x \in rp.workers : x = w \/ x \in q.workers BY <1>2, RestKeeps
  <2> HIDE DEF q
  <2>2. \A k : OnItsWay(rp, k) => OnItsWay(q, k) BY <1>1, <2>1, OnItsWayWithout
  <2>3. PanelOK(q) /\ DOMAIN q = PanelParts BY <2>1, <2>2, WorkersOnly DEF Redraws
  <2>4. rp' = [q EXCEPT !.previews = p] BY <1>4 DEF q
  <2>5. Redraws(q, rp', {"previews"}) BY <2>3, <2>4 DEF Redraws, PanelParts
  <2>6. PanelShape(rp') BY <2>3, <2>5 DEF Redraws, PanelParts, PanelOK, PanelBase, PanelShape
  <2>7. VersionsFit(rp') /\ JumpFits(rp') BY <2>3, <2>5, BaseKept DEF PanelOK
  <2> QED BY <2>3, <2>5, <2>6, <2>7, IdleKeeps DEF Redraws
<1> QED BY <1>1, <1>3, <1>4

\* A count that was read goes to the main loop.
LEMMA JobRead ==
    ASSUME NEW s, PanelBase(s), NEW w \in s.workers, w.kind \in {"estimate", "exact"}, w.gen = s.gen,
           NEW v \in {s.version[Head(w.todo).child], Failed}
    PROVE  JobFits(s, job(w, v))
<1> DEFINE j == job(w, v)
           c == Head(w.todo).child
<1>1. c \in RpChildren
  <2>1. Keyed(w.todo) BY DEF PanelBase, WorkFits
  <2> QED BY <2>1, TailKeyed
<1>2. /\ j.kind = w.kind /\ j.gen = w.gen /\ j.key.child = c /\ j.got = v BY DEF job
<1>3. v = Failed \/ (v \in Nat /\ v >= s.evicted[c]) BY <1>1 DEF PanelBase, VersionsFit
<1>4. s.gen \in Nat BY DEF PanelBase, PanelShape
<1> HIDE DEF j, c
<1>5. JobFits(s, j) BY <1>1, <1>2, <1>3, <1>4 DEF JobFits
<1> QED BY <1>5 DEF j

LEMMA JobAdded ==
    ASSUME NEW s, PanelBase(s), NEW j, JobFits(s, j)
    PROVE  LET r == [s EXCEPT !.ui = @ \cup {j}] IN
           PanelBase(r) /\ Redraws(s, r, {"ui"}) /\ r.ui = s.ui \cup {j}
<1> DEFINE r == [s EXCEPT !.ui = @ \cup {j}]
<1>4. DOMAIN s = PanelParts BY DEF PanelBase, PanelShape
<1>5. Redraws(s, r, {"ui"}) /\ r.ui = s.ui \cup {j} BY <1>4 DEF Redraws, PanelParts
<1>6. r.gen = s.gen /\ r.evicted = s.evicted BY <1>5 DEF Redraws, PanelParts
<1> HIDE DEF r
<1>7. JobsFit(r) BY <1>5, <1>6 DEF PanelBase, JobsFit, JobFits
<1>8. PanelShape(r) BY <1>5 DEF Redraws, PanelParts, PanelBase, PanelShape
<1>9. PanelBase(r) BY <1>5, <1>7, <1>8, BaseKept DEF PanelBase
<1> QED BY <1>5, <1>9 DEF r

\* What fits a panel fits it with other workers.
LEMMA JobStillFits ==
    ASSUME NEW s, NEW q, Redraws(s, q, {"workers"}), NEW j, JobFits(s, j)
    PROVE  JobFits(q, j)
<1>1. q.gen = s.gen /\ q.evicted = s.evicted BY DEF Redraws, PanelParts
<1> QED BY <1>1 DEF JobFits

\* On its way with another job in the queue.
LEMMA OnItsWayMore ==
    ASSUME NEW q, NEW r, Redraws(q, r, {"ui"}), \A j \in q.ui : j \in r.ui, NEW k, OnItsWay(q, k)
    PROVE  OnItsWay(r, k)
<1>1. r.workers = q.workers /\ r.epoch = q.epoch /\ r.gen = q.gen /\ r.tab = q.tab /\ r.ident = q.ident
  BY DEF Redraws, PanelParts
<1> QED BY <1>1 DEF OnItsWay, ForPanel

LEMMA EstimateKeeps == ASSUME PanelOK(rp), WorkEstimate PROVE PanelOK(rp')
<1>1. PICK w \in rp.workers :
         /\ w.kind = "estimate"
         /\ rp' \in IF stopped(rp, w) THEN {[rp EXCEPT !.workers = @ \ {w}]}
                    ELSE {[rest(rp, w) EXCEPT !.ui = @ \cup {job(w, v)}] : v \in ReadEstimate(rp, Head(w.todo))}
  BY DEF WorkEstimate
<1>2. PanelBase(rp) BY DEF PanelOK
<1>3. CASE stopped(rp, w)
  <2>0. rp' = [rp EXCEPT !.workers = @ \ {w}] BY <1>1, <1>3
  <2>1. PanelBase(rp') /\ Redraws(rp, rp', {"workers"}) /\ rp'.workers = rp.workers \ {w} BY <1>2, <2>0, FillerGone
  <2>2. ~ForPanel(rp, w) BY <1>3 DEF stopped, ForPanel
  <2>3. \A k : OnItsWay(rp, k) => OnItsWay(rp', k) BY <2>1, <2>2, OnItsWayWithout
  <2> QED BY <2>1, <2>3, WorkersOnly
<1>4. CASE ~stopped(rp, w)
  <2>1. PICK v \in {rp.version[Head(w.todo).child], Failed} : rp' = [rest(rp, w) EXCEPT !.ui = @ \cup {job(w, v)}]
    BY <1>1, <1>4 DEF ReadEstimate
  <2> DEFINE q == rest(rp, w)
             j == job(w, v)
  <2>2. /\ PanelBase(q) /\ Redraws(rp, q, {"workers"}) /\ \A x \in rp.workers : x = w \/ x \in q.workers
        /\ Tail(w.todo) # <<>> =>
             \E x \in q.workers : /\ x.kind = w.kind /\ x.todo = Tail(w.todo)
                                  /\ x.epoch = w.epoch /\ x.gen = w.gen /\ x.origin = w.origin /\ x.ident = w.ident
    BY <1>1, <1>2, RestKeeps
  <2> HIDE DEF q
  <2>3. rp' = [q EXCEPT !.ui = @ \cup {job(w, v)}] /\ w.gen = rp.gen BY <1>4, <2>1 DEF q, stopped
  <2>4. PanelBase(rp') /\ Redraws(q, rp', {"ui"}) /\ rp'.ui = q.ui \cup {j}
    <3>1. w.kind = "estimate" /\ w.gen = rp.gen BY <1>1, <2>3
    <3>2. JobFits(rp, j) BY <1>2, <3>1, JobRead
    <3> HIDE DEF j
    <3>3. JobFits(q, j) BY <2>2, <3>2, JobStillFits
    <3>4. rp' = [q EXCEPT !.ui = @ \cup {j}] BY <2>3 DEF j
    <3> QED BY <2>2, <3>3, <3>4, JobAdded
  <2>5. /\ j.kind = "estimate" /\ j.epoch = w.epoch /\ j.gen = w.gen /\ j.origin = w.origin /\ j.ident = w.ident
        /\ j.key = Head(w.todo)
    BY <1>1 DEF job
  <2> HIDE DEF j
  <2>6. /\ rp'.epoch = rp.epoch /\ rp'.gen = rp.gen /\ rp'.tab = rp.tab /\ rp'.ident = rp.ident
        /\ rp'.workers = q.workers /\ rp'.counts = rp.counts /\ q.ui = rp.ui
    BY <2>2, <2>4 DEF Redraws, PanelParts
  <2>7. ASSUME ForPanel(rp, w), NEW k \in Range(w.todo) PROVE OnItsWay(rp', k)
    <3>1. Keyed(w.todo) BY <1>1, <1>2 DEF PanelBase, WorkFits
    <3>2. k = Head(w.todo) \/ (Tail(w.todo) # <<>> /\ k \in Range(Tail(w.todo))) BY <3>1, <2>7, TailKeyed
    <3>3. CASE k = Head(w.todo) BY <2>4, <2>5, <2>6, <2>7, <3>3 DEF OnItsWay, ForPanel
    <3>4. CASE Tail(w.todo) # <<>> /\ k \in Range(Tail(w.todo)) BY <1>1, <2>2, <2>6, <2>7, <3>4 DEF OnItsWay, ForPanel
    <3> QED BY <3>2, <3>3, <3>4
  <2>8. \A k : OnItsWay(rp, k) => OnItsWay(rp', k)
    <3> SUFFICES ASSUME NEW k, OnItsWay(rp, k) PROVE OnItsWay(rp', k) OBVIOUS
    <3>1. OnItsWay(q, k) \/ (ForPanel(rp, w) /\ k \in Range(w.todo)) BY <2>2, OnItsWayWithout
    <3>2. ASSUME OnItsWay(q, k) PROVE OnItsWay(rp', k) BY <2>4, <3>2, OnItsWayMore
    <3> QED BY <2>7, <3>1, <3>2
  <2>9. \A x : x.kind = "repaint" => (x \in rp'.ui <=> x \in rp.ui) BY <2>4, <2>5, <2>6
  <2>10. Redraws(rp, rp', {"workers", "ui", "previews", "counts"}) BY <2>2, <2>4 DEF Redraws
  <2> QED BY <2>4, <2>6, <2>8, <2>9, <2>10, WorkDone
<1> QED BY <1>3, <1>4

LEMMA ExactDone == ASSUME PanelOK(rp), WorkExact PROVE PanelOK(rp')
<1>1. PICK w \in rp.workers :
         /\ w.kind = "exact"
         /\ rp' \in {rest(rp, w)} \cup
                     (IF stopped(rp, w) \/ ~rp.focused THEN {}
                      ELSE {[rest(rp, w) EXCEPT !.ui = @ \cup {job(w, v)}] : v \in ReadExact(rp, Head(w.todo))})
  BY DEF WorkExact
<1> DEFINE q == rest(rp, w)
<1>2. PanelBase(rp) BY DEF PanelOK
<1>3. PanelBase(q) /\ Redraws(rp, q, {"workers"}) /\ \A x \in rp.workers : x = w \/ x \in q.workers BY <1>2, RestKeeps
<1>4. \/ rp' = q
      \/ ~stopped(rp, w) /\ \E v \in {rp.version[Head(w.todo).child], Failed} :
                               rp' = [q EXCEPT !.ui = @ \cup {job(w, v)}]
  BY <1>1 DEF ReadExact
<1> HIDE DEF q
<1>5. \A k : OnItsWay(rp, k) => OnItsWay(q, k) BY <1>1, <1>3, OnItsWayWithout
<1>6. PanelOK(q) BY <1>3, <1>5, WorkersOnly
<1>7. ASSUME ~stopped(rp, w), NEW v \in {rp.version[Head(w.todo).child], Failed},
             rp' = [q EXCEPT !.ui = @ \cup {job(w, v)}]
      PROVE  PanelOK(rp')
  <2>1. w.gen = rp.gen /\ w.kind \in {"estimate", "exact"} BY <1>1, <1>7 DEF stopped
  <2>2. PanelBase(rp') /\ Redraws(q, rp', {"ui"}) /\ rp'.ui = q.ui \cup {job(w, v)}
    <3> DEFINE j == job(w, v)
    <3>2. JobFits(rp, j) BY <1>2, <2>1, JobRead
    <3> HIDE DEF j
    <3>3. JobFits(q, j) BY <1>3, <3>2, JobStillFits
    <3>4. rp' = [q EXCEPT !.ui = @ \cup {j}] BY <1>7 DEF j
    <3>5. PanelBase(rp') /\ Redraws(q, rp', {"ui"}) /\ rp'.ui = q.ui \cup {j} BY <1>3, <3>3, <3>4, JobAdded
    <3> QED BY <3>5 DEF j
  <2>3. job(w, v).kind = "exact" BY <1>1 DEF job
  <2>4. rp'.counts = q.counts /\ Redraws(q, rp', {"workers", "ui", "previews", "counts"})
    BY <2>2 DEF Redraws, PanelParts
  <2>5. \A k : OnItsWay(q, k) => OnItsWay(rp', k) BY <2>2, OnItsWayMore
  <2>6. \A x : x.kind = "repaint" => (x \in rp'.ui <=> x \in q.ui) BY <2>2, <2>3
  <2> QED BY <1>6, <2>2, <2>4, <2>5, <2>6, WorkDone
<1> QED BY <1>4, <1>6, <1>7

LEMMA CountPublished == ASSUME PanelOK(rp), RunPublish PROVE PanelOK(rp')
<1>1. PICK j \in rp.ui :
         LET s == [rp EXCEPT !.ui = @ \ {j}]
             c == countOf(s, j.key)
             new == IF j.kind = "estimate" THEN [c EXCEPT !.est = j.got] ELSE [c EXCEPT !.exact = j.got]
         IN  /\ j.kind \in {"estimate", "exact"}
             /\ rp' = IF publishCount(s, j)
                      THEN [s EXCEPT !.counts = [k \in DOMAIN @ \cup {j.key} |-> IF k = j.key THEN new ELSE @[k]]]
                      ELSE s
  BY DEF RunPublish
<1> DEFINE s == [rp EXCEPT !.ui = @ \ {j}]
           c == countOf(s, j.key)
           new == IF j.kind = "estimate" THEN [c EXCEPT !.est = j.got] ELSE [c EXCEPT !.exact = j.got]
           counts == [k \in DOMAIN s.counts \cup {j.key} |-> IF k = j.key THEN new ELSE s.counts[k]]
           r == [s EXCEPT !.counts = counts]
<1>2. PanelBase(s) /\ Redraws(rp, s, {"ui"}) /\ s.ui = rp.ui \ {j} BY CallbackTaken DEF PanelOK
<1>3. rp' = IF publishCount(s, j) THEN r ELSE s BY <1>1
<1>4. j.kind \in {"estimate", "exact"} /\ JobFits(rp, j) BY <1>1 DEF PanelOK, PanelBase, JobsFit
<1> HIDE DEF s
<1>5. /\ s.open = rp.open /\ s.epoch = rp.epoch /\ s.gen = rp.gen /\ s.tab = rp.tab /\ s.ident = rp.ident
      /\ s.counts = rp.counts /\ s.evicted = rp.evicted /\ s.workers = rp.workers /\ DOMAIN s = PanelParts
  BY <1>2 DEF Redraws, PanelParts
<1>6. \A x : x.kind = "repaint" => (x \in s.ui <=> x \in rp.ui) BY <1>2, <1>4
<1>7. ASSUME NEW k, OnItsWay(rp, k), rp.open
      PROVE  OnItsWay(s, k) \/ (k = j.key /\ publishCount(s, j))
  BY <1>2, <1>5, <1>7 DEF OnItsWay, ForPanel, publishCount
<1>8. CASE ~publishCount(s, j)
  <2>1. Redraws(rp, s, {"workers", "ui", "previews", "counts"}) BY <1>2 DEF Redraws
  <2> QED BY <1>2, <1>3, <1>5, <1>6, <1>7, <1>8, <2>1, WorkDone
<1>9. CASE publishCount(s, j)
  <2>1. j.gen = s.gen BY <1>9 DEF publishCount
  <2>2. j.key.child \in RpChildren /\ CountFits(s, j.key, j.got) /\ j.got # Unread
    BY <1>4, <1>5, <2>1 DEF JobFits, CountFits, Failed, Unread
  <2>3. DOMAIN c = {"est", "exact"} /\ CountFits(s, j.key, c.est) /\ CountFits(s, j.key, c.exact)
    BY <1>2 DEF countOf, NoCount, PanelBase, CountsFit, CountFits
  <2> HIDE DEF c
  <2>4. /\ DOMAIN new = {"est", "exact"} /\ CountFits(s, j.key, new.est) /\ CountFits(s, j.key, new.exact)
        /\ new.est # Unread \/ new.exact # Unread
    BY <2>2, <2>3
  <2> HIDE DEF new
  <2>5. /\ DOMAIN counts = DOMAIN s.counts \cup {j.key}
        /\ \A k \in DOMAIN counts : IF k = j.key THEN counts[k] = new
                                    ELSE k \in DOMAIN s.counts /\ counts[k] = s.counts[k]
    OBVIOUS
  <2> HIDE DEF counts
  <2>6. Redraws(s, r, {"counts"}) /\ r.counts = counts BY <1>5 DEF Redraws, PanelParts
  <2>7. r.evicted = s.evicted /\ r.ui = s.ui BY <2>6 DEF Redraws, PanelParts
  <2> HIDE DEF r
  <2>8. CountsFit(r)
    <3> SUFFICES ASSUME NEW k \in DOMAIN counts
                 PROVE  /\ k.child \in RpChildren /\ DOMAIN counts[k] = {"est", "exact"}
                        /\ CountFits(s, k, counts[k].est) /\ CountFits(s, k, counts[k].exact)
                        /\ counts[k].est # Unread \/ counts[k].exact # Unread
      BY <2>6, <2>7 DEF CountsFit, CountFits
    <3>1. CASE k = j.key BY <2>2, <2>4, <2>5, <3>1
    <3>2. CASE k # j.key
      <4>1. k \in DOMAIN s.counts /\ counts[k] = s.counts[k] BY <2>5, <3>2
      <4> QED BY <1>2, <4>1 DEF PanelBase, CountsFit
    <3> QED BY <3>1, <3>2
  <2>9. PanelShape(r) BY <1>2, <2>6 DEF Redraws, PanelParts, PanelBase, PanelShape
  <2>10. PanelBase(r) BY <1>2, <2>6, <2>8, <2>9, BaseKept DEF PanelBase
  <2>11. Redraws(rp, r, {"workers", "ui", "previews", "counts"}) BY <1>2, <2>6 DEF Redraws
  <2>12. \A k : k \in DOMAIN rp.counts => k \in DOMAIN r.counts BY <1>5, <2>5, <2>6
  <2>13. rp.open => \A k : OnItsWay(rp, k) => k \in DOMAIN r.counts \/ OnItsWay(r, k)
    <3>1. \A k : OnItsWay(s, k) => OnItsWay(r, k)
      <4>1. r.workers = s.workers /\ r.epoch = s.epoch /\ r.gen = s.gen /\ r.tab = s.tab /\ r.ident = s.ident
        BY <2>6 DEF Redraws, PanelParts
      <4> QED BY <2>7, <4>1 DEF OnItsWay, ForPanel
    <3> QED BY <1>7, <2>5, <2>6, <3>1
  <2>14. \A x : x.kind = "repaint" => (x \in r.ui <=> x \in rp.ui) BY <1>6, <2>7
  <2>15. PanelOK(r) BY <2>10, <2>11, <2>12, <2>13, <2>14, WorkDone
  <2> QED BY <1>3, <1>9, <2>15
<1> QED BY <1>8, <1>9

\* A write: an eviction of its table's counts is to come.
LEMMA ChildWritten == ASSUME PanelOK(rp), WriteChild PROVE PanelOK(rp')
<1>1. PICK c \in RpChildren, how \in {"edit", "statement"} :
         rp' = RpSpend([rp EXCEPT !.version[c] = @ + 1,
                                  !.evicting = @ \cup {[how |-> how, child |-> c, version |-> rp.version[c] + 1]}], "writes")
  BY DEF WriteChild
<1> DEFINE e == [how |-> how, child |-> c, version |-> rp.version[c] + 1]
           q == [rp EXCEPT !.version[c] = @ + 1, !.evicting = @ \cup {e}]
<1>2. rp' = RpSpend(q, "writes") BY <1>1
<1>3. e.child = c /\ e.version = rp.version[c] + 1 OBVIOUS
<1> HIDE DEF e
<1>4. DOMAIN rp = PanelParts /\ VersionsFit(rp) BY DEF PanelOK, PanelBase, PanelShape
<1>5. /\ Redraws(rp, q, {"version", "evicting"}) /\ q.evicting = rp.evicting \cup {e}
      /\ q.version = [rp.version EXCEPT ![c] = @ + 1]
  BY <1>4 DEF Redraws, PanelParts
<1> HIDE DEF q
<1>6. q.evicted = rp.evicted BY <1>5 DEF Redraws, PanelParts
<1>7. /\ DOMAIN q.version = RpChildren
      /\ \A d \in RpChildren : q.version[d] \in Nat /\ q.version[d] >= rp.version[d]
      /\ q.version[c] = rp.version[c] + 1
  BY <1>4, <1>5 DEF VersionsFit
<1>8. VersionsFit(q)
  <2>1. \A d \in RpChildren : q.evicted[d] \in Nat /\ q.evicted[d] <= q.version[d] BY <1>4, <1>6, <1>7 DEF VersionsFit
  <2>2. \A x \in q.evicting : x.child \in RpChildren /\ x.version \in Nat /\ x.version <= q.version[x.child]
    BY <1>3, <1>4, <1>5, <1>7 DEF VersionsFit
  <2> QED BY <1>4, <1>6, <1>7, <2>1, <2>2 DEF VersionsFit
<1>9. PanelShape(q) BY <1>5 DEF Redraws, PanelParts, PanelOK, PanelBase, PanelShape
<1>10. JumpFits(q) BY <1>5, BaseKept DEF PanelOK
<1>11. PanelOK(q) BY <1>5, <1>8, <1>9, <1>10, IdleKeeps DEF Redraws
<1> QED BY <1>2, <1>11, SpendKeeps

\* An eviction: the counts of the table go, and answers under way are of the past.
LEMMA EvictKeeps == ASSUME PanelOK(rp), Evict PROVE PanelOK(rp')
<1>1. PICK e \in rp.evicting :
         LET s == [rp EXCEPT !.evicting = @ \ {e}, !.evicted[e.child] = IF @ < e.version THEN e.version ELSE @]
         IN  rp' = IF e.how = "edit" THEN EvictExactCounts(s, e.child) ELSE EvictAllExactCounts(s)
  BY DEF Evict
<1> DEFINE c == e.child
           to == IF rp.evicted[c] < e.version THEN e.version ELSE rp.evicted[c]
           s == [rp EXCEPT !.evicting = @ \ {e}, !.evicted[c] = to]
           kept == IF e.how = "edit" THEN Restrict(s.counts, {k \in DOMAIN s.counts : k.child # c}) ELSE <<>>
           F == {"gen", "counts", "dirty", "previews", "reverse", "evicted", "evicting", "open", "focused"}
<1>2. DOMAIN rp = PanelParts /\ VersionsFit(rp) /\ PanelBase(rp) BY DEF PanelOK, PanelBase, PanelShape
<1>3. /\ Redraws(rp, s, {"evicting", "evicted"}) /\ s.evicting = rp.evicting \ {e}
      /\ s.evicted = [rp.evicted EXCEPT ![c] = to]
  BY <1>2 DEF Redraws, PanelParts
<1>4. rp' = IF e.how = "edit" THEN EvictExactCounts(s, c) ELSE EvictAllExactCounts(s) BY <1>1
<1> HIDE DEF s
<1>5. DOMAIN s = PanelParts /\ s.counts = rp.counts /\ s.gen = rp.gen /\ s.open = rp.open /\ s.version = rp.version
  BY <1>3 DEF Redraws, PanelParts
<1>6. /\ Redraws(s, rp', {"gen", "counts", "dirty", "reverse"}) /\ rp'.gen = s.gen + 1 /\ rp'.dirty
      /\ rp'.counts = kept
  BY <1>4, <1>5 DEF Redraws, PanelParts, EvictExactCounts, EvictAllExactCounts
<1>7. \A k \in DOMAIN kept : k \in DOMAIN rp.counts /\ kept[k] = rp.counts[k] /\ k.child # c BY <1>5 DEF Restrict
<1> HIDE DEF kept
<1>8. Redraws(rp, rp', F) BY <1>3, <1>6 DEF Redraws
<1>9. rp'.evicted = s.evicted /\ rp'.evicting = s.evicting /\ rp'.version = rp.version /\ rp'.open = rp.open
  BY <1>5, <1>6 DEF Redraws, PanelParts
<1>10. c \in RpChildren /\ to \in Nat /\ to <= rp.version[c] BY <1>2 DEF VersionsFit
<1> HIDE DEF to, c
<1>11. VersionsFit(rp') BY <1>2, <1>3, <1>9, <1>10 DEF VersionsFit
<1>12. \A k \in DOMAIN rp'.counts : /\ k \in DOMAIN rp.counts /\ rp'.counts[k] = rp.counts[k]
                                     /\ rp'.evicted[k.child] = rp.evicted[k.child]
  <2>1. \A d \in RpChildren : d # c => s.evicted[d] = rp.evicted[d] BY <1>2, <1>3 DEF VersionsFit
  <2>2. \A k \in DOMAIN rp.counts : k.child \in RpChildren BY <1>2 DEF PanelBase, CountsFit
  <2> QED BY <1>6, <1>7, <1>9, <2>1, <2>2
<1>13. rp'.gen = rp.gen + 1 /\ PaintFits(rp) BY <1>5, <1>6 DEF PanelOK
<1> QED BY <1>2, <1>6, <1>8, <1>9, <1>11, <1>12, <1>13, GenerationTurns

LEMMA PanelInit == ASSUME RpInit PROVE PanelOK(rp)
<1>1. PICK left \in RpTopics, tab \in RpTabs, known \in [RpTabs -> BOOLEAN] :
        rp = [open |-> FALSE, focused |-> FALSE, tab |-> tab, row |-> [t \in RpTabs |-> 1], known |-> known,
              ident |-> [t \in RpTabs |-> 0], epoch |-> 0, timer |-> 0, ui |-> {}, workers |-> {},
              built |-> [tab |-> RpNone, row |-> 0], outbound |-> <<>>, inbound |-> <<>>, sel |-> 0, dirty |-> FALSE,
              previews |-> {}, counts |-> <<>>, gen |-> 0, forward |-> {}, reverse |-> {},
              picker |-> NoPicker, jumped |-> [args |-> here([tab |-> tab, row |-> [t \in RpTabs |-> 1]]),
                                               entry |-> here([tab |-> tab, row |-> [t \in RpTabs |-> 1]]), owed |-> FALSE],
              version |-> [c \in RpChildren |-> 0], evicted |-> [c \in RpChildren |-> 0], evicting |-> {}, left |-> left]
  BY DEF RpInit
<1> DEFINE h == here([tab |-> tab, row |-> [t \in RpTabs |-> 1]])
<1> HIDE DEF h
<1>2. rp = [open |-> FALSE, focused |-> FALSE, tab |-> tab, row |-> [t \in RpTabs |-> 1], known |-> known,
            ident |-> [t \in RpTabs |-> 0], epoch |-> 0, timer |-> 0, ui |-> {}, workers |-> {},
            built |-> [tab |-> RpNone, row |-> 0], outbound |-> <<>>, inbound |-> <<>>, sel |-> 0, dirty |-> FALSE,
            previews |-> {}, counts |-> <<>>, gen |-> 0, forward |-> {}, reverse |-> {},
            picker |-> NoPicker, jumped |-> [args |-> h, entry |-> h, owed |-> FALSE],
            version |-> [c \in RpChildren |-> 0], evicted |-> [c \in RpChildren |-> 0], evicting |-> {}, left |-> left]
  BY <1>1 DEF h
<1>3. /\ DOMAIN rp = PanelParts /\ ~rp.open /\ rp.tab = tab /\ rp.row = [t \in RpTabs |-> 1]
      /\ rp.ident = [t \in RpTabs |-> 0] /\ rp.epoch = 0 /\ rp.timer = 0 /\ rp.ui = {} /\ rp.workers = {}
      /\ rp.outbound = <<>> /\ rp.inbound = <<>> /\ rp.sel = 0 /\ rp.counts = <<>> /\ rp.gen = 0
      /\ rp.jumped = [args |-> h, entry |-> h, owed |-> FALSE]
      /\ rp.version = [c \in RpChildren |-> 0] /\ rp.evicted = [c \in RpChildren |-> 0] /\ rp.evicting = {}
  BY <1>2 DEF PanelParts
<1>4. Range(<<>>) = {} /\ <<>> \in Seq({}) /\ DOMAIN <<>> = {} BY DEF Range
<1>5. PanelShape(rp) /\ VersionsFit(rp) BY <1>3 DEF PanelShape, VersionsFit
<1>6. ListsFit(rp) /\ WorkFits(rp) /\ JobsFit(rp) /\ CountsFit(rp)
  BY <1>3, <1>4 DEF ListsFit, WorkFits, JobsFit, CountsFit
<1>7. JumpFits(rp) BY <1>3 DEF JumpFits
<1>8. PanelBase(rp) BY <1>5, <1>6, <1>7 DEF PanelBase
<1> QED BY <1>3, <1>8, OwingIsFine

LEMMA PanelStep == ASSUME PanelOK(rp), RpNext \/ UNCHANGED rp PROVE PanelOK(rp')
<1>1. CASE UNCHANGED rp BY <1>1
<1>2. CASE MovePanelCursor \/ SwitchPanelTab \/ IdentityResolved \/ TimerFires \/ RunRepaint
  BY <1>2, MoveKeeps, SwitchKeeps, IdentityKeeps, TimerKeeps, RepaintRuns
<1>3. CASE TogglePanel \/ ConnectionDeleted \/ EnterPanel \/ ExitPanel \/ MoveSelection \/ Jump
  BY <1>3, ToggleKeeps, DeletedKeeps, EnterPanelKeeps, ExitKeeps, SelectionKeeps, JumpKeeps
<1>4. CASE fkReverse \/ PickerTab \/ ClosePicker \/ SelectReverse BY <1>4, PickerOpens, PickerSteps, SelectKeeps
<1>5. CASE WorkPreview \/ WorkEstimate \/ WorkExact \/ RunPublish \/ WriteChild \/ Evict
  BY <1>5, PreviewKeeps, EstimateKeeps, ExactDone, CountPublished, ChildWritten, EvictKeeps
<1> QED BY <1>1, <1>2, <1>3, <1>4, <1>5 DEF RpNext

LEMMA PanelTrue == ASSUME PanelOK(rp) PROVE RelTruth
<1>1. CountsFresh BY DEF CountsFresh, PanelOK, PanelBase, CountsFit, CountFits
<1>2. PaintedForRow BY DEF PaintedForRow, PanelOK, PaintFits
<1>3. JumpsHome BY DEF JumpsHome, PanelOK, PanelBase, JumpFits
<1>4. FilledIn
  <2>1. \A k \in DOMAIN rp.counts : countOf(rp, k) # NoCount
    <3> SUFFICES ASSUME NEW k \in DOMAIN rp.counts PROVE rp.counts[k] # NoCount BY DEF countOf
    <3>1. rp.counts[k].est # Unread \/ rp.counts[k].exact # Unread BY DEF PanelOK, PanelBase, CountsFit
    <3> QED BY <3>1 DEF NoCount
  <2> QED BY <2>1 DEF FilledIn, PanelOK, FillFits, OnItsWay
<1> QED BY <1>1, <1>2, <1>3, <1>4 DEF RelTruth

\* The relationship panel shows the row under the cursor once it has caught up, with
\* counts no older than the last eviction, and a jump is from the row it returns to.
THEOREM RelationsTheorem == RpSpec => []RelTruth
<1>1. RpInit => PanelOK(rp) BY PanelInit
<1>2. PanelOK(rp) /\ [RpNext]_rp => PanelOK(rp)' BY PanelStep
<1>3. PanelOK(rp) => RelTruth BY PanelTrue
<1> QED BY <1>1, <1>2, <1>3, PTL DEF RpSpec

-----------------------------------------
\* The connection manager and the connections file (ConnectionManager).
\* Each program keeps its part of the invariant; the file and the lock are
\* shared, so what a save read is compared with what the file holds only
\* where the code does it.

ManagerParts == {"file", "lock", "topic", "prog", "policy", "who", "overwrote", "ops"}
PgParts == {"mode", "items", "cursor", "form", "revision", "popup", "testGen", "testAttempt", "probes",
                 "connectGen", "stages", "connectErr", "current", "attempts", "posted", "write"}
FormParts == {"conn", "focus", "sshEnabled", "sshAuth", "isEdit", "originalName", "originalAccess",
              "originalHistory", "existingNames", "err", "status", "tested"}
WriteParts == {"at", "kind", "old", "conn", "seen"}
Locking == {"read", "rename"}

\* The form and its probes: an answer of the present revision is for the connection on screen.
FormFits(p) ==
    /\ DOMAIN p.form = FormParts /\ IsProfile(p.form.conn) /\ p.revision \in Nat
    /\ p.form.status = "connection ok" => p.mode = "form" /\ materializedConnection(p.form) = p.form.tested
    /\ \A b \in p.probes :
         /\ DOMAIN b = {"gen", "revision", "conn", "settled", "answer"}
         /\ b.revision \in Nat /\ b.revision <= p.revision
         /\ b.revision = p.revision => b.conn = materializedConnection(p.form)
\* The checklist: an attempt has its number alone, and what was posted in its name it has reported.
ShownBy(p, a) ==
    /\ p.connectErr => "error" \in a.reported
    /\ p.stages.tunnel = "done" => "auth" \in a.reported
    /\ p.stages.auth = "done" => "objects" \in a.reported
    /\ p.stages.objects = "done" => "loaded" \in a.reported
ChecklistFits(p) ==
    /\ p.connectGen \in Nat /\ DOMAIN p.stages = {"tunnel", "auth", "objects"}
    /\ \A a \in p.attempts : /\ DOMAIN a = {"gen", "at", "reported"} /\ a.gen \in Nat /\ a.gen <= p.connectGen
                             /\ a.at \in {"tunnel", "auth", "objects", "loaded", "done", "error"}
    /\ \A a, b \in p.attempts : a.gen = b.gen => a = b
    /\ \A r \in p.posted : \E a \in p.attempts : a.gen = r.gen /\ r.what \in a.reported
    /\ \A r \in p.posted : r.what \in {"auth", "objects", "loaded", "done", "error"}
    /\ p.mode = "connecting" => \E a \in p.attempts : a.gen = p.connectGen /\ ShownBy(p, a)
\* The save under way.
WriteFits(p) ==
    LET w == p.write IN
    /\ DOMAIN w = WriteParts /\ IsProfile(w.conn)
    /\ w.at \in {"none", "lock", "read", "rename"}
    /\ w.at # "none" => w.kind \in {"update", "append", "delete"}
    /\ w.at # "none" /\ w.kind # "delete" => TunnelSound(w.conn.tunnel)
    /\ w.at = "rename" => FileFits(w.seen)
ProgramOK(p) ==
    /\ DOMAIN p = PgParts
    /\ \A n \in DOMAIN p.items : IsProfile(p.items[n])
    /\ FormFits(p) /\ ChecklistFits(p) /\ WriteFits(p)

WrittenFits(file) == \A n \in DOMAIN file : file[n].password = "" /\ (file[n].host # "" => file[n].dsn = "")
Policy(file, policy) == \A n \in DOMAIN file : <<file[n].access, file[n].history>> = policy[file[n].name]
SharedOK(c) ==
    /\ DOMAIN c = ManagerParts /\ DOMAIN c.prog = CmPrograms
    /\ FileFits(c.file) /\ (c.who = "program" => WrittenFits(c.file))
    /\ c.overwrote \subseteq {"append", "delete"}
    /\ c.overwrote = {} => Policy(c.file, c.policy)
    /\ \A i \in CmPrograms : c.prog[i].write.at \in Locking <=> c.lock = i
ManagerOK(c) == SharedOK(c) /\ \A i \in CmPrograms : ProgramOK(c.prog[i])

PgMoved(p, r, F) == DOMAIN r = PgParts /\ \A x \in PgParts \ F : r[x] = p[x]
FormMoved(f, g, F) == DOMAIN g = FormParts /\ \A x \in FormParts \ F : g[x] = f[x]
\* The probes that are left are the same ones, some of them settled.
Tracked(old, new) ==
    \A b \in new : \E a \in old : DOMAIN b = DOMAIN a /\ b.revision = a.revision /\ b.conn = a.conn

\* What is not a form and not a checklist stays.
LEMMA ProfileShape ==
    /\ DOMAIN NoTunnel = {"on", "host", "user", "key", "agent"} /\ NoTunnel.on = FALSE /\ NoTunnel.agent = FALSE
    /\ DOMAIN EmptyTunnel = DOMAIN NoTunnel /\ EmptyTunnel.on = TRUE
    /\ DOMAIN Profile("", "", NoTunnel) = {"name", "host", "dsn", "password", "tunnel", "access", "history"}
  BY DEF NoTunnel, EmptyTunnel, Profile

LEMMA FormKept ==
    ASSUME NEW p, NEW r, FormFits(p), r.form = p.form, r.revision = p.revision, r.probes \subseteq p.probes,
           p.mode = "form" => r.mode = "form"
    PROVE  FormFits(r)
  BY DEF FormFits

LEMMA ChecklistKept ==
    ASSUME NEW p, NEW r, ChecklistFits(p), r.connectGen = p.connectGen, r.stages = p.stages,
           r.connectErr = p.connectErr, r.attempts = p.attempts, r.posted \subseteq p.posted,
           r.mode = "connecting" => p.mode = "connecting"
    PROVE  ChecklistFits(r)
<1>1. r.mode = "connecting" => \E a \in r.attempts : a.gen = r.connectGen /\ ShownBy(r, a) BY DEF ChecklistFits, ShownBy
<1>2. \A s \in r.posted : \E a \in r.attempts : a.gen = s.gen /\ s.what \in a.reported BY DEF ChecklistFits
<1> QED BY <1>1, <1>2 DEF ChecklistFits

\* The connection a form stands for depends on three of its fields.
LEMMA SameConnection ==
    ASSUME NEW f, NEW g, FormMoved(f, g, {"focus", "err", "status", "tested"})
    PROVE  materializedConnection(g) = materializedConnection(f) /\ g.conn = f.conn
  BY DEF FormMoved, FormParts, materializedConnection

\* A message or the focus of the form changes, and "connection ok" is shown over what was tested only.
LEMMA MessageKeeps ==
    ASSUME NEW p, NEW r, ProgramOK(p), PgMoved(p, r, {"form", "probes", "testAttempt", "testGen", "popup", "write"}),
           FormMoved(p.form, r.form, {"focus", "err", "status", "tested"}), Tracked(p.probes, r.probes), WriteFits(r),
           r.form.status = "connection ok" =>
               (r.form.status = p.form.status /\ r.form.tested = p.form.tested)
               \/ (p.mode = "form" /\ materializedConnection(p.form) = r.form.tested)
    PROVE  ProgramOK(r)
<1>1. /\ DOMAIN r = PgParts /\ r.mode = p.mode /\ r.items = p.items /\ r.revision = p.revision
      /\ r.connectGen = p.connectGen /\ r.stages = p.stages /\ r.connectErr = p.connectErr
      /\ r.attempts = p.attempts /\ r.posted = p.posted
  BY DEF PgMoved, PgParts
<1>2. materializedConnection(r.form) = materializedConnection(p.form) /\ r.form.conn = p.form.conn /\ DOMAIN r.form = FormParts
  BY SameConnection DEF FormMoved
<1>3. FormFits(p) /\ ChecklistFits(p) BY DEF ProgramOK
<1>4. r.form.status = "connection ok" => r.mode = "form" /\ materializedConnection(r.form) = r.form.tested
  BY <1>1, <1>2, <1>3 DEF FormFits
<1>5. ASSUME NEW b \in r.probes
      PROVE  /\ DOMAIN b = {"gen", "revision", "conn", "settled", "answer"}
             /\ b.revision \in Nat /\ b.revision <= r.revision
             /\ b.revision = r.revision => b.conn = materializedConnection(r.form)
  <2>1. PICK a \in p.probes : DOMAIN b = DOMAIN a /\ b.revision = a.revision /\ b.conn = a.conn BY DEF Tracked
  <2>2. /\ DOMAIN a = {"gen", "revision", "conn", "settled", "answer"}
        /\ a.revision \in Nat /\ a.revision <= p.revision
        /\ a.revision = p.revision => a.conn = materializedConnection(p.form)
    BY <1>3 DEF FormFits
  <2>3. r.revision = p.revision /\ materializedConnection(r.form) = materializedConnection(p.form) BY <1>1, <1>2
  <2> QED BY <2>1, <2>2, <2>3
<1>6. FormFits(r) BY <1>1, <1>2, <1>3, <1>4, <1>5 DEF FormFits
<1>7. ChecklistFits(r) BY <1>1, <1>3, ChecklistKept
<1> QED BY <1>1, <1>6, <1>7 DEF ProgramOK

LEMMA CancelledProbes ==
    ASSUME NEW p, DOMAIN p = PgParts
    PROVE  LET r == cancelTestConnection(p) IN
           PgMoved(p, r, {"testGen", "testAttempt", "probes"}) /\ Tracked(p.probes, r.probes)
<1> DEFINE settledBy(b) == IF b.gen = p.testAttempt THEN [b EXCEPT !.settled = TRUE] ELSE b
           r == cancelTestConnection(p)
<1>1. r.probes = {settledBy(b) : b \in p.probes} /\ PgMoved(p, r, {"testGen", "testAttempt", "probes"})
  BY DEF cancelTestConnection, PgMoved, PgParts
<1>2. \A b : DOMAIN settledBy(b) = DOMAIN b /\ settledBy(b).revision = b.revision /\ settledBy(b).conn = b.conn OBVIOUS
<1> HIDE DEF settledBy, r
<1>3. Tracked(p.probes, r.probes) BY <1>1, <1>2 DEF Tracked
<1> QED BY <1>1, <1>3 DEF r

LEMMA Invalidated ==
    ASSUME NEW p, ProgramOK(p)
    PROVE  LET r == InvalidateFormProbe(p) IN
           /\ PgMoved(p, r, {"testGen", "testAttempt", "probes", "revision", "form"}) /\ Tracked(p.probes, r.probes)
           /\ r.revision = p.revision + 1 /\ r.form = [p.form EXCEPT !.status = ""]
<1> DEFINE q == [p EXCEPT !.revision = @ + 1, !.form.status = ""]
           r == cancelTestConnection(q)
<1>1. /\ PgMoved(p, q, {"revision", "form"}) /\ q.revision = p.revision + 1
      /\ q.form = [p.form EXCEPT !.status = ""]
  BY DEF ProgramOK, PgMoved, PgParts
<1> HIDE DEF q
<1>2. PgMoved(q, r, {"testGen", "testAttempt", "probes"}) /\ Tracked(q.probes, r.probes)
  BY <1>1, CancelledProbes DEF PgMoved
<1> HIDE DEF r
<1>3. q.probes = p.probes /\ r.revision = q.revision /\ r.form = q.form
      /\ PgMoved(p, r, {"testGen", "testAttempt", "probes", "revision", "form"})
  BY <1>1, <1>2 DEF PgMoved, PgParts
<1> QED BY <1>1, <1>2, <1>3 DEF InvalidateFormProbe, q, r

LEMMA LaterRevision ==
    ASSUME NEW n \in Nat, NEW m
    PROVE  n + 1 \in Nat /\ (m \in Nat /\ m <= n => m <= n + 1 /\ m # n + 1)
  OBVIOUS

\* The form is another one: no probe in flight is of its revision.
LEMMA RewrittenKeeps ==
    ASSUME NEW p, NEW r, ProgramOK(p), PgMoved(InvalidateFormProbe(p), r, {"form", "mode", "popup", "write"}),
           DOMAIN r.form = FormParts, IsProfile(r.form.conn), r.form.status # "connection ok",
           r.mode = "connecting" => p.mode = "connecting", WriteFits(r)
    PROVE  ProgramOK(r)
<1> DEFINE q == InvalidateFormProbe(p)
<1>1. /\ PgMoved(p, q, {"testGen", "testAttempt", "probes", "revision", "form"}) /\ Tracked(p.probes, q.probes)
      /\ q.revision = p.revision + 1
  BY Invalidated
<1> HIDE DEF q
<1>2. PgMoved(q, r, {"form", "mode", "popup", "write"}) BY DEF q
<1>3. /\ DOMAIN r = PgParts /\ r.items = p.items /\ r.revision = p.revision + 1 /\ r.probes = q.probes
      /\ r.connectGen = p.connectGen /\ r.stages = p.stages /\ r.connectErr = p.connectErr
      /\ r.attempts = p.attempts /\ r.posted = p.posted
  BY <1>1, <1>2 DEF PgMoved, PgParts
<1>4. FormFits(p) /\ ChecklistFits(p) /\ p.revision \in Nat BY DEF ProgramOK, FormFits
<1>5. ASSUME NEW b \in r.probes
      PROVE  /\ DOMAIN b = {"gen", "revision", "conn", "settled", "answer"}
             /\ b.revision \in Nat /\ b.revision <= p.revision
  <2>1. b \in q.probes BY <1>3
  <2>2. PICK a \in p.probes : DOMAIN b = DOMAIN a /\ b.revision = a.revision BY <1>1, <2>1 DEF Tracked
  <2>3. DOMAIN a = {"gen", "revision", "conn", "settled", "answer"} /\ a.revision \in Nat /\ a.revision <= p.revision
    BY <1>4 DEF FormFits
  <2> QED BY <2>2, <2>3
<1>6. ASSUME NEW b \in r.probes PROVE b.revision <= r.revision /\ b.revision # r.revision
  <2>1. b.revision \in Nat /\ b.revision <= p.revision BY <1>5
  <2>2. b.revision <= p.revision + 1 /\ b.revision # p.revision + 1 BY <1>4, <2>1, LaterRevision
  <2> QED BY <1>3, <2>2
<1>7. FormFits(r)
  <2>1. r.revision \in Nat BY <1>3, <1>4, LaterRevision
  <2> QED BY <1>5, <1>6, <2>1 DEF FormFits
<1>8. ChecklistFits(r) BY <1>3, <1>4, ChecklistKept
<1> QED BY <1>3, <1>7, <1>8 DEF ProgramOK

\* The manager returns to the list.
LEMMA ListKeeps ==
    ASSUME NEW p, ProgramOK(p)
    PROVE  LET r == ManagerMode(p, "list") IN
           ProgramOK(r) /\ r.mode = "list" /\ PgMoved(p, r, {"mode", "revision", "form", "testGen", "testAttempt", "probes"})
<1> DEFINE q == InvalidateFormProbe(p)
           r == ManagerMode(p, "list")
<1>1. CASE p.mode = "form"
  <2>1. /\ PgMoved(p, q, {"testGen", "testAttempt", "probes", "revision", "form"}) /\ q.form = [p.form EXCEPT !.status = ""]
    BY Invalidated
  <2>2. r = [q EXCEPT !.mode = "list"] BY <1>1 DEF ManagerMode
  <2> HIDE DEF q
  <2>3. PgMoved(q, r, {"mode"}) /\ r.mode = "list" /\ r.form = q.form /\ r.write = p.write
    BY <2>1, <2>2 DEF PgMoved, PgParts
  <2> HIDE DEF r
  <2>4. DOMAIN r.form = FormParts /\ r.form.conn = p.form.conn /\ r.form.status = ""
    BY <2>1, <2>3 DEF ProgramOK, FormFits, FormParts
  <2>5. WriteFits(r) /\ IsProfile(r.form.conn) BY <2>3, <2>4 DEF ProgramOK, WriteFits, FormFits
  <2>6. PgMoved(InvalidateFormProbe(p), r, {"form", "mode", "popup", "write"}) BY <2>3 DEF PgMoved, q
  <2>7. ProgramOK(r) BY <2>3, <2>4, <2>5, <2>6, RewrittenKeeps
  <2>8. PgMoved(p, r, {"mode", "revision", "form", "testGen", "testAttempt", "probes"}) BY <2>1, <2>3 DEF PgMoved
  <2> QED BY <2>3, <2>7, <2>8 DEF r
<1>2. CASE p.mode # "form"
  <2>1. r = [p EXCEPT !.mode = "list"] BY <1>2 DEF ManagerMode
  <2>2. PgMoved(p, r, {"mode"}) /\ r.mode = "list" BY <2>1 DEF ProgramOK, PgMoved, PgParts
  <2> HIDE DEF r
  <2>3. /\ r.items = p.items /\ r.revision = p.revision /\ r.probes = p.probes /\ r.form = p.form
        /\ r.connectGen = p.connectGen /\ r.stages = p.stages /\ r.connectErr = p.connectErr
        /\ r.attempts = p.attempts /\ r.posted = p.posted /\ r.write = p.write /\ DOMAIN r = PgParts
    BY <2>2 DEF PgMoved, PgParts
  <2>4. FormFits(r) /\ ChecklistFits(r) /\ WriteFits(r)
    BY <1>2, <2>2, <2>3, FormKept, ChecklistKept DEF ProgramOK, WriteFits
  <2>5. ProgramOK(r) BY <2>3, <2>4 DEF ProgramOK
  <2>6. PgMoved(p, r, {"mode", "revision", "form", "testGen", "testAttempt", "probes"}) BY <2>2 DEF PgMoved
  <2> QED BY <2>2, <2>5, <2>6 DEF r
<1> QED BY <1>1, <1>2

\* A program moves and leaves the lock and the file alone.
LEMMA ProgramStep ==
    ASSUME ManagerOK(cm), NEW i \in CmPrograms, NEW p, ProgramOK(p), Set(i, p) \/ Step(i, p),
           p.write.at \in Locking <=> cm.prog[i].write.at \in Locking
    PROVE  ManagerOK(cm')
<1>1. /\ DOMAIN cm' = ManagerParts /\ cm'.prog = [cm.prog EXCEPT ![i] = p] /\ cm'.file = cm.file /\ cm'.lock = cm.lock
      /\ cm'.policy = cm.policy /\ cm'.who = cm.who /\ cm'.overwrote = cm.overwrote
  BY DEF ManagerOK, SharedOK, ManagerParts, Set, Step
<1>2. DOMAIN cm.prog = CmPrograms BY DEF ManagerOK, SharedOK
<1> DEFINE g == cm'.prog
<1>3. DOMAIN g = CmPrograms /\ g[i] = p /\ \A j \in CmPrograms : j # i => g[j] = cm.prog[j] BY <1>1, <1>2
<1> HIDE DEF g
<1>4. \A j \in CmPrograms : ProgramOK(g[j]) BY <1>3 DEF ManagerOK
<1>5. \A j \in CmPrograms : g[j].write.at \in Locking <=> cm.lock = j BY <1>3 DEF ManagerOK, SharedOK
<1>6. SharedOK(cm') BY <1>1, <1>3, <1>5 DEF ManagerOK, SharedOK, g
<1> QED BY <1>4, <1>6 DEF ManagerOK, g

ProfileParts == {"name", "host", "dsn", "password", "tunnel", "access", "history"}
TunnelParts == {"on", "host", "user", "key", "agent"}
LEMMA Profiles ==
    ASSUME NEW p
    PROVE  IsProfile(p) <=> DOMAIN p = ProfileParts /\ DOMAIN p.tunnel = TunnelParts
  BY ProfileShape DEF IsProfile, ProfileParts, TunnelParts

\* Every operator on a profile gives a profile.
LEMMA TunnelsKept ==
    ASSUME NEW p, IsProfile(p)
    PROVE  /\ IsProfile(ensureSSHTunnel(p)) /\ ensureSSHTunnel(p).tunnel.on
           /\ IsProfile(normalizeSSHTunnel(p)) /\ IsProfile([p EXCEPT !.tunnel = NoTunnel])
           /\ IsProfile(migrateLegacyDSN(p))
           /\ \A x : IsProfile([p EXCEPT !.name = x]) /\ IsProfile([p EXCEPT !.host = x])
                     /\ IsProfile([p EXCEPT !.access = x]) /\ IsProfile([p EXCEPT !.history = x])
           /\ \A x : IsProfile([p EXCEPT !.tunnel.host = x]) /\ IsProfile([p EXCEPT !.tunnel.user = x])
                     /\ IsProfile([p EXCEPT !.tunnel.key = x])
<1>1. DOMAIN p = ProfileParts /\ DOMAIN p.tunnel = TunnelParts /\ DOMAIN NoTunnel = TunnelParts
      /\ DOMAIN EmptyTunnel = TunnelParts /\ EmptyTunnel.on
  BY Profiles, ProfileShape DEF TunnelParts
<1>2. IsProfile(ensureSSHTunnel(p)) /\ ensureSSHTunnel(p).tunnel.on BY <1>1, Profiles DEF ensureSSHTunnel, ProfileParts
<1>3. IsProfile(normalizeSSHTunnel(p)) /\ IsProfile([p EXCEPT !.tunnel = NoTunnel])
  BY <1>1, Profiles DEF normalizeSSHTunnel, ProfileParts
<1>4. \A x : IsProfile([p EXCEPT !.name = x]) /\ IsProfile([p EXCEPT !.host = x])
             /\ IsProfile([p EXCEPT !.access = x]) /\ IsProfile([p EXCEPT !.history = x])
  BY <1>1, Profiles DEF ProfileParts
<1>5. \A x : IsProfile([p EXCEPT !.tunnel.host = x]) /\ IsProfile([p EXCEPT !.tunnel.user = x])
             /\ IsProfile([p EXCEPT !.tunnel.key = x])
  BY <1>1, Profiles DEF ProfileParts
<1>6. IsProfile(migrateLegacyDSN(p)) BY <1>4 DEF migrateLegacyDSN
<1> QED BY <1>2, <1>3, <1>4, <1>5, <1>6

LEMMA AuthKept ==
    ASSUME NEW p, IsProfile(p), NEW auth
    PROVE  LET q == applySSHAuth(p, auth) IN
           IsProfile(q) /\ (p.tunnel.on => ~(q.tunnel.agent /\ q.tunnel.key # ""))
<1> DEFINE q == applySSHAuth(p, auth)
<1>1. DOMAIN p = ProfileParts /\ DOMAIN p.tunnel = TunnelParts BY Profiles
<1>2. DOMAIN q = ProfileParts /\ DOMAIN q.tunnel = TunnelParts BY <1>1 DEF applySSHAuth, ProfileParts, TunnelParts
<1>3. p.tunnel.on => q.tunnel.key = "" \/ q.tunnel.agent = FALSE BY <1>1 DEF applySSHAuth, ProfileParts, TunnelParts
<1> QED BY <1>2, <1>3, Profiles

\* A tunnel that validates is sound once it is materialized.
LEMMA MaterializedFits ==
    ASSUME NEW f, IsProfile(f.conn)
    PROVE  LET m == materializedConnection(f) IN
           IsProfile(m) /\ (ValidateSSHTunnel(m.tunnel) => TunnelSound(m.tunnel))
<1>1. CASE f.sshEnabled BY <1>1, TunnelsKept, AuthKept DEF materializedConnection, TunnelSound
<1>2. CASE ~f.sshEnabled
  <2>1. materializedConnection(f) = [f.conn EXCEPT !.tunnel = NoTunnel] BY <1>2 DEF materializedConnection
  <2>2. materializedConnection(f).tunnel = NoTunnel BY <2>1, Profiles DEF ProfileParts
  <2> QED BY <2>1, <2>2, TunnelsKept, ProfileShape DEF TunnelSound
<1> QED BY <1>1, <1>2

FormShape(f) == DOMAIN f = FormParts /\ IsProfile(f.conn)
LEMMA NewForms ==
    ASSUME NEW x
    PROVE  FormShape(AddForm(x)) /\ AddForm(x).status = ""
  BY Profiles, ProfileShape DEF AddForm, FormShape, FormParts, Profile, ProfileParts, TunnelParts

LEMMA EditForms ==
    ASSUME NEW x, NEW p, IsProfile(p)
    PROVE  FormShape(EditForm(p, x)) /\ EditForm(p, x).status = ""
<1> DEFINE conn == migrateLegacyDSN(p)
<1>1. IsProfile(conn) BY TunnelsKept
<1> HIDE DEF conn
<1>2. EditForm(p, x).conn = conn /\ EditForm(p, x).status = "" /\ DOMAIN EditForm(p, x) = FormParts
  BY DEF EditForm, AddForm, FormParts, conn
<1> QED BY <1>1, <1>2 DEF FormShape

LEMMA FocusClamped ==
    ASSUME NEW f, DOMAIN f = FormParts
    PROVE  FormMoved(f, clampFocus(f), {"focus"})
  BY DEF clampFocus, FormMoved, FormParts

LEMMA ToggleShape ==
    ASSUME NEW f, FormShape(f)
    PROVE  FormShape(toggle(f)) /\ toggle(f).status = f.status
<1>1. ASSUME NEW g, FormShape(g), g.status = f.status
      PROVE  FormShape(clampFocus(g)) /\ clampFocus(g).status = f.status
  BY <1>1, FocusClamped DEF FormShape, FormMoved, FormParts
<1>2. FormShape(cycleCLIAccess(f)) /\ cycleCLIAccess(f).status = f.status
  <2>1. IsProfile([f.conn EXCEPT !.access = Cycle(CliAccessOptions, EffectiveCLIAccess(@))])
    BY TunnelsKept DEF FormShape
  <2> QED BY <2>1 DEF cycleCLIAccess, FormShape, FormParts
<1>3. FormShape([f EXCEPT !.conn.history = ~@]) /\ [f EXCEPT !.conn.history = ~@].status = f.status
  <2>1. IsProfile([f.conn EXCEPT !.history = ~@]) BY TunnelsKept DEF FormShape
  <2> QED BY <2>1 DEF FormShape, FormParts
<1>4. FormShape(toggleSSHEnabled(f)) /\ toggleSSHEnabled(f).status = f.status
  <2> DEFINE g == [f EXCEPT !.sshEnabled = ~@, !.conn = IF f.sshEnabled THEN @ ELSE ensureSSHTunnel(@)]
  <2>1. FormShape(g) /\ g.status = f.status BY TunnelsKept DEF FormShape, FormParts
  <2> HIDE DEF g
  <2> QED BY <1>1, <2>1 DEF toggleSSHEnabled, g
<1>5. FormShape(cycleSSHAuth(f)) /\ cycleSSHAuth(f).status = f.status
  <2> DEFINE g == [f EXCEPT !.sshAuth = Cycle(SshAuthOptions, @)]
  <2>1. FormShape(g) /\ g.status = f.status BY DEF FormShape, FormParts
  <2> HIDE DEF g
  <2> QED BY <1>1, <2>1 DEF cycleSSHAuth, g
<1> QED BY <1>2, <1>3, <1>4, <1>5 DEF toggle

LEMMA TypedShape ==
    ASSUME NEW f, FormShape(f), NEW row, NEW v
    PROVE  LET g == FormSetError(setTextValue(f, row, v), "") IN FormShape(g) /\ g.status = ""
<1> DEFINE g == setTextValue(f, row, v)
<1>1. IsProfile(ensureSSHTunnel(f.conn)) BY TunnelsKept DEF FormShape
<1>2. FormShape(g)
  <2>1. ASSUME NEW c, IsProfile(c) PROVE FormShape([f EXCEPT !.conn = c]) BY <2>1 DEF FormShape, FormParts
  <2>2. CASE row = "name" BY <2>1, <2>2, TunnelsKept DEF setTextValue, FormShape
  <2>3. CASE row = "host" BY <2>1, <2>3, TunnelsKept DEF setTextValue, FormShape
  <2>4. CASE row = "ssh_host" BY <1>1, <2>1, <2>4, TunnelsKept DEF setTextValue
  <2>5. CASE row = "ssh_user" BY <1>1, <2>1, <2>5, TunnelsKept DEF setTextValue
  <2>6. CASE row = "identity_file" BY <1>1, <2>1, <2>6, TunnelsKept DEF setTextValue
  <2>7. CASE row \notin {"name", "host", "ssh_host", "ssh_user", "identity_file"} BY <2>7 DEF setTextValue
  <2> QED BY <2>2, <2>3, <2>4, <2>5, <2>6, <2>7
<1> HIDE DEF g
<1> QED BY <1>2 DEF FormSetError, FormShape, FormParts, g

\* A form that validates is materialized.
LEMMA ValidatedShape ==
    ASSUME NEW f, FormShape(f)
    PROVE  LET v == validateAll(f) IN
           FormShape(v.form) /\ v.form.status = f.status /\ (v.ok => TunnelSound(v.form.conn.tunnel))
<1> DEFINE m == materializedConnection(f)
           done == [f EXCEPT !.conn = m]
<1>1. IsProfile(m) /\ (ValidateSSHTunnel(m.tunnel) => TunnelSound(m.tunnel)) BY MaterializedFits DEF FormShape
<1> HIDE DEF m
<1>2. FormShape(done) /\ done.conn = m /\ done.status = f.status BY <1>1 DEF FormShape, FormParts
<1>3. ASSUME NEW g, FormShape(g), NEW x
      PROVE  FormShape([g EXCEPT !.focus = x]) /\ [g EXCEPT !.focus = x].status = g.status
  BY <1>3 DEF FormShape, FormParts
<1> HIDE DEF done
<1>4. CASE ~validateName(f, f.conn.name) BY <1>3, <1>4 DEF validateAll
<1>5. CASE validateName(f, f.conn.name) /\ ~ValidateSSHTunnel(done.conn.tunnel)
  <2>1. validateAll(f) = [ok |-> FALSE, form |-> [done EXCEPT !.focus = focusIndexOf(f, "ssh_host")]]
    BY <1>5 DEF validateAll, done, m
  <2> DEFINE g == [done EXCEPT !.focus = focusIndexOf(f, "ssh_host")]
  <2>2. FormShape(g) /\ g.status = f.status BY <1>2, <1>3
  <2> HIDE DEF g
  <2>3. validateAll(f).ok = FALSE /\ validateAll(f).form = g BY <2>1 DEF g
  <2> QED BY <2>2, <2>3
<1>6. CASE validateName(f, f.conn.name) /\ ValidateSSHTunnel(done.conn.tunnel)
  <2>1. validateAll(f) = [ok |-> TRUE, form |-> done] BY <1>6 DEF validateAll, done, m
  <2> QED BY <1>1, <1>2, <1>6, <2>1
<1> QED BY <1>4, <1>5, <1>6

LEMMA FormOf ==
    ASSUME NEW p, ProgramOK(p)
    PROVE  FormShape(p.form)
  BY DEF ProgramOK, FormFits, FormShape

LEMMA Managed ==
    ASSUME ManagerOK(cm), NEW i \in CmPrograms
    PROVE  /\ ProgramOK(P(i)) /\ DOMAIN P(i) = PgParts /\ WriteFits(P(i)) /\ FormShape(P(i).form)
           /\ \A k : P(i).mode = k => cm.prog[i].mode = k
  BY FormOf DEF ManagerOK, ProgramOK, P

\* Nothing the invariant speaks of changes.
LEMMA SideKeeps ==
    ASSUME NEW p, NEW r, ProgramOK(p), PgMoved(p, r, {"cursor", "popup", "current"})
    PROVE  ProgramOK(r) /\ r.write = p.write
<1>1. /\ DOMAIN r = PgParts /\ r.items = p.items /\ r.revision = p.revision /\ r.probes = p.probes /\ r.form = p.form
      /\ r.connectGen = p.connectGen /\ r.stages = p.stages /\ r.connectErr = p.connectErr /\ r.mode = p.mode
      /\ r.attempts = p.attempts /\ r.posted = p.posted /\ r.write = p.write
  BY DEF PgMoved, PgParts
<1>2. FormFits(r) /\ ChecklistFits(r) /\ WriteFits(r) BY <1>1, FormKept, ChecklistKept DEF ProgramOK, WriteFits
<1> QED BY <1>1, <1>2 DEF ProgramOK

LEMMA CursorMoveKeeps ==
    ASSUME ManagerOK(cm), NEW i \in CmPrograms, CursorMove(i)
    PROVE  ManagerOK(cm')
<1>1. PICK c : Set(i, SetFormCursor(P(i), c)) BY DEF CursorMove
<1>2. PgMoved(P(i), SetFormCursor(P(i), c), {"cursor", "popup", "current"})
  BY Managed DEF SetFormCursor, PgMoved, PgParts
<1> QED BY <1>1, <1>2, SideKeeps, ProgramStep, Managed DEF P

LEMMA FormNavigateKeeps ==
    ASSUME ManagerOK(cm), NEW i \in CmPrograms, FormNavigate(i)
    PROVE  ManagerOK(cm')
<1>1. PICK d \in {-1, 1} : Set(i, [P(i) EXCEPT !.form = moveFocus(@, d)]) BY DEF FormNavigate
<1> DEFINE r == [P(i) EXCEPT !.form = moveFocus(@, d)]
<1>2. PgMoved(P(i), r, {"form"}) /\ r.form = moveFocus(P(i).form, d) BY Managed DEF PgMoved, PgParts
<1>3. FormMoved(P(i).form, moveFocus(P(i).form, d), {"focus"}) BY Managed DEF moveFocus, FormMoved, FormParts, FormShape
<1> HIDE DEF r
<1>4. FormMoved(P(i).form, r.form, {"focus", "err", "status", "tested"})
      /\ r.form.status = P(i).form.status /\ r.form.tested = P(i).form.tested
  BY <1>2, <1>3 DEF FormMoved, FormParts
<1>5. r.write = P(i).write /\ r.probes = P(i).probes
      /\ PgMoved(P(i), r, {"form", "probes", "testAttempt", "testGen", "popup", "write"})
  BY <1>2 DEF PgMoved, PgParts
<1>6. WriteFits(r) /\ Tracked(P(i).probes, r.probes) BY <1>5, Managed DEF WriteFits, Tracked
<1>7. ProgramOK(r) BY <1>4, <1>5, <1>6, Managed, MessageKeeps
<1> QED BY <1>1, <1>5, <1>7, ProgramStep DEF P, r

\* What InvalidateFormProbe gives, with another form in it.
LEMMA Rewritten ==
    ASSUME NEW p, ProgramOK(p), NEW g, FormShape(g), g.status # "connection ok", NEW r,
           PgMoved(InvalidateFormProbe(p), r, {"form", "mode"}), r.form = g,
           r.mode = "connecting" => p.mode = "connecting"
    PROVE  ProgramOK(r) /\ r.write = p.write
<1> DEFINE q == InvalidateFormProbe(p)
<1>1. PgMoved(p, q, {"testGen", "testAttempt", "probes", "revision", "form"}) BY Invalidated
<1> HIDE DEF q
<1>2. PgMoved(q, r, {"form", "mode"}) BY DEF q
<1>3. r.write = p.write BY <1>1, <1>2 DEF PgMoved, PgParts
<1>4. WriteFits(r) BY <1>3 DEF WriteFits, ProgramOK
<1>5. PgMoved(q, r, {"form", "mode", "popup", "write"}) BY <1>2 DEF PgMoved
<1> QED BY <1>3, <1>4, <1>5, RewrittenKeeps DEF FormShape, q

LEMMA InvalidShape ==
    ASSUME NEW p, ProgramOK(p)
    PROVE  LET q == InvalidateFormProbe(p) IN
           DOMAIN q = PgParts /\ FormShape(q.form) /\ q.form.status = "" /\ q.mode = p.mode
           /\ q.form.conn = p.form.conn
<1> DEFINE q == InvalidateFormProbe(p)
<1>1. PgMoved(p, q, {"testGen", "testAttempt", "probes", "revision", "form"}) /\ q.form = [p.form EXCEPT !.status = ""]
  BY Invalidated
<1> HIDE DEF q
<1>2. FormShape(q.form) /\ q.form.status = "" /\ q.form.conn = p.form.conn BY <1>1, FormOf DEF FormShape, FormParts
<1> QED BY <1>1, <1>2 DEF PgMoved, PgParts, q

LEMMA OpenAddKeeps ==
    ASSUME ManagerOK(cm), NEW i \in CmPrograms, OpenAddForm(i)
    PROVE  ManagerOK(cm')
<1> DEFINE q == InvalidateFormProbe(P(i))
           g == AddForm(Names(cm.file))
           r == [q EXCEPT !.form = g, !.mode = "form"]
<1>1. Step(i, r) BY DEF OpenAddForm
<1>2. FormShape(g) /\ g.status = "" BY NewForms
<1>3. DOMAIN q = PgParts BY Managed, InvalidShape
<1> HIDE DEF g, q
<1>4. PgMoved(q, r, {"form", "mode"}) /\ r.form = g /\ r.mode = "form" BY <1>3 DEF PgMoved, PgParts
<1> HIDE DEF r
<1>5. ProgramOK(r) /\ r.write = P(i).write BY <1>2, <1>4, Managed, Rewritten DEF q
<1> QED BY <1>1, <1>5, ProgramStep DEF P

LEMMA OpenEditKeeps ==
    ASSUME ManagerOK(cm), NEW i \in CmPrograms, OpenEditForm(i)
    PROVE  ManagerOK(cm')
<1> DEFINE q == InvalidateFormProbe(P(i))
           x == P(i).items[P(i).cursor]
           g == EditForm(x, Names(cm.file))
           r == [q EXCEPT !.form = g, !.mode = "form"]
<1>1. Step(i, r) /\ IsProfile(x) BY Managed DEF OpenEditForm, ProgramOK
<1> HIDE DEF x
<1>2. FormShape(g) /\ g.status = "" BY <1>1, EditForms
<1>3. DOMAIN q = PgParts BY Managed, InvalidShape
<1> HIDE DEF g, q
<1>4. PgMoved(q, r, {"form", "mode"}) /\ r.form = g /\ r.mode = "form" BY <1>3 DEF PgMoved, PgParts
<1> HIDE DEF r
<1>5. ProgramOK(r) /\ r.write = P(i).write BY <1>2, <1>4, Managed, Rewritten DEF q
<1> QED BY <1>1, <1>5, ProgramStep DEF P

LEMMA FormToggleKeeps ==
    ASSUME ManagerOK(cm), NEW i \in CmPrograms, FormToggleFocused(i)
    PROVE  ManagerOK(cm')
<1> DEFINE q == InvalidateFormProbe(P(i))
           g == toggle(q.form)
           r == [q EXCEPT !.form = toggle(@)]
<1>1. Step(i, r) BY DEF FormToggleFocused
<1>2. DOMAIN q = PgParts /\ FormShape(q.form) /\ q.form.status = "" /\ q.mode = P(i).mode BY Managed, InvalidShape
<1> HIDE DEF q
<1>3. FormShape(g) /\ g.status = "" BY <1>2, ToggleShape
<1>4. PgMoved(q, r, {"form", "mode"}) /\ r.form = g /\ r.mode = q.mode BY <1>2 DEF PgMoved, PgParts
<1> HIDE DEF r, g
<1>5. ProgramOK(r) /\ r.write = P(i).write BY <1>2, <1>3, <1>4, Managed, Rewritten DEF q
<1> QED BY <1>1, <1>5, ProgramStep DEF P

LEMMA PopupKeeps ==
    ASSUME ManagerOK(cm), NEW i \in CmPrograms, FieldEdit(i) \/ DeleteKey(i) \/ DismissModal(i)
    PROVE  ManagerOK(cm')
<1>1. PICK x : Set(i, [P(i) EXCEPT !.popup = x]) BY DEF FieldEdit, DeleteKey, DismissModal
<1>2. PgMoved(P(i), [P(i) EXCEPT !.popup = x], {"cursor", "popup", "current"}) BY Managed DEF PgMoved, PgParts
<1> QED BY <1>1, <1>2, SideKeeps, ProgramStep, Managed DEF P

\* A message: the error and the status of the form, nothing else of the program.
LEMMA MessageSet ==
    ASSUME NEW p, ProgramOK(p), NEW g, NEW r, PgMoved(p, r, {"form"}), r.form = g,
           FormMoved(p.form, g, {"err", "status"}), g.status = "" \/ g.status = p.form.status
    PROVE  ProgramOK(r) /\ r.write = p.write
<1>1. r.write = p.write /\ r.probes = p.probes
      /\ PgMoved(p, r, {"form", "probes", "testAttempt", "testGen", "popup", "write"})
  BY DEF PgMoved, PgParts
<1>2. WriteFits(r) /\ Tracked(p.probes, r.probes) BY <1>1 DEF WriteFits, Tracked, ProgramOK
<1>3. FormMoved(p.form, r.form, {"focus", "err", "status", "tested"}) /\ r.form.tested = p.form.tested
  BY DEF FormMoved, FormParts
<1>4. ProgramOK(r) BY <1>1, <1>2, <1>3, MessageKeeps
<1> QED BY <1>1, <1>4

LEMMA FieldSubmitKeeps ==
    ASSUME ManagerOK(cm), NEW i \in CmPrograms, FieldSubmit(i)
    PROVE  ManagerOK(cm')
<1> DEFINE p == [P(i) EXCEPT !.popup = NoPopup]
           row == P(i).popup.name
           q == InvalidateFormProbe(p)
           bad == [p EXCEPT !.form = FormSetError(@, "invalid")]
           typed(v) == [q EXCEPT !.form = FormSetError(setTextValue(@, row, v), "")]
<1>1. PICK v, r : r \in {p, bad, typed(v)} /\ Step(i, r) BY DEF FieldSubmit
<1>2. PgMoved(P(i), p, {"cursor", "popup", "current"}) /\ DOMAIN p = PgParts BY Managed DEF PgMoved, PgParts
<1> HIDE DEF row, p
<1>3. ProgramOK(p) /\ p.write = P(i).write BY <1>2, SideKeeps, Managed
<1>4. ProgramOK(bad) /\ bad.write = p.write
  <2>1. PgMoved(p, bad, {"form"}) /\ bad.form = FormSetError(p.form, "invalid") BY <1>2 DEF PgMoved, PgParts
  <2>2. FormMoved(p.form, bad.form, {"err", "status"}) /\ bad.form.status = ""
    BY <1>3, <2>1, FormOf DEF FormSetError, FormMoved, FormShape, FormParts
  <2> HIDE DEF bad
  <2> QED BY <1>3, <2>1, <2>2, MessageSet
<1>5. ProgramOK(typed(v)) /\ typed(v).write = p.write
  <2> DEFINE g == FormSetError(setTextValue(q.form, row, v), "")
             s == typed(v)
  <2>1. DOMAIN q = PgParts /\ FormShape(q.form) /\ q.mode = p.mode BY <1>3, InvalidShape
  <2> HIDE DEF q
  <2>2. FormShape(g) /\ g.status = "" BY <2>1, TypedShape
  <2>3. PgMoved(q, s, {"form", "mode"}) /\ s.form = g /\ s.mode = q.mode BY <2>1 DEF PgMoved, PgParts
  <2> HIDE DEF s, g
  <2>4. ProgramOK(s) /\ s.write = p.write BY <1>3, <2>1, <2>2, <2>3, Rewritten DEF q
  <2> QED BY <2>4 DEF s
<1> HIDE DEF bad, typed
<1>6. ProgramOK(r) /\ r.write = P(i).write BY <1>1, <1>3, <1>4, <1>5
<1> QED BY <1>1, <1>6, ProgramStep DEF P

LEMMA PasteKeeps ==
    ASSUME ManagerOK(cm), NEW i \in CmPrograms, PasteDSN(i)
    PROVE  ManagerOK(cm')
<1> DEFINE p == P(i)
           q == InvalidateFormProbe(p)
           empty == [p EXCEPT !.form = FormSetError(@, "empty")]
           bad == [p EXCEPT !.form = [@ EXCEPT !.err = "invalid"]]
           pasted(h) == [q EXCEPT !.form.conn.host = h]
<1>1. PICK h, r : r \in {empty, bad, pasted(h)} /\ Step(i, r)
  <2>1. PICK dsn \in CmDSNs : Step(i, IF ParseDSNIntoConnection(dsn) = ""
                                      THEN [p EXCEPT !.form = IF dsn = "" THEN FormSetError(@, "empty") ELSE [@ EXCEPT !.err = "invalid"]]
                                      ELSE pasted(ParseDSNIntoConnection(dsn)))
    BY DEF PasteDSN
  <2>2. CASE ParseDSNIntoConnection(dsn) = "" /\ dsn = "" BY <2>1, <2>2
  <2>3. CASE ParseDSNIntoConnection(dsn) = "" /\ dsn # "" BY <2>1, <2>3
  <2>4. CASE ParseDSNIntoConnection(dsn) # ""
    <3> HIDE DEF pasted
    <3> QED BY <2>1, <2>4
  <2> QED BY <2>2, <2>3, <2>4
<1>2. ProgramOK(p) /\ DOMAIN p = PgParts /\ FormShape(p.form) /\ p.write = cm.prog[i].write BY Managed DEF P
<1> HIDE DEF p
<1>3. ProgramOK(empty) /\ empty.write = p.write
  <2>1. PgMoved(p, empty, {"form"}) /\ empty.form = FormSetError(p.form, "empty") BY <1>2 DEF PgMoved, PgParts
  <2>2. FormMoved(p.form, empty.form, {"err", "status"}) /\ empty.form.status = ""
    BY <1>2, <2>1 DEF FormSetError, FormMoved, FormShape, FormParts
  <2> HIDE DEF empty
  <2> QED BY <1>2, <2>1, <2>2, MessageSet
<1>4. ProgramOK(bad) /\ bad.write = p.write
  <2>1. PgMoved(p, bad, {"form"}) /\ bad.form = [p.form EXCEPT !.err = "invalid"] BY <1>2 DEF PgMoved, PgParts
  <2>2. FormMoved(p.form, bad.form, {"err", "status"}) /\ bad.form.status = p.form.status
    BY <1>2, <2>1 DEF FormMoved, FormShape, FormParts
  <2> HIDE DEF bad
  <2> QED BY <1>2, <2>1, <2>2, MessageSet
<1>5. ProgramOK(pasted(h)) /\ pasted(h).write = p.write
  <2> DEFINE g == [q.form EXCEPT !.conn.host = h]
             s == pasted(h)
  <2>1. DOMAIN q = PgParts /\ FormShape(q.form) /\ q.mode = p.mode /\ q.form.status = "" BY <1>2, InvalidShape
  <2> HIDE DEF q
  <2>2. IsProfile([q.form.conn EXCEPT !.host = h]) BY <2>1, TunnelsKept DEF FormShape
  <2>3. FormShape(g) /\ g.status = "" BY <2>1, <2>2 DEF FormShape, FormParts
  <2>4. PgMoved(q, s, {"form", "mode"}) /\ s.form = g /\ s.mode = q.mode BY <2>1 DEF PgMoved, PgParts
  <2> HIDE DEF s, g
  <2>5. ProgramOK(s) /\ s.write = p.write BY <1>2, <2>1, <2>3, <2>4, Rewritten DEF q
  <2> QED BY <2>5 DEF s
<1> HIDE DEF bad, pasted, empty
<1>6. ProgramOK(r) /\ r.write = p.write BY <1>1, <1>3, <1>4, <1>5
<1> QED BY <1>1, <1>2, <1>6, ProgramStep

LEMMA CloseKeyKeeps ==
    ASSUME ManagerOK(cm), NEW i \in CmPrograms, CloseKey(i)
    PROVE  ManagerOK(cm')
<1> DEFINE p == P(i)
<1>1. ProgramOK(p) /\ DOMAIN p = PgParts /\ p.write = cm.prog[i].write BY Managed DEF P
<1>2. CASE p.mode = "connecting"
  <2> DEFINE r == [p EXCEPT !.connectGen = p.connectGen + 1, !.mode = "list"]
  <2>1. Step(i, r) BY <1>1, <1>2 DEF CloseKey, ManagerMode, PgParts
  <2> HIDE DEF p
  <2>2. /\ DOMAIN r = PgParts /\ r.items = p.items /\ r.revision = p.revision /\ r.probes = p.probes /\ r.form = p.form
        /\ r.connectGen = p.connectGen + 1 /\ r.stages = p.stages /\ r.connectErr = p.connectErr /\ r.mode = "list"
        /\ r.attempts = p.attempts /\ r.posted = p.posted /\ r.write = p.write
    BY <1>1 DEF PgParts
  <2> HIDE DEF r
  <2>3. FormFits(r) BY <1>1, <1>2, <2>2, FormKept DEF ProgramOK
  <2>4. p.connectGen \in Nat /\ \A a \in p.attempts : a.gen \in Nat /\ a.gen <= p.connectGen
    BY <1>1 DEF ProgramOK, ChecklistFits
  <2>5. r.connectGen \in Nat /\ \A a \in r.attempts : a.gen <= r.connectGen BY <2>2, <2>4, LaterRevision
  <2>6. ChecklistFits(r) BY <1>1, <2>2, <2>5 DEF ProgramOK, ChecklistFits
  <2>7. ProgramOK(r) BY <1>1, <2>2, <2>3, <2>6 DEF ProgramOK, WriteFits
  <2> QED BY <1>1, <2>1, <2>2, <2>7, ProgramStep
<1>3. CASE p.mode # "connecting"
  <2>1. Step(i, ManagerMode(p, "list")) BY <1>3 DEF CloseKey
  <2> HIDE DEF p
  <2>2. ProgramOK(ManagerMode(p, "list")) /\ ManagerMode(p, "list").write = p.write
    BY <1>1, ListKeeps DEF PgMoved, PgParts
  <2> QED BY <1>1, <2>1, <2>2, ProgramStep
<1> QED BY <1>2, <1>3

\* A new probe carries the connection on screen.
LEMMA ProbeAdded ==
    ASSUME NEW p, NEW r, ProgramOK(p), PgMoved(p, r, {"testGen", "testAttempt", "probes"}), NEW b,
           r.probes = p.probes \cup {b}, DOMAIN b = {"gen", "revision", "conn", "settled", "answer"},
           b.revision = p.revision, b.conn = materializedConnection(p.form)
    PROVE  ProgramOK(r) /\ r.write = p.write
<1>1. /\ DOMAIN r = PgParts /\ r.items = p.items /\ r.revision = p.revision /\ r.form = p.form
      /\ r.connectGen = p.connectGen /\ r.stages = p.stages /\ r.connectErr = p.connectErr /\ r.mode = p.mode
      /\ r.attempts = p.attempts /\ r.posted = p.posted /\ r.write = p.write
  BY DEF PgMoved, PgParts
<1>2. p.revision \in Nat /\ FormFits(p) BY DEF ProgramOK, FormFits
<1>3. p.revision <= p.revision BY <1>2
<1>4. FormFits(r) BY <1>1, <1>2, <1>3 DEF FormFits
<1>5. ChecklistFits(r) /\ WriteFits(r) BY <1>1, ChecklistKept DEF ProgramOK, WriteFits
<1> QED BY <1>1, <1>4, <1>5 DEF ProgramOK

LEMMA testConnectionKeeps ==
    ASSUME ManagerOK(cm), NEW i \in CmPrograms, testConnection(i)
    PROVE  ManagerOK(cm')
<1> DEFINE p == P(i)
           conn == materializedConnection(p.form)
           q == cancelTestConnection(p)
           gen == q.testGen + 1
           b == [gen |-> gen, revision |-> q.revision, conn |-> conn, settled |-> FALSE, answer |-> "none"]
           bad == [p EXCEPT !.form = FormSetError(@, "tunnel")]
           r == [q EXCEPT !.form = FormSetStatus(@, ""), !.testGen = gen, !.testAttempt = gen, !.probes = @ \cup {b}]
           s == [q EXCEPT !.form = FormSetStatus(@, "")]
<1>1. Step(i, bad) \/ Step(i, r) BY DEF testConnection
<1>2. ProgramOK(p) /\ DOMAIN p = PgParts /\ FormShape(p.form) /\ p.write = cm.prog[i].write BY Managed DEF P
<1> HIDE DEF p
<1>3. ProgramOK(bad) /\ bad.write = p.write
  <2>1. PgMoved(p, bad, {"form"}) /\ bad.form = FormSetError(p.form, "tunnel") BY <1>2 DEF PgMoved, PgParts
  <2>2. FormMoved(p.form, bad.form, {"err", "status"}) /\ bad.form.status = ""
    BY <1>2, <2>1 DEF FormSetError, FormMoved, FormShape, FormParts
  <2> HIDE DEF bad
  <2> QED BY <1>2, <2>1, <2>2, MessageSet
<1>4. ProgramOK(r) /\ r.write = p.write
  <2>1. /\ PgMoved(p, q, {"testGen", "testAttempt", "probes"}) /\ Tracked(p.probes, q.probes) BY <1>2, CancelledProbes
  <2> HIDE DEF q
  <2>2. DOMAIN q = PgParts /\ q.form = p.form /\ q.revision = p.revision /\ q.write = p.write
    BY <2>1 DEF PgMoved, PgParts
  <2> DEFINE g == FormSetStatus(p.form, "")
  <2>3. FormMoved(p.form, g, {"focus", "err", "status", "tested"}) /\ g.status = ""
    BY <1>2 DEF FormSetStatus, FormMoved, FormShape, FormParts
  <2> HIDE DEF g
  <2>4. /\ PgMoved(p, s, {"form", "probes", "testAttempt", "testGen", "popup", "write"}) /\ s.form = g
        /\ s.probes = q.probes /\ s.write = p.write /\ s.revision = p.revision /\ DOMAIN s = PgParts
    BY <2>1, <2>2 DEF PgMoved, PgParts, g
  <2> HIDE DEF conn, gen
  <2>5. /\ b.revision = p.revision /\ b.conn = conn
        /\ DOMAIN b = {"gen", "revision", "conn", "settled", "answer"}
    BY <2>2
  <2> HIDE DEF b
  <2>6. PgMoved(s, r, {"testGen", "testAttempt", "probes"}) /\ r.probes = s.probes \cup {b} BY <2>2 DEF PgMoved, PgParts
  <2> HIDE DEF s, r
  <2>7. ProgramOK(s)
    <3>1. WriteFits(s) /\ Tracked(p.probes, s.probes) BY <1>2, <2>1, <2>4 DEF WriteFits, ProgramOK
    <3> QED BY <1>2, <2>3, <2>4, <3>1, MessageKeeps
  <2>8. b.revision = s.revision /\ b.conn = materializedConnection(s.form) BY <2>3, <2>4, <2>5, SameConnection DEF conn
  <2> QED BY <2>4, <2>5, <2>6, <2>7, <2>8, ProbeAdded
<1> HIDE DEF bad, r
<1> QED BY <1>1, <1>2, <1>3, <1>4, ProgramStep

LEMMA dialProbeKeeps ==
    ASSUME ManagerOK(cm), NEW i \in CmPrograms, dialProbe(i)
    PROVE  ManagerOK(cm')
<1> DEFINE p == P(i)
<1>1. PICK b, said : b \in p.probes /\ Set(i, [p EXCEPT !.probes = (@ \ {b}) \cup {[b EXCEPT !.answer = said]},
                                                    !.testAttempt = IF @ = b.gen THEN 0 ELSE @])
  BY DEF dialProbe
<1>2. ProgramOK(p) /\ DOMAIN p = PgParts /\ FormShape(p.form) /\ WriteFits(p) /\ p.write = cm.prog[i].write
  BY Managed DEF P
<1> HIDE DEF p
<1> DEFINE d == [b EXCEPT !.answer = said]
           r == [p EXCEPT !.probes = (@ \ {b}) \cup {d}, !.testAttempt = IF @ = b.gen THEN 0 ELSE @]
<1>3. DOMAIN d = DOMAIN b /\ d.revision = b.revision /\ d.conn = b.conn BY <1>1, <1>2 DEF ProgramOK, FormFits
<1> HIDE DEF d
<1>4. /\ PgMoved(p, r, {"form", "probes", "testAttempt", "testGen", "popup", "write"}) /\ r.form = p.form
      /\ r.probes = (p.probes \ {b}) \cup {d} /\ r.write = p.write
  BY <1>2 DEF PgMoved, PgParts
<1> HIDE DEF r
<1>5. Tracked(p.probes, r.probes) BY <1>1, <1>3, <1>4 DEF Tracked
<1>6. WriteFits(r) /\ FormMoved(p.form, r.form, {"focus", "err", "status", "tested"})
  BY <1>2, <1>4 DEF WriteFits, FormMoved, FormShape
<1>7. ProgramOK(r) BY <1>2, <1>4, <1>5, <1>6, MessageKeeps
<1> QED BY <1>1, <1>2, <1>4, <1>7, ProgramStep DEF r, d

LEMMA publishTestResultKeeps ==
    ASSUME ManagerOK(cm), NEW i \in CmPrograms, publishTestResult(i)
    PROVE  ManagerOK(cm')
<1> DEFINE p == P(i)
           s(b) == [p EXCEPT !.probes = p.probes \ {b}]
           bad(b) == [s(b) EXCEPT !.form = FormSetError(@, "test failed")]
           ok(b) == [s(b) EXCEPT !.form = [FormSetStatus(@, "connection ok") EXCEPT !.tested = b.conn]]
<1>1. PICK b, r : b \in p.probes /\ r \in {s(b), bad(b), ok(b)} /\ Set(i, r) /\ (r = ok(b) \/ r \in {s(b), bad(b)})
                               /\ (r \in {s(b), bad(b)} \/ FormMatches(s(b), b.revision))
  <2>1. PICK b \in p.probes : Set(i, IF P(i).testGen # b.gen \/ ~FormMatches(s(b), b.revision) \/ b.settled \/ b.answer = "cancelled"
                                     THEN s(b) ELSE IF b.answer = "failed" THEN bad(b) ELSE ok(b))
    BY DEF publishTestResult
  <2>2. CASE P(i).testGen # b.gen \/ ~FormMatches(s(b), b.revision) \/ b.settled \/ b.answer = "cancelled" BY <2>1, <2>2
  <2>3. CASE ~(P(i).testGen # b.gen \/ ~FormMatches(s(b), b.revision) \/ b.settled \/ b.answer = "cancelled") /\ b.answer = "failed"
    BY <2>1, <2>3
  <2>4. CASE ~(P(i).testGen # b.gen \/ ~FormMatches(s(b), b.revision) \/ b.settled \/ b.answer = "cancelled") /\ b.answer # "failed"
    BY <2>1, <2>4
  <2> QED BY <2>2, <2>3, <2>4
<1>2. ProgramOK(p) /\ DOMAIN p = PgParts /\ FormShape(p.form) /\ WriteFits(p) /\ p.write = cm.prog[i].write
  BY Managed DEF P
<1> HIDE DEF p
<1>3. /\ PgMoved(p, s(b), {"probes"}) /\ s(b).probes = p.probes \ {b} /\ s(b).form = p.form /\ DOMAIN s(b) = PgParts
      /\ s(b).mode = p.mode /\ s(b).revision = p.revision
  BY <1>2 DEF PgMoved, PgParts
<1>4. /\ PgMoved(s(b), bad(b), {"form"}) /\ bad(b).form = FormSetError(p.form, "test failed")
      /\ PgMoved(s(b), ok(b), {"form"}) /\ ok(b).form = [FormSetStatus(p.form, "connection ok") EXCEPT !.tested = b.conn]
  BY <1>3 DEF PgMoved, PgParts
<1> HIDE DEF s, bad, ok
<1>5. /\ FormMoved(p.form, bad(b).form, {"err", "status"}) /\ bad(b).form.status = ""
      /\ FormMoved(p.form, ok(b).form, {"err", "status", "tested"}) /\ ok(b).form.tested = b.conn
  BY <1>2, <1>4 DEF FormSetError, FormSetStatus, FormMoved, FormShape, FormParts
<1>6. /\ PgMoved(p, r, {"form", "probes"}) /\ r.probes = p.probes \ {b}
      /\ FormMoved(p.form, r.form, {"err", "status", "tested"})
      /\ r \in {s(b), bad(b)} => r.form.status \in {p.form.status, ""} /\ r.form.tested = p.form.tested
  <2>1. CASE r = s(b) BY <1>2, <1>3, <2>1 DEF PgMoved, PgParts, FormMoved, FormShape
  <2>2. CASE r = bad(b) BY <1>3, <1>4, <1>5, <2>2 DEF PgMoved, PgParts, FormMoved, FormParts
  <2>3. CASE r = ok(b) /\ r \notin {s(b), bad(b)} BY <1>3, <1>4, <1>5, <2>3 DEF PgMoved, PgParts, FormMoved, FormParts
  <2> QED BY <1>1, <2>1, <2>2, <2>3
<1>7. r \notin {s(b), bad(b)} => /\ p.mode = "form" /\ r.form.tested = b.conn
                                 /\ b.conn = materializedConnection(p.form)
  <2>1. r \notin {s(b), bad(b)} => p.mode = "form" /\ p.revision = b.revision /\ r.form.tested = b.conn
    BY <1>1, <1>3, <1>5 DEF FormMatches
  <2> QED BY <1>1, <1>2, <2>1 DEF ProgramOK, FormFits
<1>8. /\ PgMoved(p, r, {"form", "probes", "testAttempt", "testGen", "popup", "write"}) /\ r.write = p.write
      /\ FormMoved(p.form, r.form, {"focus", "err", "status", "tested"}) /\ Tracked(p.probes, r.probes)
  BY <1>1, <1>6 DEF PgMoved, PgParts, FormMoved, FormParts, Tracked
<1>9. WriteFits(r) BY <1>2, <1>8 DEF WriteFits
<1>10. r.form.status = "connection ok" =>
               (r.form.status = p.form.status /\ r.form.tested = p.form.tested)
               \/ (p.mode = "form" /\ materializedConnection(p.form) = r.form.tested)
  BY <1>6, <1>7
<1>11. ProgramOK(r) BY <1>2, <1>8, <1>9, <1>10, MessageKeeps
<1> QED BY <1>1, <1>2, <1>8, <1>11, ProgramStep

\* A new attempt has the checklist, and has reported nothing.
LEMMA AttemptStarted ==
    ASSUME NEW p, ProgramOK(p), NEW tunnel, NEW r, r = startAttempt(p, tunnel) \/ r = startAttempt([p EXCEPT !.mode = "connecting"], tunnel),
           p.mode # "form"
    PROVE  ProgramOK(r) /\ r.write = p.write
<1> DEFINE gen == p.connectGen + 1
           a0 == [gen |-> gen, at |-> IF tunnel.on THEN "tunnel" ELSE "auth", reported |-> {}]
<1>1. /\ DOMAIN r = PgParts /\ r.items = p.items /\ r.revision = p.revision /\ r.form = p.form /\ r.probes = p.probes
      /\ r.connectGen = gen /\ r.stages = Started(tunnel.on) /\ r.connectErr = FALSE
      /\ r.attempts = p.attempts \cup {a0} /\ r.posted = p.posted /\ r.write = p.write
  BY DEF startAttempt, ProgramOK, PgParts
<1>2. /\ DOMAIN a0 = {"gen", "at", "reported"} /\ a0.at \in {"tunnel", "auth", "objects", "loaded", "done", "error"}
      /\ a0.gen = gen
  OBVIOUS
<1>3. /\ DOMAIN Started(tunnel.on) = {"tunnel", "auth", "objects"} /\ Started(tunnel.on).tunnel # "done"
      /\ Started(tunnel.on).auth # "done" /\ Started(tunnel.on).objects # "done"
  BY DEF Started
<1>4. p.connectGen \in Nat /\ \A a \in p.attempts : a.gen \in Nat /\ a.gen <= p.connectGen
  BY DEF ProgramOK, ChecklistFits
<1>5. gen \in Nat /\ gen <= gen /\ \A a \in p.attempts : a.gen <= gen /\ a.gen # gen BY <1>4, LaterRevision
<1> HIDE DEF a0, gen
<1>6. \A a, b \in r.attempts : a.gen = b.gen => a = b BY <1>1, <1>2, <1>5 DEF ProgramOK, ChecklistFits
<1>7. \A x \in r.posted : \E a \in r.attempts : a.gen = x.gen /\ x.what \in a.reported
  BY <1>1 DEF ProgramOK, ChecklistFits
<1>8. a0.gen = r.connectGen /\ ShownBy(r, a0) /\ a0 \in r.attempts BY <1>1, <1>2, <1>3 DEF ShownBy
<1>9. \A a \in r.attempts : /\ DOMAIN a = {"gen", "at", "reported"} /\ a.gen \in Nat /\ a.gen <= r.connectGen
                            /\ a.at \in {"tunnel", "auth", "objects", "loaded", "done", "error"}
  BY <1>1, <1>2, <1>4, <1>5 DEF ProgramOK, ChecklistFits
<1>10. ChecklistFits(r)
  <2>1. \A x \in r.posted : x.what \in {"auth", "objects", "loaded", "done", "error"}
    BY <1>1 DEF ProgramOK, ChecklistFits
  <2>2. r.connectGen \in Nat /\ DOMAIN r.stages = {"tunnel", "auth", "objects"} BY <1>1, <1>3, <1>5
  <2> QED BY <1>6, <1>7, <1>8, <1>9, <2>1, <2>2 DEF ChecklistFits
<1>11. FormFits(r) /\ WriteFits(r) BY <1>1, FormKept DEF ProgramOK, WriteFits
<1> QED BY <1>1, <1>10, <1>11 DEF ProgramOK

LEMMA ConnectKeeps ==
    ASSUME ManagerOK(cm), NEW i \in CmPrograms, ConfirmConnect(i) \/ Retry(i)
    PROVE  ManagerOK(cm')
<1> DEFINE p == P(i)
<1>1. ProgramOK(p) /\ p.write = cm.prog[i].write BY Managed DEF P
<1>2. PICK tunnel, r : /\ r = startAttempt(p, tunnel) \/ r = startAttempt([p EXCEPT !.mode = "connecting"], tunnel)
                       /\ p.mode # "form" /\ Step(i, r)
  BY DEF ConfirmConnect, Retry, ManagerMode
<1> HIDE DEF p
<1>3. ProgramOK(r) /\ r.write = p.write BY <1>1, <1>2, AttemptStarted
<1> QED BY <1>1, <1>2, <1>3, ProgramStep

\* An attempt moves on; what it has reported is reported still.
LEMMA AttemptStepKeeps ==
    ASSUME ManagerOK(cm), NEW i \in CmPrograms, AttemptStep(i)
    PROVE  ManagerOK(cm')
<1> DEFINE p == P(i)
<1>1. ProgramOK(p) /\ DOMAIN p = PgParts /\ p.write = cm.prog[i].write /\ ChecklistFits(p) BY Managed DEF P, ProgramOK
<1>2. PICK a \in p.attempts, at \in {"auth", "objects", "loaded", "done", "error"} :
        Set(i, [p EXCEPT !.attempts = (@ \ {a}) \cup {[a EXCEPT !.at = at, !.reported = @ \cup {at}]},
                         !.posted = @ \cup {[gen |-> a.gen, what |-> at]}])
  <2>1. PICK a \in p.attempts, written \in {"on", "error"} :
          LET at == IF written = "error" THEN "error" ELSE After(a.at)
          IN /\ a.at \notin {"done", "error"}
             /\ Set(i, [p EXCEPT !.attempts = (@ \ {a}) \cup {[a EXCEPT !.at = at, !.reported = @ \cup {at}]},
                                !.posted = @ \cup {[gen |-> a.gen, what |-> at]}])
    BY DEF AttemptStep
  <2>2. a.at \in {"tunnel", "auth", "objects", "loaded"} BY <1>1, <2>1 DEF ChecklistFits
  <2>3. After(a.at) \in {"auth", "objects", "loaded", "done"} BY <2>2 DEF After
  <2> QED BY <2>1, <2>3
<1> HIDE DEF p
<1> DEFINE a1 == [a EXCEPT !.at = at, !.reported = @ \cup {at}]
           x1 == [gen |-> a.gen, what |-> at]
           r == [p EXCEPT !.attempts = (@ \ {a}) \cup {a1}, !.posted = @ \cup {x1}]
<1>3. /\ DOMAIN a1 = {"gen", "at", "reported"} /\ a1.gen = a.gen /\ a1.at = at /\ a1.reported = a.reported \cup {at}
      /\ x1.gen = a.gen /\ x1.what = at
  BY <1>1 DEF ChecklistFits
<1> HIDE DEF a1, x1
<1>4. /\ DOMAIN r = PgParts /\ r.items = p.items /\ r.revision = p.revision /\ r.form = p.form /\ r.probes = p.probes
      /\ r.connectGen = p.connectGen /\ r.stages = p.stages /\ r.connectErr = p.connectErr /\ r.mode = p.mode
      /\ r.attempts = (p.attempts \ {a}) \cup {a1} /\ r.posted = p.posted \cup {x1} /\ r.write = p.write
  BY <1>1 DEF PgParts
<1>5. Set(i, r) BY <1>2 DEF a1, x1
<1> HIDE DEF r
<1>6. \A b \in r.attempts : /\ DOMAIN b = {"gen", "at", "reported"} /\ b.gen \in Nat /\ b.gen <= r.connectGen
                            /\ b.at \in {"tunnel", "auth", "objects", "loaded", "done", "error"}
  BY <1>1, <1>3, <1>4 DEF ChecklistFits
<1>7. \A b, c \in r.attempts : b.gen = c.gen => b = c BY <1>1, <1>3, <1>4 DEF ChecklistFits
<1>8. \A b \in p.attempts : \E c \in r.attempts : c.gen = b.gen /\ b.reported \subseteq c.reported
  <2>1. a1 \in r.attempts /\ a.reported \subseteq a1.reported /\ a1.gen = a.gen BY <1>3, <1>4
  <2>2. \A b \in p.attempts : b # a => b \in r.attempts BY <1>4
  <2> QED BY <2>1, <2>2
<1>9. \A x \in r.posted : \E c \in r.attempts : c.gen = x.gen /\ x.what \in c.reported
  <2>1. \A x \in p.posted : \E c \in r.attempts : c.gen = x.gen /\ x.what \in c.reported BY <1>1, <1>8 DEF ChecklistFits
  <2>2. a1 \in r.attempts /\ a1.gen = x1.gen /\ x1.what \in a1.reported BY <1>3, <1>4
  <2> QED BY <1>4, <2>1, <2>2
<1>10. r.mode = "connecting" => \E c \in r.attempts : c.gen = r.connectGen /\ ShownBy(r, c)
  <2> SUFFICES ASSUME r.mode = "connecting" PROVE \E c \in r.attempts : c.gen = r.connectGen /\ ShownBy(r, c) OBVIOUS
  <2>1. PICK b \in p.attempts : b.gen = p.connectGen /\ ShownBy(p, b) BY <1>1, <1>4 DEF ChecklistFits
  <2>2. PICK c \in r.attempts : c.gen = b.gen /\ b.reported \subseteq c.reported BY <1>8
  <2>3. ShownBy(r, c) BY <1>4, <2>1, <2>2 DEF ShownBy
  <2> QED BY <1>4, <2>1, <2>2, <2>3
<1>11. ChecklistFits(r)
  <2>1. \A x \in r.posted : x.what \in {"auth", "objects", "loaded", "done", "error"}
    BY <1>1, <1>2, <1>3, <1>4 DEF ChecklistFits
  <2>2. r.connectGen \in Nat /\ DOMAIN r.stages = {"tunnel", "auth", "objects"} BY <1>1, <1>4 DEF ChecklistFits
  <2> QED BY <1>6, <1>7, <1>9, <1>10, <2>1, <2>2 DEF ChecklistFits
<1>12. FormFits(r) /\ WriteFits(r) BY <1>1, <1>4, FormKept DEF ProgramOK, WriteFits
<1>13. ProgramOK(r) BY <1>1, <1>4, <1>11, <1>12 DEF ProgramOK
<1> QED BY <1>1, <1>4, <1>5, <1>13, ProgramStep

\* A report is shown: the attempt it belongs to has made it.
LEMMA ReportShown ==
    ASSUME NEW p, ProgramOK(p), NEW r, PgMoved(p, r, {"stages", "connectErr"}),
           DOMAIN r.stages = {"tunnel", "auth", "objects"},
           \A a \in p.attempts : a.gen = p.connectGen /\ ShownBy(p, a) => ShownBy(r, a)
    PROVE  ProgramOK(r) /\ r.write = p.write
<1>1. /\ DOMAIN r = PgParts /\ r.items = p.items /\ r.revision = p.revision /\ r.form = p.form /\ r.probes = p.probes
      /\ r.connectGen = p.connectGen /\ r.mode = p.mode
      /\ r.attempts = p.attempts /\ r.posted = p.posted /\ r.write = p.write
  BY DEF PgMoved, PgParts
<1>2. ChecklistFits(p) BY DEF ProgramOK
<1>3. r.mode = "connecting" => \E c \in r.attempts : c.gen = r.connectGen /\ ShownBy(r, c)
  BY <1>1, <1>2 DEF ChecklistFits
<1>4. ChecklistFits(r) BY <1>1, <1>2, <1>3 DEF ChecklistFits
<1>5. FormFits(r) /\ WriteFits(r) BY <1>1, FormKept DEF ProgramOK, WriteFits
<1> QED BY <1>1, <1>4, <1>5 DEF ProgramOK

LEMMA ReportApplied ==
    ASSUME NEW p, ProgramOK(p), NEW what \in {"auth", "objects", "loaded", "done", "error"},
           \E a \in p.attempts : a.gen = p.connectGen /\ what \in a.reported
    PROVE  ProgramOK(applyReport(p, what)) /\ applyReport(p, what).write = p.write
<1> DEFINE r == applyReport(p, what)
<1>1. /\ DOMAIN p = PgParts /\ DOMAIN p.stages = {"tunnel", "auth", "objects"}
      /\ \A a \in p.attempts : a.gen = p.connectGen => what \in a.reported
  BY DEF ProgramOK, ChecklistFits
<1>2. CASE what = "done"
  <2>1. r = ManagerMode(p, "list") BY <1>2 DEF applyReport
  <2>2. ProgramOK(ManagerMode(p, "list")) /\ ManagerMode(p, "list").write = p.write BY ListKeeps DEF PgMoved, PgParts
  <2> QED BY <2>1, <2>2
<1>3. CASE what # "done"
  <2>1. /\ PgMoved(p, r, {"stages", "connectErr"}) /\ DOMAIN r.stages = {"tunnel", "auth", "objects"}
        /\ r.connectErr => p.connectErr \/ what = "error"
        /\ r.stages.tunnel = "done" => p.stages.tunnel = "done" \/ what = "auth"
        /\ r.stages.auth = "done" => p.stages.auth = "done" \/ what = "objects"
        /\ r.stages.objects = "done" => p.stages.objects = "done" \/ what = "loaded"
    <3>1. CASE what = "auth"
      <4>1. r = [p EXCEPT !.stages.tunnel = IF @ = "absent" THEN @ ELSE "done", !.stages.auth = "active"]
        BY <3>1 DEF applyReport
      <4>2. PgMoved(p, r, {"stages", "connectErr"}) /\ r.stages = [p.stages EXCEPT !.tunnel = IF @ = "absent" THEN @ ELSE "done", !.auth = "active"] /\ r.connectErr = p.connectErr
        BY <1>1, <4>1 DEF PgMoved, PgParts
      <4> HIDE DEF r
      <4> QED BY <1>1, <3>1, <4>2
    <3>2. CASE what = "objects"
      <4>1. r = [p EXCEPT !.stages.auth = "done", !.stages.objects = "active"] BY <3>2 DEF applyReport
      <4>2. PgMoved(p, r, {"stages", "connectErr"}) /\ r.stages = [p.stages EXCEPT !.auth = "done", !.objects = "active"] /\ r.connectErr = p.connectErr
        BY <1>1, <4>1 DEF PgMoved, PgParts
      <4> HIDE DEF r
      <4> QED BY <1>1, <3>2, <4>2
    <3>3. CASE what = "loaded"
      <4>1. r = [p EXCEPT !.stages.objects = "done"] BY <3>3 DEF applyReport
      <4> QED BY <1>1, <3>3, <4>1 DEF PgMoved, PgParts
    <3>4. CASE what = "error"
      <4>1. r = [p EXCEPT !.connectErr = TRUE, !.stages = [s \in DOMAIN @ |-> IF @[s] = "active" THEN "failed" ELSE @[s]]]
        BY <3>4 DEF applyReport
      <4>2. PgMoved(p, r, {"stages", "connectErr"})
            /\ r.stages = [s \in {"tunnel", "auth", "objects"} |-> IF p.stages[s] = "active" THEN "failed" ELSE p.stages[s]]
        BY <1>1, <4>1 DEF PgMoved, PgParts
      <4> HIDE DEF r
      <4>3. \A s \in {"tunnel", "auth", "objects"} : r.stages[s] = "done" => p.stages[s] = "done" BY <4>2
      <4> QED BY <3>4, <4>2, <4>3
    <3> QED BY <1>3, <3>1, <3>2, <3>3, <3>4
  <2> HIDE DEF r
  <2>2. \A a \in p.attempts : a.gen = p.connectGen /\ ShownBy(p, a) => ShownBy(r, a) BY <1>1, <2>1 DEF ShownBy
  <2> QED BY <2>1, <2>2, ReportShown DEF r
<1> QED BY <1>2, <1>3

LEMMA ReportKeeps ==
    ASSUME ManagerOK(cm), NEW i \in CmPrograms, Report(i)
    PROVE  ManagerOK(cm')
<1> DEFINE p == P(i)
           q(r) == [p EXCEPT !.posted = @ \ {r}]
<1>1. PICK r \in p.posted : Set(i, IF r.gen # q(r).connectGen \/ (r.what = "error" /\ q(r).popup # NoPopup) THEN q(r)
                                   ELSE applyReport(q(r), r.what))
  BY DEF Report
<1>2. ProgramOK(p) /\ DOMAIN p = PgParts /\ p.write = cm.prog[i].write /\ ChecklistFits(p) BY Managed DEF P, ProgramOK
<1> HIDE DEF p
<1>3. /\ DOMAIN q(r) = PgParts /\ q(r).items = p.items /\ q(r).revision = p.revision /\ q(r).form = p.form
      /\ q(r).probes = p.probes /\ q(r).connectGen = p.connectGen /\ q(r).stages = p.stages
      /\ q(r).connectErr = p.connectErr /\ q(r).mode = p.mode /\ q(r).attempts = p.attempts
      /\ q(r).posted = p.posted \ {r} /\ q(r).write = p.write
  BY <1>2 DEF PgParts
<1> HIDE DEF q
<1>4. ProgramOK(q(r))
  <2>1. FormFits(q(r)) /\ ChecklistFits(q(r)) /\ WriteFits(q(r))
    BY <1>2, <1>3, FormKept, ChecklistKept DEF ProgramOK, WriteFits
  <2> QED BY <1>2, <1>3, <2>1 DEF ProgramOK
<1>5. CASE r.gen # q(r).connectGen \/ (r.what = "error" /\ q(r).popup # NoPopup)
  BY <1>1, <1>2, <1>3, <1>4, <1>5, ProgramStep
<1>6. CASE ~(r.gen # q(r).connectGen \/ (r.what = "error" /\ q(r).popup # NoPopup))
  <2>1. Set(i, applyReport(q(r), r.what)) /\ r.gen = p.connectGen BY <1>1, <1>3, <1>6
  <2>2. r.what \in {"auth", "objects", "loaded", "done", "error"}
        /\ \E a \in q(r).attempts : a.gen = q(r).connectGen /\ r.what \in a.reported
    BY <1>2, <1>3, <2>1 DEF ChecklistFits
  <2>3. ProgramOK(applyReport(q(r), r.what)) /\ applyReport(q(r), r.what).write = q(r).write
    BY <1>4, <2>2, ReportApplied
  <2> QED BY <1>2, <1>3, <2>1, <2>3, ProgramStep
<1> QED BY <1>5, <1>6

LEMMA OwnRange ==
    ASSUME NEW S, NEW q \in Seq(S)
    PROVE  q \in Seq(Range(q))
<1> DEFINE R == Range(q)
<1>1. DOMAIN q = 1..Len(q) /\ Len(q) \in Nat /\ \A i \in 1..Len(q) : q[i] \in R BY DEF Range
<1> HIDE DEF R
<1>2. q \in Seq(R) BY <1>1
<1> QED BY <1>2 DEF R

\* A form rewritten before it is invalidated is the same program but for the form.
LEMMA InvalidatedApart ==
    ASSUME NEW p, NEW s, DOMAIN p = PgParts, PgMoved(p, s, {"form"})
    PROVE  /\ PgMoved(InvalidateFormProbe(p), InvalidateFormProbe(s), {"form"})
           /\ InvalidateFormProbe(s).form = [s.form EXCEPT !.status = ""]
<1> DEFINE A == [p EXCEPT !.revision = @ + 1, !.form.status = ""]
           B == [s EXCEPT !.revision = @ + 1, !.form.status = ""]
<1>1. DOMAIN A = PgParts /\ PgMoved(A, B, {"form"}) /\ B.form = [s.form EXCEPT !.status = ""] BY DEF PgMoved, PgParts
<1> HIDE DEF A, B
<1> DEFINE K(q) == {IF b.gen = q.testAttempt THEN [b EXCEPT !.settled = TRUE] ELSE b : b \in q.probes}
<1>2. K(A) = K(B)
  <2>1. A.testAttempt = B.testAttempt /\ A.probes = B.probes BY <1>1 DEF PgMoved, PgParts
  <2> QED BY <2>1
<1>3. \A q : cancelTestConnection(q) = [q EXCEPT !.testGen = @ + 1, !.testAttempt = 0, !.probes = K(q)]
  BY DEF cancelTestConnection
<1> HIDE DEF K
<1>4. PgMoved(cancelTestConnection(A), cancelTestConnection(B), {"form"}) /\ cancelTestConnection(B).form = B.form
  BY <1>1, <1>2, <1>3 DEF PgMoved, PgParts
<1> QED BY <1>1, <1>4 DEF InvalidateFormProbe, A, B

\* Only the save changes.
LEMMA WriteChanged ==
    ASSUME NEW p, NEW r, ProgramOK(p), PgMoved(p, r, {"write", "popup", "items", "cursor"}), WriteFits(r),
           \A n \in DOMAIN r.items : IsProfile(r.items[n])
    PROVE  ProgramOK(r)
<1>1. /\ DOMAIN r = PgParts /\ r.revision = p.revision /\ r.form = p.form /\ r.probes = p.probes
      /\ r.connectGen = p.connectGen /\ r.stages = p.stages /\ r.connectErr = p.connectErr /\ r.mode = p.mode
      /\ r.attempts = p.attempts /\ r.posted = p.posted
  BY DEF PgMoved, PgParts
<1>2. FormFits(r) /\ ChecklistFits(r) BY <1>1, FormKept, ChecklistKept DEF ProgramOK
<1> QED BY <1>1, <1>2 DEF ProgramOK

LEMMA EmptyProfile == IsProfile(Profile("", "", NoTunnel))
  BY Profiles, ProfileShape DEF Profile, ProfileParts, TunnelParts
LEMMA NoWriteFits ==
    ASSUME NEW r, r.write = NoWrite
    PROVE  WriteFits(r) /\ r.write.at \notin Locking
<1> DEFINE e == Profile("", "", NoTunnel)
<1>1. IsProfile(e) BY EmptyProfile
<1> HIDE DEF e
<1>2. DOMAIN r.write = WriteParts /\ r.write.at = "none" /\ r.write.conn = e
  <2>1. DOMAIN NoWrite = WriteParts /\ NoWrite.at = "none" BY DEF NoWrite, WriteParts
  <2>2. NoWrite.conn = e BY DEF NoWrite, e
  <2> QED BY <2>1, <2>2
<1>3. WriteFits(r) BY <1>1, <1>2 DEF WriteFits
<1> QED BY <1>2, <1>3 DEF Locking

LEMMA saveFormKeeps ==
    ASSUME ManagerOK(cm), NEW i \in CmPrograms, saveForm(i)
    PROVE  ManagerOK(cm')
<1> DEFINE p == P(i)
           v == validateAll(p.form)
           f == v.form
           s == [p EXCEPT !.form = f]
           q == InvalidateFormProbe(s)
           wr == [at |-> "lock", kind |-> IF f.isEdit THEN "update" ELSE "append",
                  old |-> f.originalName, conn |-> f.conn, seen |-> <<>>]
           bad == [q EXCEPT !.form.err = "invalid"]
           ok == [q EXCEPT !.form.err = "", !.write = wr]
<1>1. /\ Step(i, bad) \/ (v.ok /\ Step(i, ok))
      /\ p.write.at = "none" /\ p.mode = "form"
  BY DEF saveForm, FormKey, Acts
<1>2. ProgramOK(p) /\ DOMAIN p = PgParts /\ p.write = cm.prog[i].write /\ WriteFits(p) /\ FormShape(p.form)
  BY Managed DEF P
<1> HIDE DEF p
<1>3. FormShape(f) /\ (v.ok => TunnelSound(f.conn.tunnel)) BY <1>2, ValidatedShape
<1> HIDE DEF v, f
<1>4. PgMoved(p, s, {"form"}) /\ s.form = f BY <1>2 DEF PgMoved, PgParts
<1> HIDE DEF s
<1>5. /\ PgMoved(InvalidateFormProbe(p), q, {"form"}) /\ q.form = [f EXCEPT !.status = ""]
  BY <1>2, <1>4, InvalidatedApart
<1>6. PgMoved(p, InvalidateFormProbe(p), {"testGen", "testAttempt", "probes", "revision", "form"}) BY <1>2, Invalidated
<1> HIDE DEF q
<1>7. DOMAIN q = PgParts /\ q.write = p.write /\ q.mode = p.mode /\ FormShape(q.form) /\ q.form.status = "" /\ q.form.conn = f.conn
  BY <1>3, <1>5, <1>6 DEF PgMoved, PgParts, FormShape, FormParts
<1>8. /\ wr.at = "lock" /\ wr.kind \in {"append", "update"} /\ wr.conn = f.conn /\ DOMAIN wr = WriteParts
  BY DEF WriteParts
<1> HIDE DEF wr
<1>9. ProgramOK(bad) /\ bad.write = p.write
  <2>1. /\ PgMoved(q, bad, {"form"}) /\ bad.form = [q.form EXCEPT !.err = "invalid"]
        /\ bad.write = p.write /\ bad.mode = p.mode
    BY <1>7 DEF PgMoved, PgParts
  <2> HIDE DEF bad
  <2>2. DOMAIN bad.form = FormParts /\ IsProfile(bad.form.conn) /\ bad.form.status = ""
    BY <1>7, <2>1 DEF FormShape, FormParts
  <2>3. WriteFits(bad) BY <1>2, <2>1 DEF WriteFits
  <2>4. PgMoved(InvalidateFormProbe(p), bad, {"form", "mode", "popup", "write"}) BY <1>5, <2>1 DEF PgMoved
  <2> QED BY <1>1, <1>2, <2>1, <2>2, <2>3, <2>4, RewrittenKeeps
<1>10. v.ok => ProgramOK(ok) /\ ok.write = wr
  <2> SUFFICES ASSUME v.ok PROVE ProgramOK(ok) /\ ok.write = wr OBVIOUS
  <2>1. /\ PgMoved(q, ok, {"form", "write"}) /\ ok.form = [q.form EXCEPT !.err = ""]
        /\ ok.write = wr /\ ok.mode = p.mode
    BY <1>7 DEF PgMoved, PgParts
  <2> HIDE DEF ok
  <2>2. DOMAIN ok.form = FormParts /\ IsProfile(ok.form.conn) /\ ok.form.status = ""
    BY <1>7, <2>1 DEF FormShape, FormParts
  <2>3. WriteFits(ok) BY <1>3, <1>8, <2>1 DEF WriteFits, FormShape
  <2>4. PgMoved(InvalidateFormProbe(p), ok, {"form", "mode", "popup", "write"}) BY <1>5, <2>1 DEF PgMoved
  <2> QED BY <1>1, <1>2, <2>1, <2>2, <2>3, <2>4, RewrittenKeeps
<1> HIDE DEF bad, ok
<1>11. bad.write.at \notin Locking /\ (v.ok => ok.write.at \notin Locking) /\ cm.prog[i].write.at \notin Locking
  BY <1>1, <1>2, <1>8, <1>9, <1>10 DEF Locking
<1> QED BY <1>1, <1>9, <1>10, <1>11, ProgramStep

LEMMA deleteConnectionKeeps ==
    ASSUME ManagerOK(cm), NEW i \in CmPrograms, deleteConnection(i)
    PROVE  ManagerOK(cm')
<1> DEFINE p == P(i)
           wr == [NoWrite EXCEPT !.at = "lock", !.kind = "delete", !.old = P(i).popup.name]
           r == [p EXCEPT !.popup = NoPopup, !.write = wr]
<1>1. Step(i, r) /\ p.write.at = "none" BY DEF deleteConnection, Acts
<1>2. ProgramOK(p) /\ DOMAIN p = PgParts /\ p.write = cm.prog[i].write BY Managed DEF P
<1>3. /\ DOMAIN wr = WriteParts /\ wr.at = "lock" /\ wr.kind = "delete" /\ wr.conn = Profile("", "", NoTunnel)
  BY DEF NoWrite, WriteParts
<1> HIDE DEF p, wr
<1>4. PgMoved(p, r, {"write", "popup", "items", "cursor"}) /\ r.write = wr /\ r.items = p.items
  BY <1>2 DEF PgMoved, PgParts
<1> HIDE DEF r
<1>5. WriteFits(r) BY <1>3, <1>4, EmptyProfile DEF WriteFits
<1>6. ProgramOK(r) BY <1>2, <1>4, <1>5, WriteChanged DEF ProgramOK
<1>7. r.write.at \notin Locking /\ cm.prog[i].write.at \notin Locking BY <1>1, <1>2, <1>3, <1>4 DEF Locking
<1> QED BY <1>1, <1>6, <1>7, ProgramStep

LEMMA FailedWrite ==
    ASSUME NEW p, ProgramOK(p), NEW msg
    PROVE  ProgramOK(WriteFailed(p, msg)) /\ WriteFailed(p, msg).write.at \notin Locking
<1> DEFINE r == WriteFailed(p, msg)
           g == IF p.write.kind = "delete" THEN p.form ELSE FormSetError(p.form, msg)
<1>1. /\ PgMoved(p, r, {"form", "write"}) /\ r.form = g /\ r.write = NoWrite /\ r.probes = p.probes
  BY DEF WriteFailed, ProgramOK, PgMoved, PgParts
<1>2. /\ FormMoved(p.form, g, {"focus", "err", "status", "tested"})
      /\ g.status = "connection ok" => g.status = p.form.status /\ g.tested = p.form.tested
  BY FormOf DEF FormSetError, FormMoved, FormShape, FormParts
<1> HIDE DEF r, g
<1>3. WriteFits(r) /\ r.write.at \notin Locking BY <1>1, NoWriteFits
<1>4. Tracked(p.probes, r.probes) /\ PgMoved(p, r, {"form", "probes", "testAttempt", "testGen", "popup", "write"})
  BY <1>1 DEF Tracked, PgMoved
<1>5. ProgramOK(r) BY <1>1, <1>2, <1>3, <1>4, MessageKeeps
<1> QED BY <1>3, <1>5 DEF r

LEMMA LockTimeoutKeeps ==
    ASSUME ManagerOK(cm), NEW i \in CmPrograms, LockTimeout(i)
    PROVE  ManagerOK(cm')
<1>1. Set(i, WriteFailed(P(i), "save failed")) /\ cm.prog[i].write.at \notin Locking BY DEF LockTimeout, P, Locking
<1> QED BY <1>1, Managed, FailedWrite, ProgramStep

LEMMA ReadForWriteKeeps ==
    ASSUME ManagerOK(cm), NEW i \in CmPrograms, ReadForWrite(i)
    PROVE  ManagerOK(cm')
<1> DEFINE p == P(i)
           r == [p EXCEPT !.write.at = "rename", !.write.seen = cm.file]
<1>1. Set(i, r) /\ p.write.at = "read" BY DEF ReadForWrite
<1>2. ProgramOK(p) /\ DOMAIN p = PgParts /\ p.write = cm.prog[i].write /\ WriteFits(p) BY Managed DEF P
<1>3. FileFits(cm.file) BY DEF ManagerOK, SharedOK
<1> HIDE DEF p
<1>4. /\ PgMoved(p, r, {"write", "popup", "items", "cursor"}) /\ r.items = p.items
      /\ r.write = [p.write EXCEPT !.at = "rename", !.seen = cm.file]
  BY <1>2 DEF PgMoved, PgParts
<1> HIDE DEF r
<1>5. /\ DOMAIN r.write = WriteParts /\ r.write.at = "rename" /\ r.write.seen = cm.file
      /\ r.write.conn = p.write.conn /\ r.write.kind = p.write.kind
  BY <1>2, <1>4 DEF WriteFits, WriteParts
<1>6. WriteFits(r) BY <1>1, <1>2, <1>3, <1>5 DEF WriteFits
<1>7. ProgramOK(r) BY <1>2, <1>4, <1>6, WriteChanged DEF ProgramOK
<1>8. r.write.at \in Locking /\ cm.prog[i].write.at \in Locking BY <1>1, <1>2, <1>5 DEF Locking
<1> QED BY <1>1, <1>7, <1>8, ProgramStep

\* A step that takes the lock or gives it back, and leaves the file alone.
LEMMA LockStep ==
    ASSUME ManagerOK(cm), NEW i \in CmPrograms, NEW p, ProgramOK(p), NEW l,
           cm' = [cm EXCEPT !.lock = l, !.prog[i] = p],
           \/ p.write.at \in Locking /\ l = i /\ cm.lock = 0
           \/ p.write.at \notin Locking /\ l = 0 /\ cm.lock = i
    PROVE  ManagerOK(cm')
<1>1. /\ DOMAIN cm' = ManagerParts /\ cm'.prog = [cm.prog EXCEPT ![i] = p] /\ cm'.file = cm.file /\ cm'.lock = l
      /\ cm'.policy = cm.policy /\ cm'.who = cm.who /\ cm'.overwrote = cm.overwrote
  BY DEF ManagerOK, SharedOK, ManagerParts
<1>2. DOMAIN cm.prog = CmPrograms /\ 0 \notin CmPrograms BY ManagerAssumption DEF ManagerOK, SharedOK
<1> DEFINE g == cm'.prog
<1>3. DOMAIN g = CmPrograms /\ g[i] = p /\ \A j \in CmPrograms : j # i => g[j] = cm.prog[j] BY <1>1, <1>2
<1> HIDE DEF g
<1>4. \A j \in CmPrograms : ProgramOK(g[j]) BY <1>3 DEF ManagerOK
<1>5. \A j \in CmPrograms : g[j].write.at \in Locking <=> l = j BY <1>2, <1>3 DEF ManagerOK, SharedOK
<1>6. SharedOK(cm') BY <1>1, <1>3, <1>5 DEF ManagerOK, SharedOK, g
<1> QED BY <1>4, <1>6 DEF ManagerOK, g

LEMMA AcquireKeeps ==
    ASSUME ManagerOK(cm), NEW i \in CmPrograms, acquireConnectionsWriteLock(i)
    PROVE  ManagerOK(cm')
<1> DEFINE p == cm.prog[i]
           r == [p EXCEPT !.write.at = "read"]
<1>1. cm.lock = 0 /\ p.write.at = "lock" /\ cm' = [cm EXCEPT !.lock = i, !.prog[i].write.at = "read"]
  BY DEF acquireConnectionsWriteLock, P
<1>2. ProgramOK(p) /\ DOMAIN p = PgParts /\ WriteFits(p) /\ DOMAIN cm = ManagerParts
  BY Managed DEF P, ManagerOK, SharedOK
<1>3. cm' = [cm EXCEPT !.lock = i, !.prog[i] = r] BY <1>1, <1>2 DEF ManagerParts
<1> HIDE DEF p
<1>4. /\ PgMoved(p, r, {"write", "popup", "items", "cursor"}) /\ r.items = p.items
      /\ r.write = [p.write EXCEPT !.at = "read"]
  BY <1>2 DEF PgMoved, PgParts
<1> HIDE DEF r
<1>5. /\ DOMAIN r.write = WriteParts /\ r.write.at = "read"
      /\ r.write.conn = p.write.conn /\ r.write.kind = p.write.kind
  BY <1>2, <1>4 DEF WriteFits, WriteParts
<1>6. WriteFits(r) /\ r.write.at \in Locking BY <1>1, <1>2, <1>5 DEF WriteFits, Locking
<1>7. ProgramOK(r) BY <1>2, <1>4, <1>6, WriteChanged DEF ProgramOK
<1> QED BY <1>1, <1>3, <1>6, <1>7, LockStep

LEMMA RefuseKeeps ==
    ASSUME ManagerOK(cm), NEW i \in CmPrograms, NEW msg, Refuse(i, msg), P(i).write.at \in Locking
    PROVE  ManagerOK(cm')
<1> DEFINE r == WriteFailed(P(i), msg)
<1>1. cm' = [cm EXCEPT !.lock = 0, !.prog[i] = r] BY DEF Refuse, P, ManagerOK, SharedOK, ManagerParts
<1>2. ProgramOK(r) /\ r.write.at \notin Locking BY Managed, FailedWrite
<1> HIDE DEF r
<1>3. cm.lock = i BY DEF ManagerOK, SharedOK, P
<1> QED BY <1>1, <1>2, <1>3, LockStep

LEMMA FileSeq ==
    ASSUME NEW q, FileFits(q)
    PROVE  /\ Len(q) \in Nat /\ DOMAIN q = 1..Len(q) /\ \A j \in 1..Len(q) : q[j] \in Range(q)
           /\ \A j \in 1..Len(q) : IsProfile(q[j]) /\ TunnelSound(q[j].tunnel)
           /\ \A j, k \in 1..Len(q) : j # k => q[j].name # q[k].name
<1>1. q \in Seq(Range(q)) BY DEF FileFits
<1>2. Len(q) \in Nat /\ DOMAIN q = 1..Len(q) BY <1>1
<1> QED BY <1>2 DEF FileFits, Range

\* A file given by its profiles.
LEMMA FileOf ==
    ASSUME NEW S, NEW q \in Seq(S), \A j \in 1..Len(q) : IsProfile(q[j]) /\ TunnelSound(q[j].tunnel),
           \A j, k \in 1..Len(q) : j # k => q[j].name # q[k].name
    PROVE  FileFits(q)
<1>1. q \in Seq(Range(q)) BY OwnRange
<1>2. DOMAIN q = 1..Len(q) OBVIOUS
<1> QED BY <1>1, <1>2 DEF FileFits

LEMMA FieldAtFits ==
    ASSUME NEW q, NEW n \in Names(q)
    PROVE  FieldAt(q, n) \in DOMAIN q /\ q[FieldAt(q, n)].name = n
<1>1. \E j \in DOMAIN q : q[j].name = n BY DEF Names
<1> QED BY <1>1 DEF FieldAt

LEMMA NormalizedFits ==
    ASSUME NEW q, FileFits(q)
    PROVE  LET n == normalizeForWrite(q) IN
           /\ FileFits(n) /\ WrittenFits(n) /\ DOMAIN n = DOMAIN q
           /\ \A j \in DOMAIN n : n[j].name = q[j].name /\ n[j].access = q[j].access /\ n[j].history = q[j].history
<1> DEFINE n == normalizeForWrite(q)
           L == Len(q)
           R == Range(n)
           e(j) == [q[j] EXCEPT !.password = "", !.dsn = IF connHasDiscreteFields(q[j]) THEN "" ELSE @]
<1>1. /\ L \in Nat /\ DOMAIN q = 1..L /\ \A j \in 1..L : IsProfile(q[j]) /\ TunnelSound(q[j].tunnel)
      /\ \A j, k \in 1..L : j # k => q[j].name # q[k].name
  BY FileSeq
<1>2. n = [j \in 1..L |-> e(j)] BY <1>1 DEF normalizeForWrite
<1>3. ASSUME NEW j \in 1..L
      PROVE  /\ IsProfile(e(j)) /\ e(j).tunnel = q[j].tunnel /\ e(j).name = q[j].name /\ e(j).access = q[j].access
             /\ e(j).history = q[j].history /\ e(j).password = "" /\ (e(j).host # "" => e(j).dsn = "")
  BY <1>1, Profiles DEF ProfileParts, connHasDiscreteFields
<1> HIDE DEF L, n, e
<1>4. DOMAIN n = 1..L /\ \A j \in 1..L : n[j] = e(j) BY <1>2
<1>5. \A j \in 1..L : n[j] \in R BY <1>4 DEF Range
<1> HIDE DEF R
<1>6. n \in Seq(R) /\ Len(n) = L BY <1>1, <1>2, <1>4, <1>5
<1>7. ASSUME NEW j \in 1..L
      PROVE  /\ IsProfile(n[j]) /\ TunnelSound(n[j].tunnel) /\ n[j].name = q[j].name /\ n[j].access = q[j].access
             /\ n[j].history = q[j].history /\ n[j].password = "" /\ (n[j].host # "" => n[j].dsn = "")
  <2>1. n[j] = e(j) /\ TunnelSound(q[j].tunnel) BY <1>1, <1>4
  <2> QED BY <1>3, <2>1
<1>8. FileFits(n)
  <2>1. \A j \in 1..Len(n) : IsProfile(n[j]) /\ TunnelSound(n[j].tunnel) BY <1>6, <1>7
  <2>2. \A j \in 1..L : n[j].name = q[j].name BY <1>7
  <2>3. \A j, k \in 1..L : j # k => q[j].name # q[k].name BY <1>1
  <2>4. \A j, k \in 1..Len(n) : j # k => n[j].name # n[k].name BY <1>6, <2>2, <2>3
  <2> QED BY <1>6, <2>1, <2>4, FileOf
<1>9. WrittenFits(n) BY <1>4, <1>7 DEF WrittenFits
<1> QED BY <1>1, <1>4, <1>7, <1>8, <1>9 DEF n

\* What an update writes: the profile in place of the old one.
LEMMA UpdatedFits ==
    ASSUME NEW q, FileFits(q), NEW old \in Names(q), NEW c, IsProfile(c), TunnelSound(c.tunnel),
           c.name = old \/ c.name \notin Names(q)
    PROVE  LET n == [q EXCEPT ![FieldAt(q, old)] = c]
               x == FieldAt(q, old)
           IN  /\ FileFits(n) /\ DOMAIN n = DOMAIN q /\ x \in DOMAIN q /\ q[x].name = old /\ n[x] = c
               /\ \A j \in DOMAIN n : j # x => n[j] = q[j] /\ n[j].name # old /\ n[j].name # c.name
<1> DEFINE x == FieldAt(q, old)
           n == [q EXCEPT ![x] = c]
           R == Range(q) \cup {c}
<1>1. x \in DOMAIN q /\ q[x].name = old BY FieldAtFits
<1>2. /\ Len(q) \in Nat /\ DOMAIN q = 1..Len(q) /\ \A j \in 1..Len(q) : q[j] \in R
      /\ \A j \in 1..Len(q) : IsProfile(q[j]) /\ TunnelSound(q[j].tunnel)
      /\ \A j, k \in 1..Len(q) : j # k => q[j].name # q[k].name
  BY FileSeq
<1>3. q \in Seq(Range(q)) /\ c \in R BY DEF FileFits
<1>4. \A j \in DOMAIN q : q[j].name \in Names(q) BY DEF Names
<1> HIDE DEF x, R
<1>5. q \in Seq(R) BY <1>2, <1>3
<1>6. n \in Seq(R) /\ Len(n) = Len(q) /\ DOMAIN n = DOMAIN q BY <1>1, <1>2, <1>3, <1>5
<1>7. n[x] = c /\ \A j \in DOMAIN q : j # x => n[j] = q[j] BY <1>1
<1> HIDE DEF n
<1>8. \A j \in DOMAIN q : j # x => n[j] = q[j] /\ n[j].name # old /\ n[j].name # c.name BY <1>1, <1>2, <1>4, <1>7
<1>9. \A j \in 1..Len(n) : IsProfile(n[j]) /\ TunnelSound(n[j].tunnel) BY <1>2, <1>6, <1>7
<1>10. \A j, k \in 1..Len(n) : j # k => n[j].name # n[k].name
  <2> SUFFICES ASSUME NEW j \in 1..Len(n), NEW k \in 1..Len(n), j # k PROVE n[j].name # n[k].name OBVIOUS
  <2>1. j \in DOMAIN q /\ k \in DOMAIN q /\ q[j].name # q[k].name BY <1>2, <1>6
  <2>2. CASE j = x BY <1>7, <1>8, <2>1, <2>2
  <2>3. CASE k = x BY <1>7, <1>8, <2>1, <2>3
  <2>4. CASE j # x /\ k # x BY <1>7, <2>1, <2>4
  <2> QED BY <2>2, <2>3, <2>4
<1>11. FileFits(n) BY <1>6, <1>9, <1>10, FileOf
<1> QED BY <1>1, <1>6, <1>7, <1>8, <1>11 DEF n, x

LEMMA AppendedFits ==
    ASSUME NEW q, FileFits(q), NEW c, IsProfile(c), TunnelSound(c.tunnel), c.name \notin Names(q)
    PROVE  LET n == Append(q, c) IN
           /\ FileFits(n)
           /\ \A j \in DOMAIN n : n[j] = c \/ (j \in DOMAIN q /\ n[j] = q[j] /\ n[j].name # c.name)
<1> DEFINE n == Append(q, c)
           R == Range(q) \cup {c}
           L == Len(q)
<1>2. /\ L \in Nat /\ DOMAIN q = 1..L /\ \A j \in 1..L : q[j] \in R
      /\ \A j \in 1..L : IsProfile(q[j]) /\ TunnelSound(q[j].tunnel)
      /\ \A j, k \in 1..L : j # k => q[j].name # q[k].name
  BY FileSeq
<1>3. q \in Seq(Range(q)) /\ c \in R BY DEF FileFits
<1>4. \A j \in DOMAIN q : q[j].name # c.name BY DEF Names
<1> HIDE DEF R
<1>5. q \in Seq(R) BY <1>2, <1>3
<1>6. n \in Seq(R) /\ Len(n) = L + 1 /\ DOMAIN n = 1..(L + 1) /\ n[L + 1] = c /\ \A j \in 1..L : n[j] = q[j]
  BY <1>3, <1>5
<1> HIDE DEF n, L
<1>7. \A j \in 1..(L + 1) : j = L + 1 \/ j \in 1..L BY <1>2
<1>8. \A j \in DOMAIN n : n[j] = c \/ (j \in DOMAIN q /\ n[j] = q[j] /\ n[j].name # c.name) BY <1>2, <1>4, <1>6, <1>7
<1>9. \A j \in 1..Len(n) : IsProfile(n[j]) /\ TunnelSound(n[j].tunnel) BY <1>2, <1>6, <1>7
<1>10. \A j, k \in 1..Len(n) : j # k => n[j].name # n[k].name
  <2> SUFFICES ASSUME NEW j \in 1..Len(n), NEW k \in 1..Len(n), j # k PROVE n[j].name # n[k].name OBVIOUS
  <2>1. CASE j = L + 1
    <3>1. k \in 1..L /\ n[k] = q[k] /\ n[j] = c BY <1>6, <1>7, <2>1
    <3> QED BY <1>2, <1>4, <3>1
  <2>2. CASE k = L + 1
    <3>1. j \in 1..L /\ n[j] = q[j] /\ n[k] = c BY <1>6, <1>7, <2>2
    <3> QED BY <1>2, <1>4, <3>1
  <2>3. CASE j \in 1..L /\ k \in 1..L BY <1>2, <1>6, <2>3
  <2> QED BY <1>6, <1>7, <2>1, <2>2, <2>3
<1>11. FileFits(n) BY <1>6, <1>9, <1>10, FileOf
<1> QED BY <1>8, <1>11 DEF n

LEMMA RemovedFits ==
    ASSUME NEW q, FileFits(q), NEW x \in DOMAIN q
    PROVE  LET n == RemoveAt(q, x) IN
           /\ FileFits(n) /\ \A j \in DOMAIN n : \E k \in DOMAIN q : n[j] = q[k]
<1> DEFINE R == Range(q)
           L == Len(q)
           a == SubSeq(q, 1, x - 1)
           b == SubSeq(q, x + 1, L)
           n == a \o b
           at(j) == IF j < x THEN j ELSE j + 1
<1>2. /\ L \in Nat /\ DOMAIN q = 1..L /\ \A j \in 1..L : q[j] \in R
      /\ \A j \in 1..L : IsProfile(q[j]) /\ TunnelSound(q[j].tunnel)
      /\ \A j, k \in 1..L : j # k => q[j].name # q[k].name
  BY FileSeq
<1>3. q \in Seq(R) /\ x \in 1..L BY <1>2 DEF FileFits
<1> HIDE DEF R
<1>4. a \in Seq(R) /\ Len(a) = x - 1 /\ \A j \in 1..(x - 1) : a[j] = q[j] BY <1>2, <1>3
<1>5. b \in Seq(R) /\ Len(b) = L - x /\ \A j \in 1..(L - x) : b[j] = q[x + j] BY <1>2, <1>3
<1> HIDE DEF a, b, L
<1>6. n \in Seq(R) /\ Len(n) = Len(a) + Len(b)
      /\ \A j \in 1..(Len(a) + Len(b)) : n[j] = IF j <= Len(a) THEN a[j] ELSE b[j - Len(a)]
  BY <1>4, <1>5
<1> HIDE DEF n
<1>7. Len(n) = L - 1 /\ DOMAIN n = 1..(L - 1) BY <1>2, <1>3, <1>4, <1>5, <1>6
<1>8. ASSUME NEW j \in 1..(L - 1) PROVE at(j) \in 1..L /\ n[j] = q[at(j)]
  <2>1. n[j] = IF j <= Len(a) THEN a[j] ELSE b[j - Len(a)] BY <1>6, <1>7
  <2>2. CASE j < x
    <3>1. j <= Len(a) /\ j \in 1..(x - 1) /\ j \in 1..L BY <1>2, <1>3, <1>4, <2>2
    <3> QED BY <1>4, <2>1, <2>2, <3>1
  <2>3. CASE ~(j < x)
    <3>1. ~(j <= Len(a)) /\ j - Len(a) \in 1..(L - x) /\ x + (j - Len(a)) = j + 1 /\ j + 1 \in 1..L
      BY <1>2, <1>3, <1>4, <2>3
    <3>2. n[j] = q[x + (j - Len(a))] BY <1>5, <2>1, <3>1
    <3> QED BY <2>3, <3>1, <3>2
  <2> QED BY <2>2, <2>3
<1>9. \A j, k \in 1..(L - 1) : j # k => at(j) # at(k) BY <1>2, <1>3
<1> HIDE DEF at
<1>10. \A j \in 1..Len(n) : IsProfile(n[j]) /\ TunnelSound(n[j].tunnel) BY <1>2, <1>7, <1>8
<1>11. \A j, k \in 1..Len(n) : j # k => n[j].name # n[k].name BY <1>2, <1>7, <1>8, <1>9
<1>12. FileFits(n) BY <1>6, <1>10, <1>11, FileOf
<1>13. \A j \in DOMAIN n : \E k \in DOMAIN q : n[j] = q[k] BY <1>2, <1>7, <1>8
<1> QED BY <1>12, <1>13 DEF RemoveAt, n, a, b, L

\* The file is written and the lock given back.
LEMMA FileStep ==
    ASSUME ManagerOK(cm), NEW i \in CmPrograms, NEW p, ProgramOK(p), p.write.at \notin Locking,
           cm.prog[i].write.at \in Locking, DOMAIN cm' = ManagerParts, cm'.prog = [cm.prog EXCEPT ![i] = p], cm'.lock = 0,
           FileFits(cm'.file), WrittenFits(cm'.file), cm'.overwrote \subseteq {"append", "delete"},
           cm'.overwrote = {} => Policy(cm'.file, cm'.policy)
    PROVE  ManagerOK(cm')
<1>1. DOMAIN cm.prog = CmPrograms /\ 0 \notin CmPrograms /\ cm.lock = i BY ManagerAssumption DEF ManagerOK, SharedOK
<1> DEFINE g == cm'.prog
<1>2. DOMAIN g = CmPrograms /\ g[i] = p /\ \A j \in CmPrograms : j # i => g[j] = cm.prog[j] BY <1>1
<1> HIDE DEF g
<1>3. \A j \in CmPrograms : ProgramOK(g[j]) BY <1>2 DEF ManagerOK
<1>4. \A j \in CmPrograms : g[j].write.at \in Locking <=> cm'.lock = j BY <1>1, <1>2 DEF ManagerOK, SharedOK
<1>5. SharedOK(cm') BY <1>2, <1>4 DEF SharedOK, g
<1> QED BY <1>3, <1>5 DEF ManagerOK, g

\* A save that reads what it replaces publishes a file whose policies are the ones chosen.
LEMMA FilePublished ==
    ASSUME ManagerOK(cm), NEW i \in CmPrograms, NEW written, PublishModal(i, written), P(i).write.at = "rename",
           FileFits(written), P(i).write.kind = "update" => cm.file = P(i).write.seen,
           cm.overwrote = {} /\ cm.file = P(i).write.seen => Policy(written, Chosen(P(i).form, P(i).write, written))
    PROVE  ManagerOK(cm')
<1> DEFINE w == P(i).write
           nf == normalizeForWrite(written)
           p == [refreshConnectionManagerRail(P(i), nf) EXCEPT !.write = NoWrite]
           r == IF w.kind = "delete" THEN p ELSE ManagerMode(p, "list")
           blind == cm.overwrote \cup (IF cm.file # w.seen THEN {w.kind} ELSE {})
           policy == IF blind # {} THEN <<>> ELSE Chosen(P(i).form, w, written)
<1>1. cm' = [cm EXCEPT !.file = nf, !.lock = 0, !.who = "program", !.overwrote = blind, !.policy = policy, !.prog[i] = r]
  BY DEF PublishModal
<1>2. /\ FileFits(nf) /\ WrittenFits(nf) /\ DOMAIN nf = DOMAIN written
      /\ \A j \in DOMAIN nf : nf[j].name = written[j].name /\ nf[j].access = written[j].access /\ nf[j].history = written[j].history
  BY NormalizedFits
<1>3. /\ ProgramOK(P(i)) /\ DOMAIN P(i) = PgParts /\ DOMAIN cm = ManagerParts
      /\ w.kind \in {"update", "append", "delete"} /\ P(i) = cm.prog[i]
  BY Managed DEF ManagerOK, SharedOK, P, WriteFits
<1>4. blind \subseteq {"append", "delete"} BY <1>3 DEF ManagerOK, SharedOK
<1>5. blind = {} => Policy(written, policy) BY <1>4
<1>6. blind = {} => Policy(nf, policy)
  <2> HIDE DEF nf, policy, blind
  <2> QED BY <1>2, <1>5 DEF Policy
<1> HIDE DEF nf, blind, policy
<1>7. /\ PgMoved(P(i), p, {"write", "popup", "items", "cursor"}) /\ p.items = nf /\ p.write = NoWrite
  BY <1>3 DEF refreshConnectionManagerRail, SetItems, PgMoved, PgParts
<1> HIDE DEF p
<1>8. ProgramOK(p)
  <2>1. \A n \in DOMAIN p.items : IsProfile(p.items[n]) BY <1>2, <1>7 DEF FileFits
  <2> QED BY <1>3, <1>7, <2>1, NoWriteFits, WriteChanged
<1>9. ProgramOK(r) /\ r.write = NoWrite BY <1>7, <1>8, ListKeeps DEF PgMoved, PgParts
<1>10. r.write.at \notin Locking /\ cm.prog[i].write.at \in Locking BY <1>3, <1>9, NoWriteFits DEF Locking
<1> HIDE DEF r
<1>11. /\ DOMAIN cm' = ManagerParts /\ cm'.prog = [cm.prog EXCEPT ![i] = r] /\ cm'.lock = 0 /\ cm'.file = nf
       /\ cm'.overwrote = blind /\ cm'.policy = policy
  BY <1>1, <1>3 DEF ManagerParts
<1> QED BY <1>2, <1>4, <1>6, <1>9, <1>10, <1>11, FileStep

\* The policy of one profile after a write.
LEMMA RenameFits ==
    ASSUME ManagerOK(cm), NEW i \in CmPrograms, P(i).write.at = "rename"
    PROVE  LET w == P(i).write IN
           /\ FileFits(w.seen) /\ IsProfile(w.conn) /\ (w.kind # "delete" => TunnelSound(w.conn.tunnel))
           /\ cm.overwrote = {} /\ cm.file = w.seen => Policy(w.seen, cm.policy)
           /\ w.at \in Locking
  BY Managed DEF WriteFits, ManagerOK, SharedOK, Locking

LEMMA RenameAppendKeeps ==
    ASSUME ManagerOK(cm), NEW i \in CmPrograms, RenameAppend(i)
    PROVE  ManagerOK(cm')
<1> DEFINE w == P(i).write
           f == P(i).form
           written == appendConnection(w)
<1>1. w.at = "rename" /\ w.kind = "append"
      /\ (IF written = Refused THEN Refuse(i, "save failed") ELSE PublishModal(i, written))
  BY DEF RenameAppend
<1>2. /\ FileFits(w.seen) /\ IsProfile(w.conn) /\ TunnelSound(w.conn.tunnel)
      /\ cm.overwrote = {} /\ cm.file = w.seen => Policy(w.seen, cm.policy)
      /\ w.at \in Locking
  BY <1>1, RenameFits
<1>3. CASE written = Refused BY <1>1, <1>2, <1>3, RefuseKeeps
<1>4. CASE written # Refused
  <2>1. written = Append(w.seen, w.conn) /\ w.conn.name \notin Names(w.seen) BY <1>4 DEF appendConnection
  <2>2. /\ FileFits(written)
        /\ \A j \in DOMAIN written : written[j] = w.conn \/ (j \in DOMAIN w.seen /\ written[j] = w.seen[j] /\ written[j].name # w.conn.name)
    BY <1>2, <2>1, AppendedFits
  <2>3. PublishModal(i, written) BY <1>1, <1>4
  <2> HIDE DEF written
  <2>4. ASSUME cm.overwrote = {}, cm.file = w.seen PROVE Policy(written, Chosen(f, w, written))
    <3> SUFFICES ASSUME NEW j \in DOMAIN written
                 PROVE  <<written[j].access, written[j].history>> = Chosen(f, w, written)[written[j].name]
      BY DEF Policy
    <3>0. Chosen(f, w, written)[written[j].name] =
               IF w.kind = "delete" \/ written[j].name # w.conn.name THEN cm.policy[written[j].name]
               ELSE IF w.kind = "append" THEN <<w.conn.access, w.conn.history>>
               ELSE <<IF FormCLIAccessChange(f) THEN w.conn.access ELSE cm.policy[w.old][1],
                      IF FormCLIHistoryChange(f) THEN w.conn.history ELSE cm.policy[w.old][2]>>
      <4> HIDE DEF f, w
      <4>1. written[j].name \in Names(written) BY DEF Names
      <4> QED BY <4>1 DEF Chosen
    <3>1. CASE written[j] = w.conn BY <1>1, <3>0, <3>1
    <3>2. CASE j \in DOMAIN w.seen /\ written[j] = w.seen[j] /\ written[j].name # w.conn.name
      <4>1. Chosen(f, w, written)[written[j].name] = cm.policy[w.seen[j].name] BY <3>0, <3>2
      <4>2. <<w.seen[j].access, w.seen[j].history>> = cm.policy[w.seen[j].name] BY <1>2, <2>4, <3>2 DEF Policy
      <4> QED BY <3>2, <4>1, <4>2
    <3> QED BY <2>2, <3>1, <3>2
  <2> QED BY <1>1, <2>2, <2>3, <2>4, FilePublished
<1> QED BY <1>3, <1>4

LEMMA RenameDeleteKeeps ==
    ASSUME ManagerOK(cm), NEW i \in CmPrograms, RenameDelete(i)
    PROVE  ManagerOK(cm')
<1> DEFINE w == P(i).write
           f == P(i).form
           x == FieldAt(w.seen, w.old)
           written == RemoveAt(w.seen, x)
<1>1. w.at = "rename" /\ w.kind = "delete"
      /\ (IF w.old \notin Names(w.seen) THEN Refuse(i, "") ELSE PublishModal(i, written))
  BY DEF RenameDelete
<1>2. /\ FileFits(w.seen) /\ w.at \in Locking
      /\ cm.overwrote = {} /\ cm.file = w.seen => Policy(w.seen, cm.policy)
  BY <1>1, RenameFits
<1>3. CASE w.old \notin Names(w.seen) BY <1>1, <1>2, <1>3, RefuseKeeps
<1>4. CASE w.old \in Names(w.seen)
  <2>1. x \in DOMAIN w.seen BY <1>4, FieldAtFits
  <2> HIDE DEF x
  <2>2. /\ FileFits(written) /\ \A j \in DOMAIN written : \E k \in DOMAIN w.seen : written[j] = w.seen[k]
    BY <1>2, <2>1, RemovedFits
  <2>3. PublishModal(i, written) BY <1>1, <1>4
  <2> HIDE DEF written
  <2>4. ASSUME cm.overwrote = {}, cm.file = w.seen PROVE Policy(written, Chosen(f, w, written))
    <3> SUFFICES ASSUME NEW j \in DOMAIN written
                 PROVE  <<written[j].access, written[j].history>> = Chosen(f, w, written)[written[j].name]
      BY DEF Policy
    <3>0. Chosen(f, w, written)[written[j].name] =
               IF w.kind = "delete" \/ written[j].name # w.conn.name THEN cm.policy[written[j].name]
               ELSE IF w.kind = "append" THEN <<w.conn.access, w.conn.history>>
               ELSE <<IF FormCLIAccessChange(f) THEN w.conn.access ELSE cm.policy[w.old][1],
                      IF FormCLIHistoryChange(f) THEN w.conn.history ELSE cm.policy[w.old][2]>>
      <4> HIDE DEF f, w
      <4>1. written[j].name \in Names(written) BY DEF Names
      <4> QED BY <4>1 DEF Chosen
    <3>1. PICK k \in DOMAIN w.seen : written[j] = w.seen[k] BY <2>2
    <3>2. Chosen(f, w, written)[written[j].name] = cm.policy[written[j].name] BY <1>1, <3>0
    <3>3. <<w.seen[k].access, w.seen[k].history>> = cm.policy[w.seen[k].name] BY <1>2, <2>4 DEF Policy
    <3> QED BY <3>1, <3>2, <3>3
  <2> QED BY <1>1, <2>2, <2>3, <2>4, FilePublished
<1> QED BY <1>3, <1>4

LEMMA RenameUpdateKeeps ==
    ASSUME ManagerOK(cm), NEW i \in CmPrograms, RenameUpdate(i)
    PROVE  ManagerOK(cm')
<1> DEFINE w == P(i).write
           f == P(i).form
           q == w.seen
           x == FieldAt(q, w.old)
           c == [w.conn EXCEPT !.access = IF FormCLIAccessChange(f) THEN @ ELSE q[x].access,
                               !.history = IF FormCLIHistoryChange(f) THEN @ ELSE q[x].history]
           written == updateConnection(f, w)
<1>1. w.at = "rename" /\ w.kind = "update"
      /\ (IF written = Refused \/ ~snapshotRename(w, cm.file) THEN Refuse(i, "changed") ELSE PublishModal(i, written))
  BY DEF RenameUpdate
<1>2. /\ FileFits(q) /\ IsProfile(w.conn) /\ TunnelSound(w.conn.tunnel) /\ w.at \in Locking
      /\ cm.overwrote = {} /\ cm.file = q => Policy(q, cm.policy)
  BY <1>1, RenameFits
<1>3. CASE written = Refused \/ ~snapshotRename(w, cm.file) BY <1>1, <1>2, <1>3, RefuseKeeps
<1>4. CASE written # Refused /\ snapshotRename(w, cm.file)
  <2>1. written = [q EXCEPT ![x] = c] /\ w.old \in Names(q) /\ (w.conn.name = w.old \/ w.conn.name \notin Names(q))
    BY <1>4 DEF updateConnection
  <2>2. cm.file = q BY <1>1, <1>4 DEF snapshotRename
  <2>3. /\ DOMAIN c = DOMAIN w.conn /\ c.tunnel = w.conn.tunnel /\ c.name = w.conn.name
        /\ c.access = IF FormCLIAccessChange(f) THEN w.conn.access ELSE q[x].access
        /\ c.history = IF FormCLIHistoryChange(f) THEN w.conn.history ELSE q[x].history
    BY <1>2, Profiles DEF ProfileParts
  <2> HIDE DEF c
  <2>4. IsProfile(c) /\ TunnelSound(c.tunnel) BY <1>2, <2>3 DEF IsProfile
  <2>5. PublishModal(i, written) BY <1>1, <1>4
  <2> HIDE DEF written
  <2>6. /\ FileFits(written) /\ DOMAIN written = DOMAIN q /\ x \in DOMAIN q /\ q[x].name = w.old /\ written[x] = c
        /\ \A j \in DOMAIN written : j # x => written[j] = q[j] /\ written[j].name # c.name
    BY <1>2, <2>1, <2>3, <2>4, UpdatedFits
  <2> HIDE DEF x
  <2>7. ASSUME cm.overwrote = {} PROVE Policy(written, Chosen(f, w, written))
    <3>1. Policy(q, cm.policy) BY <1>2, <2>2, <2>7
    <3> SUFFICES ASSUME NEW j \in DOMAIN written
                 PROVE  <<written[j].access, written[j].history>> = Chosen(f, w, written)[written[j].name]
      BY DEF Policy
    <3>0. Chosen(f, w, written)[written[j].name] =
               IF w.kind = "delete" \/ written[j].name # w.conn.name THEN cm.policy[written[j].name]
               ELSE IF w.kind = "append" THEN <<w.conn.access, w.conn.history>>
               ELSE <<IF FormCLIAccessChange(f) THEN w.conn.access ELSE cm.policy[w.old][1],
                      IF FormCLIHistoryChange(f) THEN w.conn.history ELSE cm.policy[w.old][2]>>
      <4> HIDE DEF f, w
      <4>1. written[j].name \in Names(written) BY DEF Names
      <4> QED BY <4>1 DEF Chosen
    <3>2. CASE j = x
      <4>1. Chosen(f, w, written)[written[j].name] =
               <<IF FormCLIAccessChange(f) THEN w.conn.access ELSE cm.policy[w.old][1],
                 IF FormCLIHistoryChange(f) THEN w.conn.history ELSE cm.policy[w.old][2]>>
        BY <1>1, <2>3, <2>6, <3>0, <3>2
      <4>2. <<q[x].access, q[x].history>> = cm.policy[w.old] BY <2>6, <3>1 DEF Policy
      <4>3. cm.policy[w.old][1] = q[x].access /\ cm.policy[w.old][2] = q[x].history BY <4>2
      <4> QED BY <2>3, <2>6, <3>2, <4>1, <4>3
    <3>3. CASE j # x
      <4>1. written[j] = q[j] /\ written[j].name # w.conn.name /\ j \in DOMAIN q BY <2>3, <2>6, <3>3
      <4>2. Chosen(f, w, written)[written[j].name] = cm.policy[q[j].name] BY <3>0, <4>1
      <4> QED BY <3>1, <4>1, <4>2 DEF Policy
    <3> QED BY <3>2, <3>3
  <2> QED BY <1>1, <2>2, <2>5, <2>6, <2>7, FilePublished
<1> QED BY <1>3, <1>4

LEMMA EditorSavesKeeps == ASSUME ManagerOK(cm), EditorSaves PROVE ManagerOK(cm')
<1>1. PICK file \in CmEdits :
        cm' = [cm EXCEPT !.file = file, !.who = "editor", !.ops = @ + 1,
                         !.policy = [n \in Names(file) |-> <<file[FieldAt(file, n)].access, file[FieldAt(file, n)].history>>]]
  BY DEF EditorSaves
<1> DEFINE policy == [n \in Names(file) |-> <<file[FieldAt(file, n)].access, file[FieldAt(file, n)].history>>]
<1>2. FileFits(file) BY ManagerAssumption
<1>3. Policy(file, policy)
  <2> SUFFICES ASSUME NEW j \in DOMAIN file PROVE <<file[j].access, file[j].history>> = policy[file[j].name]
    BY DEF Policy
  <2> DEFINE n == file[j].name
             k == FieldAt(file, n)
  <2>1. n \in Names(file) BY DEF Names
  <2>2. k \in DOMAIN file /\ file[k].name = n BY <2>1, FieldAtFits
  <2>3. policy[n] = <<file[k].access, file[k].history>> BY <2>1
  <2>4. k = j BY <1>2, <2>2 DEF FileFits
  <2> QED BY <2>3, <2>4
<1> HIDE DEF policy
<1>4. /\ DOMAIN cm' = ManagerParts /\ cm'.prog = cm.prog /\ cm'.lock = cm.lock /\ cm'.file = file /\ cm'.who = "editor"
      /\ cm'.overwrote = cm.overwrote /\ cm'.policy = policy
  BY <1>1 DEF ManagerOK, SharedOK, ManagerParts, policy
<1>5. SharedOK(cm') BY <1>2, <1>3, <1>4 DEF ManagerOK, SharedOK
<1> QED BY <1>4, <1>5 DEF ManagerOK

LEMMA ManagerInit == ASSUME CmInit PROVE ManagerOK(cm)
<1>1. PICK file \in CmFiles, topic \in CmTopics :
        cm = [file |-> file, lock |-> 0, topic |-> topic, prog |-> [i \in CmPrograms |-> Program(file)],
              policy |-> [n \in Names(file) |-> <<file[FieldAt(file, n)].access, file[FieldAt(file, n)].history>>],
              who |-> "editor", overwrote |-> {}, ops |-> 0]
  BY DEF CmInit
<1> DEFINE policy == [n \in Names(file) |-> <<file[FieldAt(file, n)].access, file[FieldAt(file, n)].history>>]
           p == Program(file)
<1>2. FileFits(file) BY ManagerAssumption
<1>3. Policy(file, policy)
  <2> SUFFICES ASSUME NEW j \in DOMAIN file PROVE <<file[j].access, file[j].history>> = policy[file[j].name]
    BY DEF Policy
  <2> DEFINE n == file[j].name
             k == FieldAt(file, n)
  <2>1. n \in Names(file) BY DEF Names
  <2>2. k \in DOMAIN file /\ file[k].name = n BY <2>1, FieldAtFits
  <2>3. policy[n] = <<file[k].access, file[k].history>> BY <2>1
  <2>4. k = j BY <1>2, <2>2 DEF FileFits
  <2> QED BY <2>3, <2>4
<1> HIDE DEF policy
<1>4. /\ DOMAIN p = PgParts /\ p.items = file /\ p.form = AddForm({}) /\ p.mode = "list" /\ p.revision = 0
      /\ p.probes = {} /\ p.attempts = {} /\ p.posted = {} /\ p.connectGen = 0 /\ p.stages = Started(FALSE)
      /\ p.write = NoWrite
  BY DEF Program, PgParts
<1> HIDE DEF p
<1>5. ProgramOK(p)
  <2>1. FormFits(p)
    <3>1. FormShape(p.form) /\ p.form.status = "" BY <1>4, NewForms
    <3>2. p.probes = {} /\ p.revision \in Nat BY <1>4
    <3> QED BY <3>1, <3>2 DEF FormFits, FormShape
  <2>2. DOMAIN p.stages = {"tunnel", "auth", "objects"} BY <1>4 DEF Started
  <2>3. ChecklistFits(p)
    <3>1. p.attempts = {} /\ p.posted = {} /\ p.connectGen \in Nat /\ p.mode # "connecting" BY <1>4
    <3> QED BY <2>2, <3>1 DEF ChecklistFits
  <2>4. WriteFits(p) BY <1>4, NoWriteFits
  <2> QED BY <1>2, <1>4, <2>1, <2>3, <2>4 DEF ProgramOK, FileFits
<1>6. p.write.at \notin Locking BY <1>4, NoWriteFits
<1>7. /\ DOMAIN cm = ManagerParts /\ cm.prog = [i \in CmPrograms |-> p] /\ cm.lock = 0 /\ cm.file = file
      /\ cm.who = "editor" /\ cm.overwrote = {} /\ cm.policy = policy
  BY <1>1 DEF ManagerParts, policy, p
<1>8. DOMAIN cm.prog = CmPrograms /\ \A i \in CmPrograms : cm.prog[i] = p BY <1>7
<1>9. SharedOK(cm) BY <1>2, <1>3, <1>6, <1>7, <1>8, ManagerAssumption DEF SharedOK
<1> QED BY <1>5, <1>8, <1>9 DEF ManagerOK

LEMMA ManagerStep == ASSUME ManagerOK(cm), [CmNext]_cm PROVE ManagerOK(cm')
<1>1. CASE cm' = cm BY <1>1
<1>2. ASSUME NEW i \in CmPrograms,
             \/ CursorMove(i) \/ FormNavigate(i) \/ OpenAddForm(i) \/ OpenEditForm(i) \/ FormToggleFocused(i)
             \/ FieldEdit(i) \/ FieldSubmit(i) \/ PasteDSN(i) \/ CloseKey(i) \/ DeleteKey(i) \/ DismissModal(i)
      PROVE  ManagerOK(cm')
  BY <1>2, CursorMoveKeeps, FormNavigateKeeps, OpenAddKeeps, OpenEditKeeps, FormToggleKeeps, PopupKeeps,
     FieldSubmitKeeps, PasteKeeps, CloseKeyKeeps
<1>3. ASSUME NEW i \in CmPrograms,
             \/ testConnection(i) \/ dialProbe(i) \/ publishTestResult(i)
             \/ ConfirmConnect(i) \/ Retry(i) \/ AttemptStep(i) \/ Report(i)
      PROVE  ManagerOK(cm')
  BY <1>3, testConnectionKeeps, dialProbeKeeps, publishTestResultKeeps, ConnectKeeps, AttemptStepKeeps, ReportKeeps
<1>4. ASSUME NEW i \in CmPrograms,
             \/ saveForm(i) \/ deleteConnection(i) \/ acquireConnectionsWriteLock(i) \/ LockTimeout(i)
             \/ ReadForWrite(i) \/ RenameUpdate(i) \/ RenameAppend(i) \/ RenameDelete(i)
      PROVE  ManagerOK(cm')
  BY <1>4, saveFormKeeps, deleteConnectionKeeps, AcquireKeeps, LockTimeoutKeeps, ReadForWriteKeeps,
     RenameUpdateKeeps, RenameAppendKeeps, RenameDeleteKeeps
<1>5. CASE EditorSaves BY <1>5, EditorSavesKeeps
<1> QED BY <1>1, <1>2, <1>3, <1>4, <1>5 DEF CmNext

\* A file has as many names as profiles.
LEMMA NamesCounted ==
    ASSUME NEW q, FileFits(q)
    PROVE  Cardinality(Names(q)) = Len(q)
<1> DEFINE L == Len(q)
           T == Names(q)
           h == [j \in 1..L |-> q[j].name]
<1>1. L \in Nat /\ DOMAIN q = 1..L /\ \A j, k \in 1..L : j # k => q[j].name # q[k].name BY FileSeq
<1> HIDE DEF L
<1>2. h \in [1..L -> T] /\ \A t \in T : \E j \in 1..L : h[j] = t BY <1>1 DEF Names
<1>3. DOMAIN h = 1..L /\ \A j, k \in 1..L : h[j] = h[k] => j = k BY <1>1
<1> HIDE DEF h, T
<1>4. h \in Bijection(1..L, T) BY <1>2, <1>3 DEF Bijection, Injection, Surjection, IsInjective
<1>5. ExistsBijection(1..L, T) BY <1>4 DEF ExistsBijection
<1>6. IsFiniteSet(1..L) /\ Cardinality(1..L) = L BY <1>1, FS_Interval
<1> QED BY <1>5, <1>6, FS_Bijection DEF T, L

LEMMA ManagerTrue == ASSUME ManagerOK(cm) PROVE ManagerTruth
<1>1. SharedOK(cm) /\ \A i \in CmPrograms : ProgramOK(P(i)) BY DEF ManagerOK, P
<1>2. PolicyKept BY <1>1 DEF PolicyKept, SharedOK, Policy
<1>3. FileSound
  <2>1. FileFits(cm.file) /\ (cm.who = "program" => WrittenFits(cm.file)) BY <1>1 DEF SharedOK
  <2>2. \A n \in DOMAIN cm.file : TunnelSound(cm.file[n].tunnel) BY <2>1 DEF FileFits
  <2> QED BY <2>1, <2>2, NamesCounted DEF FileSound, WrittenFits
<1>4. ProbeTruth BY <1>1 DEF ProbeTruth, ProgramOK, FormFits
<1>5. ChecklistTruth
  <2> SUFFICES ASSUME NEW i \in CmPrograms, P(i).mode = "connecting"
               PROVE  \E a \in P(i).attempts : a.gen = P(i).connectGen /\ ShownBy(P(i), a)
    BY DEF ChecklistTruth, ShownBy
  <2> QED BY <1>1 DEF ProgramOK, ChecklistFits
<1>6. \A i \in CmPrograms : P(i).write.at \in {"read", "rename"} <=> cm.lock = i BY <1>1 DEF SharedOK, Locking, P
<1> QED BY <1>2, <1>3, <1>4, <1>5, <1>6 DEF ManagerTruth

-----------------------------------------
\* The connection manager (connection_manager_context.go,
\* connections_write.go): no form opened earlier restores a CLI policy,
\* the file a program writes is sound, "connection ok" stands over what was
\* dialled, the checklist shows what its attempt reported, and the lock is
\* with the save between its read and its rename.
THEOREM ManagerTheorem == CmSpec => []ManagerTruth
<1>1. CmInit => ManagerOK(cm) BY ManagerInit
<1>2. ManagerOK(cm) /\ [CmNext]_cm => ManagerOK(cm)' BY ManagerStep
<1>3. ManagerOK(cm) => ManagerTruth BY ManagerTrue
<1> QED BY <1>1, <1>2, <1>3, PTL DEF CmSpec
=============================================================================
