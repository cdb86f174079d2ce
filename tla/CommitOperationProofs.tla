----------------------- MODULE CommitOperationProofs -----------------------
(***************************************************************************)
(* CommitOperation implements PendingEdits, and what follows from it: no    *)
(* intent is written twice, none is lost by a settlement, and no edit is    *)
(* staged from rows a commit has replaced - for any table, any number of    *)
(* edits, operations, loads and writes of other sessions.                   *)
(*                                                                          *)
(* The invariant ties four things together: which operation the set's       *)
(* attempt belongs to (OpsInv), that an intent names one edit (IntentsInv), *)
(* what of it is on the server (AppliedInv), and that versions a conflict   *)
(* dialog remembers are still the ones in the set (VersionsInv). BaseInv    *)
(* relates an open editor's sample to the commits the grid has been through.*)
(***************************************************************************)
EXTENDS CommitOperation, FiniteSetTheorems, WellFoundedInduction, TLAPS

-----------------------------------------
(* The pending-edit set by itself, for every set of keys, columns, *)
(* identities and snapshots, and every caller that keeps to SetSpec. *)

\* Slots are as unique as revisions: retireCommitted hands out revisions in
\* slot order, and two edits in one slot would get the same one.
SlotsInv ==
    /\ \A e \in edits : e.pos \in 1..nextRevision
    /\ \A d, e \in edits : d.pos = e.pos => d = e

\* What was captured was captured before the reservation, so no revision handed
\* out since names a captured version.
CapturedInv ==
    /\ reservedAt <= nextRevision
    /\ \A c \in commitEdits \cup unknown : c.rev <= reservedAt

SetInv ==
    /\ SetTypeOK
    /\ SlotsInv
    /\ RevisionsAreNames
    /\ CapturedInv
    /\ ReservationHolds
    /\ OneReceipt
    /\ OneIdentity

-----------------------------------------
(* Facts about the slice. *)

\* A slice is finite: its slots number it.
LEMMA EditsFinite ==
    ASSUME SetTypeOK, SlotsInv
    PROVE  IsFiniteSet(edits)
<1> DEFINE f == [e \in edits |-> e.pos]
<1>1. f \in Injection(edits, 1..nextRevision) BY DEF SlotsInv, Injection, IsInjective
<1>2. IsFiniteSet(1..nextRevision) BY FS_Interval DEF SetTypeOK
<1>3. QED BY <1>1, <1>2, FS_Injection

\* A set of numbers has a least one.
LEMMA LeastNat ==
    ASSUME NEW S \in SUBSET Nat, S # {}
    PROVE  \E p \in S : \A q \in S : p <= q
<1>1. PICK p \in S : \A q \in S : ~(<<q, p>> \in OpToRel(<, Nat)) BY NatLessThanWellFounded, WFMin
<1>2. \A q \in S : ~(q < p) BY <1>1 DEF OpToRel
<1>3. QED BY <1>2

\* The edit of a cell that a loop over the slice meets first is in the slice.
LEMMA FirstAtIsStaged ==
    ASSUME SetTypeOK, NEW pk, NEW col, AtCell(pk, col) # {}
    PROVE  FirstAt(pk, col) \in AtCell(pk, col)
<1> DEFINE P == {e.pos : e \in AtCell(pk, col)}
<1>1. AtCell(pk, col) \subseteq Edit BY DEF SetTypeOK, AtCell
<1>2. P \in SUBSET Nat /\ P # {} BY <1>1 DEF Edit
<1>3. PICK p \in P : \A q \in P : p <= q BY <1>2, LeastNat
<1>4. \E e \in AtCell(pk, col) : \A d \in AtCell(pk, col) : e.pos <= d.pos BY <1>3
<1>5. QED BY <1>4 DEF FirstAt

-----------------------------------------
(* The actions. *)

\* Dropping edits disturbs nothing: what RemoveWithIdentity, Clear and
\* DiscardOwned share.
LEMMA DropKeeps ==
    ASSUME SetInv, edits' \subseteq edits,
           UNCHANGED <<nextRevision, identity, attempt, commitEdits, unknown,
                       unknownMoves, reservedAt>>
    PROVE  SetInv'
<1>1. SlotsInv' BY DEF SetInv, SlotsInv
<1>2. RevisionsAreNames' BY DEF SetInv, RevisionsAreNames
<1>3. ReservationHolds' BY DEF SetInv, ReservationHolds, Reserved
<1>4. QED BY <1>1, <1>2, <1>3 DEF SetInv, SetTypeOK, CapturedInv, OneReceipt, OneIdentity

\* Staging: the new version has a revision nobody has seen, on a row nobody
\* has reserved.
LEMMA AddKeeps ==
    ASSUME SetInv, NEW id \in Idents, NEW pk \in Keys, NEW col \in Cols,
           NEW old \in Olds, NEW new \in News,
           AddWithIdentity(id, pk, col, old, new)
    PROVE  SetInv'
<1> DEFINE n == nextRevision + 1
           fresh == [rev |-> n, pos |-> n, pk |-> pk, col |-> col, ident |-> id,
                     old |-> old, new |-> new]
<1>1. /\ nextRevision \in Nat /\ nextRevision' = n /\ identity' = id
      /\ pk \notin Reserved
      /\ UNCHANGED <<attempt, commitEdits, unknown, unknownMoves, reservedAt>>
  BY DEF SetInv, SetTypeOK, AddWithIdentity, AddLocked
<1>2. \A e \in edits \cup commitEdits \cup unknown : e.ident = id
  <2>1. CASE identity = id BY <2>1 DEF SetInv, OneIdentity
  <2>2. CASE Quiescent BY <2>2 DEF Quiescent
  <2>3. QED BY <2>1, <2>2 DEF AddWithIdentity
<1>3. PICK kept \in SUBSET edits, e \in Edit :
         /\ edits' = kept \cup {e}
         /\ e.rev = n /\ e.pk = pk /\ e.ident = id
         /\ e.pos \in 1..n
         /\ \A d \in kept : d.pos # e.pos
  <2>1. CASE AtCell(pk, col) = {}
    <3>1. edits' = edits \cup {fresh} BY <1>1, <2>1 DEF AddWithIdentity, AddLocked
    <3>2. /\ fresh \in Edit /\ fresh.rev = n /\ fresh.pk = pk /\ fresh.ident = id
          /\ fresh.pos = n /\ n \in 1..n
      BY <1>1 DEF Edit
    <3>3. \A d \in edits : d.pos # n BY <1>1 DEF SetInv, SlotsInv
    <3> HIDE DEF fresh, n
    <3>4. QED BY <3>1, <3>2, <3>3
  <2>2. CASE AtCell(pk, col) # {}
    <3>1. PICK first \in edits :
             /\ first.pk = pk
             /\ edits' = (edits \ {first}) \cup {[first EXCEPT !.new = new, !.rev = n]}
      BY <1>1, <2>2, FirstAtIsStaged DEF SetInv, AddWithIdentity, AddLocked, AtCell
    <3> DEFINE again == [first EXCEPT !.new = new, !.rev = n]
    <3>2. first \in Edit /\ n \in Nat BY <1>1 DEF SetInv, SetTypeOK
    <3>3. /\ again \in Edit /\ again.rev = n /\ again.pk = pk
          /\ again.ident = first.ident /\ again.pos = first.pos
      BY <3>1, <3>2 DEF Edit
    <3>4. again.ident = id BY <1>2, <3>3
    <3>5. again.pos \in 1..n BY <1>1, <3>3 DEF SetInv, SlotsInv
    <3>6. \A d \in edits \ {first} : d.pos # again.pos BY <3>3 DEF SetInv, SlotsInv
    <3> HIDE DEF again, n
    <3>7. QED BY <3>1, <3>3, <3>4, <3>5, <3>6 DEF again
  <2>3. QED BY <2>1, <2>2
<1>4. SetTypeOK' BY <1>1, <1>3 DEF SetInv, SetTypeOK
<1>5. SlotsInv' BY <1>1, <1>3 DEF SetInv, SlotsInv
<1>6. RevisionsAreNames' BY <1>1, <1>3 DEF SetInv, RevisionsAreNames
<1>7. CapturedInv' BY <1>1 DEF SetInv, SetTypeOK, CapturedInv
<1>8. ReservationHolds'
  <2>1. \A c \in commitEdits \cup unknown : c.rev <= nextRevision /\ c.rev \in Nat
    BY <1>1 DEF SetInv, SetTypeOK, CapturedInv, Edit
  <2>2. \A c \in commitEdits \cup unknown : c.rev # n BY <1>1, <2>1
  <2>3. Reserved' = Reserved BY <1>1 DEF Reserved, PKs
  <2>4. QED BY <1>1, <1>3, <2>2, <2>3 DEF SetInv, ReservationHolds
<1>9. OneReceipt' /\ OneIdentity' BY <1>1, <1>2, <1>3 DEF SetInv, OneReceipt, OneIdentity
<1>10. QED BY <1>4, <1>5, <1>6, <1>7, <1>8, <1>9 DEF SetInv

\* Beginning a commit captures versions that are in the set.
LEMMA BeginKeeps ==
    ASSUME SetInv, NEW snapshot \in Snapshots, NEW S \in SUBSET edits,
           BeginCommit(snapshot, S)
    PROVE  SetInv'
<1>1. /\ unknown = {} /\ S # {}
      /\ attempt' = snapshot /\ snapshot # None
      /\ commitEdits' = {e \in edits : e.rev \in Revs(S)}
      /\ reservedAt' = nextRevision
      /\ UNCHANGED <<edits, nextRevision, identity, unknown, unknownMoves>>
  BY EditsAssumption DEF BeginCommit
<1>2. commitEdits' \subseteq edits /\ commitEdits' # {} BY <1>1 DEF Revs
<1>3. SetTypeOK' /\ SlotsInv' /\ RevisionsAreNames' BY <1>1, <1>2 DEF SetInv, SetTypeOK, SlotsInv, RevisionsAreNames
<1>4. CapturedInv' BY <1>1, <1>2 DEF SetInv, SetTypeOK, CapturedInv, RevisionsAreNames
<1>5. ReservationHolds' BY <1>1, <1>2 DEF SetInv, ReservationHolds, RevisionsAreNames
<1>6. OneReceipt' /\ OneIdentity' BY <1>1, <1>2 DEF SetInv, OneReceipt, OneIdentity
<1>7. QED BY <1>3, <1>4, <1>5, <1>6 DEF SetInv

\* A confirmed commit: the survivors that follow their row get the revisions
\* after nextRevision, one each, because slots order them strictly.
LEMMA RetireKeeps ==
    ASSUME SetTypeOK, SlotsInv, RevisionsAreNames,
           NEW committed, NEW moves \in SUBSET Move,
           RetireCommitted(committed, moves)
    PROVE  /\ edits' \subseteq Edit /\ nextRevision' \in Nat
           /\ SlotsInv' /\ RevisionsAreNames'
           /\ \A e \in edits' : \E d \in edits : e.ident = d.ident
<1> DEFINE kept == Retire(committed)
           moved == {e \in kept : MovedTo(e, moves) # {}}
           below(e) == {d \in moved : d.pos <= e.pos}
           rank(e) == Cardinality(below(e))
           key(e) == CHOOSE k \in MovedTo(e, moves) : TRUE
           carried(e) == [e EXCEPT !.pk = key(e), !.rev = nextRevision + rank(e)]
           total == Cardinality(moved)
<1>1. /\ edits' = (kept \ moved) \cup {carried(e) : e \in moved}
      /\ nextRevision' = nextRevision + total
  BY DEF RetireCommitted
<1>2. kept \subseteq edits /\ moved \subseteq kept /\ moved \subseteq edits BY DEF Retire
<1>3. nextRevision \in Nat /\ edits \subseteq Edit BY DEF SetTypeOK
<1>4. IsFiniteSet(moved) /\ total \in Nat BY <1>2, EditsFinite, FS_Subset, FS_CardinalityType
<1>5. \A e \in moved : IsFiniteSet(below(e)) /\ rank(e) \in 1..total
  <2> SUFFICES ASSUME NEW e \in moved
               PROVE  IsFiniteSet(below(e)) /\ rank(e) \in 1..total
    OBVIOUS
  <2>1. below(e) \in SUBSET moved OBVIOUS
  <2>2. IsFiniteSet(below(e)) /\ rank(e) <= total BY <1>4, <2>1, FS_Subset
  <2>3. rank(e) \in Nat BY <2>2, FS_CardinalityType
  <2>4. e \in below(e) BY <1>2, <1>3 DEF Edit
  <2>5. rank(e) # 0 BY <2>2, <2>4, FS_EmptySet
  <2>6. QED BY <1>4, <2>2, <2>3, <2>5
<1>6. ASSUME NEW d \in moved, NEW e \in moved, d.pos <= e.pos, rank(d) = rank(e)
      PROVE  d = e
  <2>1. d.pos \in Nat /\ e.pos \in Nat BY <1>2, <1>3 DEF Edit
  <2>2. below(d) \in SUBSET below(e)
    <3>1. \A x \in moved : x.pos \in Nat BY <1>2, <1>3 DEF Edit
    <3>2. QED BY <1>6, <2>1, <3>1
  <2>3. below(d) = below(e) BY <1>5, <1>6, <2>2, FS_Subset
  <2>4. e \in below(d) BY <2>1, <2>3
  <2>5. d.pos = e.pos BY <1>6, <2>1, <2>4
  <2>6. QED BY <1>2, <2>5 DEF SlotsInv
<1>7. \A d, e \in moved : rank(d) = rank(e) => d = e
  <2>1. \A x \in moved : x.pos \in Nat BY <1>2, <1>3 DEF Edit
  <2>2. \A d, e \in moved : d.pos <= e.pos \/ e.pos <= d.pos BY <2>1
  <2>3. QED BY <1>6, <2>2
<1> HIDE DEF below, rank, total
<1>8. \A e \in moved :
        /\ carried(e) \in Edit
        /\ carried(e).rev = nextRevision + rank(e)
        /\ carried(e).pos = e.pos
        /\ carried(e).ident = e.ident
  <2> SUFFICES ASSUME NEW e \in moved
               PROVE  /\ carried(e) \in Edit
                      /\ carried(e).rev = nextRevision + rank(e)
                      /\ carried(e).pos = e.pos
                      /\ carried(e).ident = e.ident
    OBVIOUS
  <2>1. key(e) \in Keys
    <3>1. key(e) \in MovedTo(e, moves) OBVIOUS
    <3>2. MovedTo(e, moves) \subseteq Keys BY DEF MovedTo, Move
    <3>3. QED BY <3>1, <3>2
  <2>2. nextRevision + rank(e) \in Nat BY <1>3, <1>4, <1>5
  <2>3. e \in Edit BY <1>2, <1>3
  <2> HIDE DEF key, moved
  <2>4. QED BY <2>1, <2>2, <2>3 DEF Edit
<1> HIDE DEF kept, moved, key, carried
<1>9. edits' \subseteq Edit /\ nextRevision' \in Nat BY <1>1, <1>2, <1>3, <1>4, <1>8
<1>10. SlotsInv' BY <1>1, <1>2, <1>3, <1>4, <1>8 DEF SlotsInv
<1>11. RevisionsAreNames'
  <2>1. \A e \in kept \ moved : e.rev \in 1..nextRevision BY <1>2 DEF RevisionsAreNames
  <2>2. \A e \in moved : carried(e).rev \in (nextRevision + 1)..(nextRevision + total) BY <1>3, <1>4, <1>5, <1>8
  <2>3. \A d, e \in moved : carried(d).rev = carried(e).rev => d = e BY <1>3, <1>4, <1>5, <1>7, <1>8
  <2>4. \A d, e \in kept \ moved : d.rev = e.rev => d = e BY <1>2 DEF RevisionsAreNames
  <2>5. \A e \in edits' : e.rev \in 1..nextRevision' BY <1>1, <1>3, <1>4, <2>1, <2>2
  <2>6. \A d, e \in edits' : d.rev = e.rev => d = e BY <1>1, <1>3, <1>4, <2>1, <2>2, <2>3, <2>4
  <2>7. QED BY <2>5, <2>6 DEF RevisionsAreNames
<1>12. \A e \in edits' : \E d \in edits : e.ident = d.ident BY <1>1, <1>2, <1>8
<1>13. QED BY <1>9, <1>10, <1>11, <1>12

\* The receipt of an attempt. When it is the last the rows are released; when
\* the outcome is unknown they stay reserved, with what was captured.
LEMMA SettleKeeps ==
    ASSUME SetInv, NEW snapshot \in Snapshots, NEW committed \in BOOLEAN,
           NEW unknownOutcome \in BOOLEAN, NEW moves \in SUBSET Move,
           SettleCommit(snapshot, committed, unknownOutcome, moves)
    PROVE  SetInv'
<1>1. /\ unknown = {} /\ commitEdits # {}
      /\ attempt' = None /\ commitEdits' = {} /\ identity' = identity
      /\ reservedAt' = IF unknown' = {} THEN 0 ELSE reservedAt
  BY EditsAssumption DEF SettleCommit, SetInv, OneReceipt
<1>2. CASE committed
  <2>1. RetireCommitted(commitEdits, moves) /\ unknown' = {} /\ UNCHANGED unknownMoves BY <1>1, <1>2 DEF SettleCommit
  <2>2. /\ edits' \subseteq Edit /\ nextRevision' \in Nat
        /\ SlotsInv' /\ RevisionsAreNames'
        /\ \A e \in edits' : \E d \in edits : e.ident = d.ident
    BY <2>1, RetireKeeps DEF SetInv
  <2>3. SetTypeOK' BY <1>1, <2>1, <2>2 DEF SetInv, SetTypeOK
  <2>4. CapturedInv' /\ ReservationHolds' /\ OneReceipt'
    BY <1>1, <2>1, <2>2 DEF CapturedInv, ReservationHolds, Reserved, PKs, OneReceipt
  <2>5. OneIdentity' BY <1>1, <2>1, <2>2 DEF SetInv, OneIdentity
  <2>6. QED BY <2>2, <2>3, <2>4, <2>5 DEF SetInv
<1>3. CASE ~committed /\ unknownOutcome
  <2>1. /\ unknown' = commitEdits /\ unknownMoves' = moves
        /\ UNCHANGED <<edits, nextRevision>> /\ reservedAt' = reservedAt
    BY <1>1, <1>3 DEF SettleCommit
  <2>2. Reserved' = Reserved /\ (commitEdits \cup unknown)' = commitEdits \cup unknown BY <1>1, <2>1 DEF Reserved, PKs
  <2>3. SetTypeOK' /\ SlotsInv' /\ RevisionsAreNames' BY <1>1, <2>1 DEF SetInv, SetTypeOK, SlotsInv, RevisionsAreNames
  <2>4. CapturedInv' /\ ReservationHolds' /\ OneReceipt'
    BY <1>1, <2>1, <2>2 DEF SetInv, CapturedInv, ReservationHolds, OneReceipt
  <2>5. OneIdentity' BY <1>1, <2>1 DEF SetInv, OneIdentity
  <2>6. QED BY <2>3, <2>4, <2>5 DEF SetInv
<1>4. CASE ~committed /\ ~unknownOutcome
  <2>1. /\ unknown' = {} /\ unknownMoves' = unknownMoves
        /\ UNCHANGED <<edits, nextRevision>> /\ reservedAt' = 0
    BY <1>1, <1>4 DEF SettleCommit
  <2>2. SetTypeOK' /\ SlotsInv' /\ RevisionsAreNames' BY <1>1, <2>1 DEF SetInv, SetTypeOK, SlotsInv, RevisionsAreNames
  <2>3. CapturedInv' /\ ReservationHolds' /\ OneReceipt'
    BY <1>1, <2>1 DEF SetInv, SetTypeOK, CapturedInv, ReservationHolds, Reserved,
                      PKs, OneReceipt
  <2>4. OneIdentity' BY <1>1, <2>1 DEF SetInv, OneIdentity
  <2>5. QED BY <2>2, <2>3, <2>4 DEF SetInv
<1>5. QED BY <1>2, <1>3, <1>4

\* A reconciliation settles an unknown outcome either way.
LEMMA ReconcileKeeps ==
    ASSUME SetInv, NEW committed \in BOOLEAN, ReconcileCommitOutcome(committed)
    PROVE  SetInv'
<1>1. /\ commitEdits = {} /\ unknown' = {} /\ unknownMoves' = {} /\ reservedAt' = 0
      /\ UNCHANGED <<identity, attempt, commitEdits>>
  BY DEF ReconcileCommitOutcome, SetInv, OneReceipt
<1>2. /\ edits' \subseteq Edit /\ nextRevision' \in Nat
      /\ SlotsInv' /\ RevisionsAreNames'
      /\ \A e \in edits' : \E d \in edits : e.ident = d.ident
  <2>1. CASE committed
    <3>1. RetireCommitted(unknown, unknownMoves) /\ unknownMoves \in SUBSET Move
      BY <2>1 DEF ReconcileCommitOutcome, SetInv, SetTypeOK
    <3>2. QED BY <3>1, RetireKeeps DEF SetInv
  <2>2. CASE ~committed
    <3>1. UNCHANGED <<edits, nextRevision>> BY <2>2 DEF ReconcileCommitOutcome
    <3>2. QED BY <3>1 DEF SetInv, SetTypeOK, SlotsInv, RevisionsAreNames
  <2>3. QED BY <2>1, <2>2
<1>3. SetTypeOK' BY <1>1, <1>2 DEF SetInv, SetTypeOK
<1>4. CapturedInv' /\ ReservationHolds' /\ OneReceipt'
  BY <1>1, <1>2 DEF SetInv, CapturedInv, ReservationHolds, Reserved, PKs, OneReceipt
<1>5. OneIdentity' BY <1>1, <1>2 DEF SetInv, OneIdentity
<1>6. QED BY <1>2, <1>3, <1>4, <1>5 DEF SetInv

-----------------------------------------
(* The theorems. *)

\* An empty set satisfies the invariant.
LEMMA SetInitHolds == SetInit => SetInv
BY EditsAssumption DEF SetInit, SetInv, SetTypeOK, SlotsInv, RevisionsAreNames,
   CapturedInv, ReservationHolds, Reserved, PKs, OneReceipt, OneIdentity

\* Every method keeps the invariant.
LEMMA SetStepKeeps == SetInv /\ [SetNext]_setVars => SetInv'
<1> SUFFICES ASSUME SetInv, [SetNext]_setVars PROVE SetInv' OBVIOUS
<1>1. CASE UNCHANGED setVars BY <1>1, DropKeeps DEF setVars
<1>2. ASSUME NEW e \in Edit, AddWithIdentity(e.ident, e.pk, e.col, e.old, e.new)
      PROVE  SetInv'
  <2>1. e.ident \in Idents /\ e.pk \in Keys /\ e.col \in Cols /\ e.old \in Olds
        /\ e.new \in News
    BY DEF Edit
  <2>2. QED BY <1>2, <2>1, AddKeeps
<1>3. ASSUME NEW e \in edits, RemoveWithIdentity(identity, e.pk, e.col)
      PROVE  SetInv'
  BY <1>3, DropKeeps DEF RemoveWithIdentity
<1>4. CASE Clear BY <1>4, DropKeeps DEF Clear
<1>5. ASSUME NEW S \in SUBSET edits, DiscardOwned(S)
      PROVE  SetInv'
  BY <1>5, DropKeeps DEF DiscardOwned
<1>6. ASSUME NEW S \in SUBSET edits, NEW snapshot \in Snapshots,
             BeginCommit(snapshot, S)
      PROVE  SetInv'
  BY <1>6, BeginKeeps
<1>7. ASSUME NEW snapshot \in Snapshots, NEW committed \in BOOLEAN,
             NEW unknownOutcome \in BOOLEAN, NEW moves \in SUBSET Move,
             SettleCommit(snapshot, committed, unknownOutcome, moves)
      PROVE  SetInv'
  BY <1>7, SettleKeeps
<1>8. ASSUME NEW committed \in BOOLEAN, ReconcileCommitOutcome(committed)
      PROVE  SetInv'
  BY <1>8, ReconcileKeeps
<1>9. QED BY <1>1, <1>2, <1>3, <1>4, <1>5, <1>6, <1>7, <1>8 DEF SetNext

\* The invariant holds always.
THEOREM SetInvariant == SetSpec => []SetInv
<1>1. QED BY SetInitHolds, SetStepKeeps, PTL DEF SetSpec

\* PendingEditSet.addLocked and retireCommitted never give two staged edits the
\* same revision, whatever is re-keyed and in whatever order.
THEOREM RevisionsTheorem == SetSpec => []RevisionsAreNames
<1>1. SetInv => RevisionsAreNames BY DEF SetInv
<1>2. QED BY <1>1, SetInvariant, PTL

\* Nothing that is staged, discarded or re-keyed while a commit is open changes
\* a version the commit captured or puts a newer one on its rows.
THEOREM ReservationTheorem == SetSpec => []ReservationHolds
<1>1. SetInv => ReservationHolds BY DEF SetInv
<1>2. QED BY <1>1, SetInvariant, PTL

\* There is never a second commit in flight, nor one beside an unknown outcome.
THEOREM ReceiptTheorem == SetSpec => []OneReceipt
<1>1. SetInv => OneReceipt BY DEF SetInv
<1>2. QED BY <1>1, SetInvariant, PTL

\* All keys the set holds were staged under the identity it is bound to.
THEOREM IdentityTheorem == SetSpec => []OneIdentity
<1>1. SetInv => OneIdentity BY DEF SetInv
<1>2. QED BY <1>1, SetInvariant, PTL

\* A staged edit is known by its revision alone, and what an open commit has
\* captured stays as it was.
THEOREM EditsHeldTheorem == SetSpec => []EditsHeld
<1>1. QED BY RevisionsTheorem, ReservationTheorem, PTL DEF EditsHeld

\* One identity and one awaited receipt per set.
THEOREM EditsBoundTheorem == SetSpec => []EditsBound
<1>1. QED BY ReceiptTheorem, IdentityTheorem, PTL DEF EditsBound

-----------------------------------------
(* The commit operation. *)

\* The operation whose receipt the set awaits is the one that is under way, and
\* the rows it refetched are there under the keys its receipt reports.
OpsInv ==
    \A o \in Ops :
        /\ op[o].state \in {"execute", "grid", "settle"} <=> attempt = o
        /\ op[o].fetched # NoRows =>
             /\ op[o].state = "grid"
             /\ \A m \in op[o].moves : \E q \in Rows :
                    op[o].fetched[q] # None /\ op[o].fetched[q].key = m[2]

\* An intent is the name of one edit, and was handed out by the set.
IntentsInv ==
    /\ \A e \in edits \cup commitEdits \cup unknown : e.new.intent <= nextRevision
    /\ \A d \in edits : \A e \in edits \cup commitEdits \cup unknown :
         d.new.intent = e.new.intent => d = e

\* What is on the server: nothing that is only staged; of an attempt nothing
\* before its COMMIT, everything after it; all or nothing of an unknown outcome.
AppliedInv ==
    /\ \A i \in Intents : applied[i] <= 1 /\ (i > nextRevision => applied[i] = 0)
    /\ \A e \in edits : e \notin commitEdits \cup unknown => applied[e.new.intent] = 0
    /\ \A o \in Ops : attempt = o =>
         \A c \in commitEdits :
            /\ (op[o].state = "execute" \/ op[o].out \notin {"committed", "unknown"})
                 => applied[c.new.intent] = 0
            /\ (op[o].state # "execute" /\ op[o].out = "committed")
                 => applied[c.new.intent] = 1
    /\ \A c, d \in commitEdits \cup unknown :
         applied[c.new.intent] = applied[d.new.intent]

\* A version somebody remembers: if its revision is still in the set, so is it.
Known(x) == x.rev <= nextRevision /\ \A e \in edits : e.rev = x.rev => e = x

VersionsInv ==
    /\ \A c \in dialog : Known(c.edit)
    /\ \A o \in Ops : \A c \in op[o].conflicts : Known(c.edit)

\* A sample that a commit has overtaken and that still passes the baseline
\* check belongs to a commit that has not released its rows.
BaseInv ==
    editor # None => /\ editor.base <= grid.base
                     /\ (editor.stale /\ editor.base = grid.base) => Overtaken

\* A batch is a finite thing: it was captured from a slice.
BatchInv == IsFiniteSet(commitEdits)

StageInv == BatchInv /\ OpsInv /\ IntentsInv /\ AppliedInv /\ VersionsInv /\ BaseInv

IInv == TypeOK /\ SetInv /\ StageInv /\ StagedOnSettledBaseline

-----------------------------------------
(* The transaction. Its result is a recursive function of the batch: that *)
(* the function exists, and what every prefix of the batch leaves, follow *)
(* by the least number for which it would not. *)

\* What a transaction's state looks like after any UPDATE.
TxState ==
    {t \in [key : [Rows -> Keys \cup {None}], val : [Rows -> [DataCols -> Vals]],
            conflicts : SUBSET Conflict, failed : BOOLEAN] :
        \A c \in t.conflicts : c.edit \in commitEdits}

\* Numbers and columns that the values of the model are made of.
LEMMA ValueFacts ==
    /\ Nil \in Vals /\ 0 \in Vals /\ Intents \subseteq Vals /\ Keys \subseteq Vals
    /\ MaxRevision \in Nat /\ MaxForeign \in Nat
    /\ \A n \in 0..MaxForeign : MaxRevision + n + 1 \in Vals
    /\ \A c \in Cols : c # KeyCol => c \in DataCols
BY EditsAssumption, CommitAssumption DEF Nil, Vals, Intents, DataCols

\* The key an UPDATE leaves a row with is a key.
LEMMA KeyAfterType ==
    ASSUME SetTypeOK, NEW pk
    PROVE  KeyAfter(pk) \in Keys \cup {pk}
<1>1. CASE \E e \in Group(pk) : e.col = KeyCol
  <2> DEFINE e == CHOOSE e \in Group(pk) : e.col = KeyCol
  <2>1. e \in Edit BY <1>1 DEF Group, SetTypeOK
  <2>2. e.new.key \in Keys BY <2>1, CommitAssumption DEF Edit, NewValues
  <2> QED BY <1>1, <2>2 DEF KeyAfter
<1>2. CASE ~ \E e \in Group(pk) : e.col = KeyCol BY <1>2 DEF KeyAfter
<1> QED BY <1>1, <1>2

\* The identities of a receipt are pairs of keys.
LEMMA MovesType ==
    ASSUME SetTypeOK
    PROVE  Moves \subseteq Move
<1>1. PKs(commitEdits) \subseteq Keys BY DEF SetTypeOK, PKs, Edit
<1> QED BY <1>1, KeyAfterType DEF Moves, Move

\* The rows of a table are rows a grid can show.
LEMMA ImageType ==
    ASSUME NEW k \in [Rows -> Keys \cup {None}], NEW v \in [Rows -> [DataCols -> Vals]]
    PROVE  Image(k, v) \in GridRows
BY DEF Image, GridRows, Shown

LEMMA NoRowsType == NoRows \in GridRows
BY DEF NoRows, GridRows

LEMMA IdleOpType == IdleOp \in Operation
BY NoRowsType DEF IdleOp, Operation

\* One UPDATE keeps the shape of the transaction's state.
LEMMA UpdateType ==
    ASSUME SetTypeOK, NEW kind, NEW pk, NEW t \in TxState
    PROVE  Update(kind, t, pk) \in TxState
<1> DEFINE there == {r \in Rows : t.key[r] = pk}
           hit == {r \in there : kind = "overwrite"
                                 \/ \A e \in Group(pk) : OldValueMatches(t, r, e)}
           serverValue(e) ==
               IF there = {} THEN Nil
               ELSE LET r == CHOOSE q \in there : TRUE
                    IN IF e.col = KeyCol THEN t.key[r] ELSE t.val[r][e.col]
           found == {[edit |-> e, val |-> serverValue(e)] : e \in Group(pk)}
           row == CHOOSE q \in hit : TRUE
           vals == [c \in DataCols |->
                       IF \E e \in Group(pk) : e.col = c
                       THEN (CHOOSE e \in Group(pk) : e.col = c).new.intent
                       ELSE t.val[row][c]]
           missed == [t EXCEPT !.conflicts = t.conflicts \cup found]
           wrote == [t EXCEPT !.key = [t.key EXCEPT ![row] = KeyAfter(pk)],
                              !.val = [t.val EXCEPT ![row] = vals]]
<1>0. /\ t.key \in [Rows -> Keys \cup {None}] /\ t.val \in [Rows -> [DataCols -> Vals]]
      /\ t.conflicts \in SUBSET Conflict /\ t.failed \in BOOLEAN
      /\ \A c \in t.conflicts : c.edit \in commitEdits
      /\ t \in [key : [Rows -> Keys \cup {None}], val : [Rows -> [DataCols -> Vals]],
                conflicts : SUBSET Conflict, failed : BOOLEAN]
  BY DEF TxState
<1>1. ASSUME NEW e \in Group(pk)
      PROVE  /\ e \in commitEdits /\ e \in Edit /\ e.pk = pk /\ e.pk \in Keys
             /\ e.col \in Cols /\ e.new.intent \in Intents
  BY CommitAssumption DEF Group, SetTypeOK, Edit, NewValues
<1>2. ASSUME NEW e \in Group(pk) PROVE serverValue(e) \in Vals
  <2>1. CASE there = {} BY <2>1, ValueFacts
  <2>2. CASE there # {}
    <3> DEFINE r == CHOOSE q \in there : TRUE
    <3>1. r \in Rows /\ t.key[r] = pk BY <2>2
    <3> HIDE DEF r
    <3>2. CASE e.col = KeyCol
      <4>1. t.key[r] \in Vals BY <1>1, <3>1, ValueFacts
      <4> QED BY <2>2, <3>2, <4>1 DEF r
    <3>3. CASE e.col # KeyCol
      <4>1. t.val[r][e.col] \in Vals BY <1>0, <1>1, <3>1, <3>3, ValueFacts
      <4> QED BY <2>2, <3>3, <4>1 DEF r
    <3> QED BY <3>2, <3>3
  <2> QED BY <2>1, <2>2
<1>3. [t EXCEPT !.failed = TRUE] \in TxState BY <1>0 DEF TxState
<1>4. missed \in TxState
  <2> HIDE DEF serverValue
  <2>1. found \subseteq Conflict /\ \A c \in found : c.edit \in commitEdits BY <1>1, <1>2 DEF Conflict
  <2> HIDE DEF found
  <2> QED BY <1>0, <2>1 DEF TxState
<1>5. ASSUME hit # {} PROVE wrote \in TxState
  <2>1. row \in Rows /\ t.key[row] = pk BY <1>5
  <2>2. KeyAfter(pk) \in Keys \cup {None} BY <1>0, <2>1, KeyAfterType
  <2>3. vals \in [DataCols -> Vals]
    <3> HIDE DEF row
    <3>1. ASSUME NEW c \in DataCols, \E e \in Group(pk) : e.col = c
          PROVE  (CHOOSE e \in Group(pk) : e.col = c).new.intent \in Vals
      <4> DEFINE f == CHOOSE e \in Group(pk) : e.col = c
      <4>1. f \in Group(pk) BY <3>1
      <4> HIDE DEF f
      <4>2. f.new.intent \in Vals BY <1>1, <4>1, ValueFacts
      <4> QED BY <4>2 DEF f
    <3>2. \A c \in DataCols : t.val[row][c] \in Vals BY <1>0, <2>1
    <3> QED BY <3>1, <3>2
  <2> HIDE DEF row, vals
  <2> QED BY <1>0, <2>1, <2>2, <2>3 DEF TxState
<1>6. \/ Update(kind, t, pk) = [t EXCEPT !.failed = TRUE]
      \/ Update(kind, t, pk) = t
      \/ Update(kind, t, pk) = missed
      \/ hit # {} /\ Update(kind, t, pk) = wrote
  BY DEF Update
<1> QED BY <1>3, <1>4, <1>5, <1>6

\* The state before the first UPDATE, and the states after each of the first n.
TxStart == [key |-> keyOf, val |-> value, conflicts |-> {}, failed |-> DuplicateColumn]
IsRun(kind, n, g) ==
    g = [k \in 0..n |-> IF k = 0 THEN TxStart ELSE Update(kind, g[k - 1], Batch[k])]

\* A run of any length exists: the shortest that did not would extend one that
\* does.
LEMMA RunExists ==
    ASSUME NEW kind, NEW n \in Nat
    PROVE  \E g : IsRun(kind, n, g)
<1> DEFINE Bad == {k \in Nat : ~ \E g : IsRun(kind, k, g)}
<1> SUFFICES ASSUME Bad # {} PROVE FALSE OBVIOUS
<1>1. PICK k \in Bad : \A j \in Bad : k <= j BY LeastNat
<1>2. CASE k = 0
  <2> DEFINE g == [j \in 0..0 |-> TxStart]
  <2>1. g = [j \in 0..0 |-> IF j = 0 THEN TxStart ELSE Update(kind, g[j - 1], Batch[j])] OBVIOUS
  <2>2. IsRun(kind, 0, g) BY <2>1 DEF IsRun
  <2> QED BY <1>1, <1>2, <2>2
<1>3. CASE k # 0
  <2>1. k - 1 \in Nat /\ k \in Nat /\ ~(k <= k - 1) BY <1>1, <1>3
  <2>2. PICK g : IsRun(kind, k - 1, g) BY <1>1, <2>1
  <2> DEFINE h == [j \in 0..k |-> IF j = k THEN Update(kind, g[k - 1], Batch[k]) ELSE g[j]]
  <2>3. ASSUME NEW j \in 0..(k - 1)
        PROVE  g[j] = IF j = 0 THEN TxStart ELSE Update(kind, g[j - 1], Batch[j])
    BY <2>1, <2>2, <2>3 DEF IsRun
  <2>4. ASSUME NEW j \in 0..k
        PROVE  h[j] = IF j = 0 THEN TxStart ELSE Update(kind, h[j - 1], Batch[j])
    <3>1. CASE j = k
      <4>1. h[j] = Update(kind, g[k - 1], Batch[k]) /\ h[k - 1] = g[k - 1] BY <2>1, <3>1
      <4> QED BY <1>3, <3>1, <4>1
    <3>2. CASE j # k
      <4>1. h[j] = g[j] /\ j \in 0..(k - 1) /\ (j # 0 => h[j - 1] = g[j - 1]) BY <2>1, <2>4, <3>2
      <4> QED BY <2>3, <4>1
    <3> QED BY <3>1, <3>2
  <2>5. h = [j \in 0..k |-> h[j]] OBVIOUS
  <2> HIDE DEF h
  <2>6. h = [j \in 0..k |-> IF j = 0 THEN TxStart ELSE Update(kind, h[j - 1], Batch[j])] BY <2>4, <2>5
  <2>7. IsRun(kind, k, h) BY <2>6 DEF IsRun
  <2> QED BY <1>1, <2>7
<1> QED BY <1>2, <1>3

\* Every state of a run has the shape of TxState.
LEMMA RunType ==
    ASSUME SetTypeOK, TxStart \in TxState, NEW kind, NEW n \in Nat, NEW g, IsRun(kind, n, g)
    PROVE  g[n] \in TxState
<1> DEFINE Bad == {k \in 0..n : g[k] \notin TxState}
<1> SUFFICES ASSUME Bad # {} PROVE FALSE OBVIOUS
<1>1. PICK k \in Bad : \A j \in Bad : k <= j
  <2>1. Bad \in SUBSET Nat OBVIOUS
  <2> QED BY <2>1, LeastNat
<1>2. ASSUME NEW j \in 0..n
      PROVE  g[j] = IF j = 0 THEN TxStart ELSE Update(kind, g[j - 1], Batch[j])
  BY <1>2 DEF IsRun
<1>3. CASE k = 0 BY <1>1, <1>2, <1>3
<1>4. CASE k # 0
  <2>1. k - 1 \in 0..n /\ ~(k <= k - 1) /\ k \in 0..n BY <1>1, <1>4
  <2>2. g[k - 1] \in TxState BY <1>1, <2>1
  <2>3. g[k] \in TxState BY <1>2, <1>4, <2>1, <2>2, UpdateType
  <2> QED BY <1>1, <2>3
<1> QED BY <1>3, <1>4

\* The transaction of a batch that is a sequence leaves a typed table, and its
\* conflicts are about captured versions.
LEMMA TransactionType ==
    ASSUME TypeOK, Len(Batch) \in Nat, NEW kind
    PROVE  Transaction(kind) \in TxState
<1>1. TxStart \in TxState BY DEF TxState, TxStart, TypeOK, DuplicateColumn
<1>2. \E g : IsRun(kind, Len(Batch), g) BY RunExists
<1> DEFINE after == CHOOSE g : IsRun(kind, Len(Batch), g)
<1>3. IsRun(kind, Len(Batch), after) BY <1>2
<1>4. Transaction(kind) = after[Len(Batch)] BY DEF Transaction, IsRun, TxStart
<1> HIDE DEF after
<1> QED BY <1>1, <1>3, <1>4, RunType DEF TypeOK

\* A batch that was captured from a slice is a sequence.
LEMMA BatchLength ==
    ASSUME BatchInv
    PROVE  Len(Batch) \in Nat
<1> DEFINE pks == PKs(commitEdits)
           f == [e \in commitEdits |-> e.pk]
<1>1. f \in [commitEdits -> pks] /\ \A p \in pks : \E e \in commitEdits : f[e] = p BY DEF PKs
<1>2. f \in Surjection(commitEdits, pks) BY <1>1 DEF Surjection
<1>3. IsFiniteSet(pks) BY <1>2, FS_Surjection DEF BatchInv
<1>4. Cardinality(pks) \in Nat BY <1>3, FS_CardinalityType
<1>5. DOMAIN Batch = 1..Cardinality(pks) BY DEF Batch
<1>6. \E S : Batch \in [1..Cardinality(pks) -> S]
  <2>1. Batch \in [1..Cardinality(pks) -> {Batch[n] : n \in 1..Cardinality(pks)}] BY DEF Batch
  <2> QED BY <2>1
<1> HIDE DEF pks
<1>7. Len(Batch) = Cardinality(pks) BY <1>4, <1>5, <1>6
<1> QED BY <1>4, <1>7

-----------------------------------------
(* What the set's methods do to the edits, one by one. *)

\* Staging adds one edit: a revision nobody has, the new value, and the sample
\* it was given or the one the cell had.
LEMMA AddShape ==
    ASSUME SetInv, NEW id \in Idents, NEW pk \in Keys, NEW col \in Cols,
           NEW old \in Olds, NEW new \in News,
           AddWithIdentity(id, pk, col, old, new)
    PROVE  \E kept \in SUBSET edits, e \in Edit :
             /\ edits' = kept \cup {e} /\ e \notin edits
             /\ nextRevision' = nextRevision + 1 /\ nextRevision < MaxRevision
             /\ e.rev = nextRevision + 1 /\ e.new = new /\ e.pk = pk
             /\ pk \notin Reserved
             /\ e.old = old \/ \E d \in edits : e.old = d.old
             /\ AddWithIdentity(e.ident, e.pk, e.col, e.old, e.new)
<1> DEFINE n == nextRevision + 1
           fresh == [rev |-> n, pos |-> n, pk |-> pk, col |-> col, ident |-> id,
                     old |-> old, new |-> new]
<1>1. /\ nextRevision \in Nat /\ nextRevision' = n /\ identity' = id /\ n \in Nat
      /\ pk \notin Reserved /\ nextRevision < MaxRevision
  BY DEF SetInv, SetTypeOK, AddWithIdentity, AddLocked
<1>2. \A e \in edits : e.ident = id BY DEF SetInv, OneIdentity, AddWithIdentity, Quiescent
<1>3. \A e \in edits : e.rev # n BY <1>1 DEF SetInv, RevisionsAreNames
<1>4. CASE AtCell(pk, col) = {}
  <2>1. edits' = edits \cup {fresh} BY <1>1, <1>4 DEF AddWithIdentity, AddLocked
  <2>2. /\ fresh \in Edit /\ fresh.rev = n /\ fresh.pk = pk /\ fresh.ident = id
        /\ fresh.new = new /\ fresh.old = old /\ fresh.col = col
    BY <1>1 DEF Edit
  <2> HIDE DEF fresh, n
  <2>3. fresh \notin edits BY <1>3, <2>2
  <2> QED BY <1>1, <2>1, <2>2, <2>3 DEF n
<1>5. CASE AtCell(pk, col) # {}
  <2> DEFINE first == FirstAt(pk, col)
             again == [first EXCEPT !.new = new, !.rev = n]
  <2>1. /\ first \in edits /\ first.pk = pk /\ first.col = col
        /\ edits' = (edits \ {first}) \cup {again}
    BY <1>1, <1>5, FirstAtIsStaged DEF SetInv, AddWithIdentity, AddLocked, AtCell
  <2>2. first \in Edit BY <2>1 DEF SetInv, SetTypeOK
  <2> HIDE DEF first
  <2>3. /\ again \in Edit /\ again.rev = n /\ again.pk = pk /\ again.col = col
        /\ again.ident = id /\ again.new = new /\ again.old = first.old
    BY <1>1, <1>2, <2>1, <2>2 DEF Edit
  <2>4. AddWithIdentity(id, pk, col, first.old, new) BY <1>5 DEF AddWithIdentity, AddLocked
  <2> HIDE DEF again, n
  <2>5. again \notin edits BY <1>3, <2>3
  <2>6. AddWithIdentity(again.ident, again.pk, again.col, again.old, again.new) BY <2>3, <2>4
  <2>7. edits \ {first} \in SUBSET edits OBVIOUS
  <2> QED BY <1>1, <2>1, <2>3, <2>5, <2>6, <2>7 DEF n
<1> QED BY <1>4, <1>5

\* A confirmed commit leaves every version it did not name, as it is or carried
\* to its row's new key under a revision of its own.
LEMMA RetireShape ==
    ASSUME SetInv, NEW committed, NEW moves \in SUBSET Move,
           RetireCommitted(committed, moves)
    PROVE  /\ nextRevision' \in Nat /\ nextRevision <= nextRevision'
           /\ \E f \in [Retire(committed) -> edits'] :
                /\ \A e \in edits' : \E d \in Retire(committed) : f[d] = e
                /\ \A d \in Retire(committed) :
                     /\ f[d].new = d.new /\ f[d].old = d.old
                     /\ f[d] = d \/ f[d].rev > nextRevision
<1> DEFINE kept == Retire(committed)
           moved == {e \in kept : MovedTo(e, moves) # {}}
           below(e) == {d \in moved : d.pos <= e.pos}
           rank(e) == Cardinality(below(e))
           key(e) == CHOOSE k \in MovedTo(e, moves) : TRUE
           carried(e) == [e EXCEPT !.pk = key(e), !.rev = nextRevision + rank(e)]
           f == [d \in kept |-> IF d \in moved THEN carried(d) ELSE d]
<1>1. /\ edits' = (kept \ moved) \cup {carried(e) : e \in moved}
      /\ nextRevision' = nextRevision + Cardinality(moved)
  BY DEF RetireCommitted
<1>2. nextRevision \in Nat /\ edits \subseteq Edit /\ kept \subseteq edits
      /\ moved \subseteq kept
  BY DEF SetInv, SetTypeOK, Retire
<1>3. IsFiniteSet(moved) /\ Cardinality(moved) \in Nat
  <2>1. IsFiniteSet(edits) /\ moved \in SUBSET edits BY <1>2, EditsFinite DEF SetInv
  <2> HIDE DEF moved
  <2> QED BY <2>1, FS_Subset, FS_CardinalityType
<1>4. ASSUME NEW e \in moved PROVE rank(e) \in Nat /\ rank(e) > 0
  <2>1. below(e) \in SUBSET moved OBVIOUS
  <2>2. IsFiniteSet(below(e)) /\ rank(e) \in Nat BY <1>3, <2>1, FS_Subset, FS_CardinalityType
  <2>3. e \in below(e) BY <1>2 DEF Edit
  <2>4. rank(e) # 0 BY <2>2, <2>3, FS_EmptySet
  <2> QED BY <2>2, <2>4
<1>5. ASSUME NEW e \in moved
      PROVE  /\ carried(e).new = e.new /\ carried(e).old = e.old
             /\ carried(e).rev > nextRevision
  <2>1. rank(e) \in Nat /\ rank(e) > 0 BY <1>4
  <2> HIDE DEF rank
  <2>2. e \in Edit BY <1>2
  <2>3. nextRevision + rank(e) > nextRevision BY <1>2, <2>1
  <2> QED BY <2>2, <2>3 DEF Edit
<1> HIDE DEF moved, carried
<1>6. f \in [kept -> edits'] BY <1>1, <1>2
<1>7. \A e \in edits' : \E d \in kept : f[d] = e BY <1>1, <1>2
<1>8. \A d \in kept : /\ f[d].new = d.new /\ f[d].old = d.old
                      /\ f[d] = d \/ f[d].rev > nextRevision
  BY <1>5
<1> HIDE DEF f
<1>9. nextRevision' \in Nat /\ nextRevision <= nextRevision' BY <1>1, <1>2, <1>3
<1> QED BY <1>6, <1>7, <1>8, <1>9

-----------------------------------------
(* The set's own steps. *)

\* Remembered versions that are all current are versions of the set.
LEMMA KnownAreCurrent ==
    ASSUME NEW S, \A x \in S : Known(x), Revs(S) \subseteq Revs(edits)
    PROVE  S \in SUBSET edits
<1> SUFFICES ASSUME NEW x \in S PROVE x \in edits OBVIOUS
<1>1. x.rev \in Revs(edits) BY DEF Revs
<1>2. PICK e \in edits : e.rev = x.rev BY <1>1 DEF Revs
<1> QED BY <1>2 DEF Known

\* The edits of the conflict dialog, if a method of the set accepts them.
LEMMA DialogIsCurrent ==
    ASSUME IInv, Revs({c.edit : c \in dialog}) \subseteq Revs(edits)
    PROVE  {c.edit : c \in dialog} \in SUBSET edits
<1> DEFINE S == {c.edit : c \in dialog}
<1>1. \A x \in S : Known(x) BY DEF IInv, StageInv, VersionsInv
<1>2. Revs(S) \subseteq Revs(edits) OBVIOUS
<1> HIDE DEF S
<1>3. S \in SUBSET edits BY <1>1, <1>2, KnownAreCurrent
<1> QED BY <1>3 DEF S

\* What the cell editor stages: a typed edit, from a sample that is still what
\* the grid shows, so that no commit has overtaken it.
LEMMA SaveFacts ==
    ASSUME IInv, NEW k \in Keys, SaveEdit(k)
    PROVE  \E old \in Olds, new \in News :
             /\ AddWithIdentity(editor.ident, editor.pk, editor.col, old, new)
             /\ editor.ident \in Idents /\ editor.pk \in Keys /\ editor.col \in Cols
             /\ ~old.late /\ new.intent = nextRevision + 1
<1> DEFINE old == [val |-> editor.val,
                   late |-> editor.stale /\ attempt = None]
           new == [intent |-> nextRevision + 1, key |-> k]
<1>1. editor \in Sample /\ nextRevision \in Nat /\ nextRevision < MaxRevision
  BY DEF SaveEdit, IInv, TypeOK, SetTypeOK, AddWithIdentity, AddLocked
<1>2. old \in OldValues BY <1>1 DEF Sample, OldValues
<1>3. new \in NewValues BY <1>1, EditsAssumption DEF NewValues, Intents
<1>4. ~(editor.stale /\ attempt = None)
  <2>1. editor # None /\ editor.base = grid.base BY DEF SaveEdit, BaselineHolds
  <2>2. editor.stale => \E o \in Ops : op[o].state = "grid" BY <2>1 DEF IInv, StageInv, BaseInv, Overtaken
  <2>3. \A o \in Ops : op[o].state = "grid" => attempt = o BY DEF IInv, StageInv, OpsInv
  <2> QED BY <2>2, <2>3, EditsAssumption DEF Ops
<1>5. ~old.late /\ new.intent = nextRevision + 1 BY <1>4
<1>6. AddWithIdentity(editor.ident, editor.pk, editor.col, old, new) BY DEF SaveEdit
<1>7. editor.ident \in Idents /\ editor.pk \in Keys /\ editor.col \in Cols BY <1>1 DEF Sample
<1> HIDE DEF old, new
<1> QED BY <1>2, <1>3, <1>5, <1>6, <1>7, CommitAssumption

\* The edit the set holds after that.
LEMMA SavedEdit ==
    ASSUME IInv, NEW k \in Keys, SaveEdit(k)
    PROVE  /\ UNCHANGED <<attempt, commitEdits, unknown, unknownMoves, reservedAt,
                          applied, op, dialog>>
           /\ nextRevision' = nextRevision + 1 /\ nextRevision < MaxRevision
           /\ \E kept \in SUBSET edits, e \in Edit :
                /\ edits' = kept \cup {e} /\ e \notin edits
                /\ e.rev = nextRevision + 1 /\ e.new.intent = nextRevision + 1
                /\ ~e.old.late
                /\ AddWithIdentity(e.ident, e.pk, e.col, e.old, e.new)
<1>1. PICK old \in Olds, new \in News :
        /\ AddWithIdentity(editor.ident, editor.pk, editor.col, old, new)
        /\ editor.ident \in Idents /\ editor.pk \in Keys /\ editor.col \in Cols
        /\ ~old.late /\ new.intent = nextRevision + 1
  BY SaveFacts
<1>2. SetInv /\ \A d \in edits : ~d.old.late BY DEF IInv, StagedOnSettledBaseline
<1>3. PICK kept \in SUBSET edits, e \in Edit :
        /\ edits' = kept \cup {e} /\ e \notin edits
        /\ nextRevision' = nextRevision + 1 /\ nextRevision < MaxRevision
        /\ e.rev = nextRevision + 1 /\ e.new = new
        /\ e.old = old \/ \E d \in edits : e.old = d.old
        /\ AddWithIdentity(e.ident, e.pk, e.col, e.old, e.new)
  <2> DEFINE id == editor.ident
             pk == editor.pk
             col == editor.col
  <2>1. id \in Idents /\ pk \in Keys /\ col \in Cols
        /\ AddWithIdentity(id, pk, col, old, new)
    BY <1>1
  <2> HIDE DEF id, pk, col
  <2> QED BY <1>2, <2>1, AddShape
<1>4. e.new.intent = nextRevision + 1 /\ ~e.old.late BY <1>1, <1>2, <1>3
<1>5. UNCHANGED <<attempt, commitEdits, unknown, unknownMoves, reservedAt, applied, op, dialog>>
  BY DEF SaveEdit, AddWithIdentity, serverVars
<1> QED BY <1>3, <1>4, <1>5

\* An operation only ever reports pairs of keys and one of its outcomes.
LEMMA OpFacts ==
    ASSUME IInv, NEW o \in Ops
    PROVE  /\ op[o] \in Operation /\ op[o].moves \in SUBSET Move
           /\ o \in Snapshots /\ o # None
BY EditsAssumption DEF IInv, TypeOK, Operation, Ops

\* Everything the program does to the set is one of the set's methods.
LEMMA SetStep == IInv /\ [Next]_vars => [SetNext]_setVars
<1> SUFFICES ASSUME IInv, [Next]_vars PROVE SetNext \/ UNCHANGED setVars OBVIOUS
<1>1. CASE UNCHANGED vars BY <1>1 DEF vars
<1>2. ASSUME NEW r \in Rows, NEW c \in Cols, OpenEditor(r, c) \/ DiscardAtCursor(r, c)
      PROVE  SetNext \/ UNCHANGED setVars
  <2>1. CASE OpenEditor(r, c) BY <2>1 DEF OpenEditor
  <2>2. CASE DiscardAtCursor(r, c)
    <3> DEFINE pk == grid.rows[r].key
    <3>1. RemoveWithIdentity(grid.ident, pk, c) /\ AtCell(pk, c) # {} /\ identity = grid.ident
      BY <2>2 DEF DiscardAtCursor, RemoveWithIdentity
    <3>2. \E e \in edits : e.pk = pk /\ e.col = c BY <3>1 DEF AtCell
    <3> QED BY <3>1, <3>2 DEF SetNext
  <2> QED BY <1>2, <2>1, <2>2
<1>3. CASE CloseEditor BY <1>3 DEF CloseEditor
<1>4. CASE CancelEdit
  <2>1. /\ RemoveWithIdentity(identity, editor.pk, editor.col)
        /\ AtCell(editor.pk, editor.col) # {}
    BY <1>4 DEF CancelEdit, RemoveWithIdentity
  <2>2. \E e \in edits : e.pk = editor.pk /\ e.col = editor.col BY <2>1 DEF AtCell
  <2> QED BY <2>1, <2>2 DEF SetNext
<1>5. ASSUME NEW k \in Keys, SaveEdit(k) PROVE SetNext
  <2>1. \E kept \in SUBSET edits, e \in Edit :
          /\ edits' = kept \cup {e} /\ e \notin edits
          /\ AddWithIdentity(e.ident, e.pk, e.col, e.old, e.new)
    BY <1>5, SavedEdit
  <2> QED BY <2>1 DEF SetNext
<1>6. CASE DiscardAll BY <1>6 DEF DiscardAll, SetNext
<1>7. CASE LoadRead \/ \E id \in Idents : LoadInstall(id) BY <1>7 DEF LoadRead, LoadInstall
<1>8. ASSUME NEW o \in Ops, StartApply(o) \/ StartDryRun(o) \/ StartOverwrite(o)
      PROVE  SetNext
  <2>1. \E S \in SUBSET edits : BeginCommit(o, S)
    <3>1. CASE BeginCommit(o, edits) BY <3>1
    <3>2. CASE BeginCommit(o, {c.edit : c \in dialog})
      <4>1. {c.edit : c \in dialog} \in SUBSET edits BY <3>2, DialogIsCurrent DEF BeginCommit
      <4> QED BY <3>2, <4>1
    <3> QED BY <1>8, <3>1, <3>2 DEF StartApply, StartDryRun, StartOverwrite, Capture
  <2> QED BY <2>1 DEF SetNext, Ops
<1>9. ASSUME NEW o \in Ops,
             \/ ExecuteFails(o) \/ ExecuteRollsBack(o) \/ ExecuteCommits(o)
             \/ ExecuteUnknown(o) \/ SettleGrid(o) \/ Publish(o)
      PROVE  UNCHANGED setVars
  BY <1>9 DEF ExecuteFails, ExecuteRollsBack, ExecuteCommits, ExecuteUnknown,
              SettleGrid, Publish
<1>10. ASSUME NEW o \in Ops, SettleSet(o) PROVE SetNext
  <2>1. SettleCommit(o, op[o].out = "committed", op[o].out = "unknown", op[o].moves) BY <1>10 DEF SettleSet
  <2>2. (op[o].out = "committed") \in BOOLEAN /\ (op[o].out = "unknown") \in BOOLEAN OBVIOUS
  <2>3. op[o].moves \in SUBSET Move /\ o \in Snapshots BY OpFacts
  <2>4. PICK committed \in BOOLEAN, lost \in BOOLEAN, moves \in SUBSET Move :
          SettleCommit(o, committed, lost, moves)
    BY <2>1, <2>2, <2>3
  <2> QED BY <2>3, <2>4 DEF SetNext
<1>11. CASE RefreshConflicts
  <2>1. DiscardOwned({c.edit : c \in dialog}) BY <1>11 DEF RefreshConflicts
  <2>2. {c.edit : c \in dialog} \in SUBSET edits BY <2>1, DialogIsCurrent DEF DiscardOwned
  <2> QED BY <2>1, <2>2 DEF SetNext
<1>12. CASE DismissDialog BY <1>12 DEF DismissDialog
<1>13. CASE Reconcile
  <2>1. (\E e \in unknown : applied[e.new.intent] > 0) \in BOOLEAN OBVIOUS
  <2>2. \E committed \in BOOLEAN : ReconcileCommitOutcome(committed) BY <1>13, <2>1 DEF Reconcile
  <2> QED BY <2>2 DEF SetNext
<1>14. ASSUME NEW r \in Rows, ForeignDelete(r) \/ \E c \in DataCols : ForeignWrite(r, c)
       PROVE  UNCHANGED setVars
  BY <1>14 DEF ForeignDelete, ForeignWrite
<1> QED BY <1>1, <1>2, <1>3, <1>4, <1>5, <1>6, <1>7, <1>8, <1>9, <1>10, <1>11, <1>12,
     <1>13, <1>14 DEF Next

-----------------------------------------
(* The steps of the program, sorted by what they do to set and operations. *)

\* Edits leave the set or nothing happens to it; no operation moves.
DropStep ==
    /\ edits' \subseteq edits /\ dialog' \subseteq dialog
    /\ UNCHANGED <<nextRevision, identity, attempt, commitEdits, unknown,
                   unknownMoves, reservedAt, applied, op>>

StartStep(o) ==
    /\ dialog' \subseteq dialog
    /\ \E kind \in {"apply", "dryrun", "overwrite"}, S \in SUBSET edits : Capture(o, kind, S)

ExecuteStep(o) ==
    ExecuteFails(o) \/ ExecuteRollsBack(o) \/ ExecuteCommits(o) \/ ExecuteUnknown(o)

\* An operation starts from edits the set holds, whatever asks for it.
LEMMA Starts ==
    ASSUME IInv, NEW o \in Ops, StartApply(o) \/ StartDryRun(o) \/ StartOverwrite(o)
    PROVE  StartStep(o)
<1>1. CASE StartApply(o) \/ StartDryRun(o)
  <2>1. edits \in SUBSET edits /\ dialog' \subseteq dialog BY <1>1 DEF StartApply, StartDryRun
  <2> QED BY <1>1, <2>1 DEF StartApply, StartDryRun, StartStep
<1>2. CASE StartOverwrite(o)
  <2> DEFINE S == {c.edit : c \in dialog}
  <2>1. Capture(o, "overwrite", S) /\ dialog' = {} BY <1>2 DEF StartOverwrite
  <2>2. S \in SUBSET edits BY <2>1, DialogIsCurrent DEF Capture, BeginCommit
  <2> HIDE DEF S
  <2> QED BY <2>1, <2>2 DEF StartStep
<1> QED BY <1>1, <1>2

\* Every step is one of these.
LEMMA StepKinds ==
    ASSUME IInv, [Next]_vars
    PROVE  \/ DropStep
           \/ \E k \in Keys : SaveEdit(k)
           \/ \E o \in Ops : \/ StartStep(o) \/ ExecuteStep(o)
                             \/ SettleGrid(o) \/ SettleSet(o) \/ Publish(o)
           \/ Reconcile
<1>1. CASE UNCHANGED vars BY <1>1 DEF vars, setVars, serverVars, uiVars, DropStep
<1>2. ASSUME NEW r \in Rows, NEW c \in Cols, OpenEditor(r, c) \/ DiscardAtCursor(r, c)
      PROVE  DropStep
  BY <1>2 DEF OpenEditor, DiscardAtCursor, RemoveWithIdentity, DropStep, setVars,
              serverVars, uiVars
<1>3. CASE CloseEditor \/ CancelEdit \/ DiscardAll
  BY <1>3 DEF CloseEditor, CancelEdit, DiscardAll, RemoveWithIdentity, Clear, DropStep,
              setVars, serverVars, uiVars
<1>4. CASE LoadRead \/ \E id \in Idents : LoadInstall(id)
  BY <1>4 DEF LoadRead, LoadInstall, DropStep, setVars, serverVars
<1>5. CASE RefreshConflicts \/ DismissDialog
  BY <1>5 DEF RefreshConflicts, DismissDialog, DiscardOwned, DropStep, setVars, serverVars
<1>6. ASSUME NEW r \in Rows, ForeignDelete(r) \/ \E c \in DataCols : ForeignWrite(r, c)
      PROVE  DropStep
  BY <1>6 DEF ForeignDelete, ForeignWrite, DropStep, setVars, uiVars
<1> QED BY <1>1, <1>2, <1>3, <1>4, <1>5, <1>6, Starts DEF Next, ExecuteStep

\* What starting an operation changes.
LEMMA StartFacts ==
    ASSUME IInv, NEW o \in Ops, StartStep(o)
    PROVE  /\ attempt = None /\ unknown = {} /\ commitEdits = {}
           /\ attempt' = o /\ commitEdits' \subseteq edits
           /\ UNCHANGED <<edits, nextRevision, identity, unknown, unknownMoves, applied,
                          grid, editor>>
           /\ op[o].state = "idle" /\ op'[o].state = "execute"
           /\ op'[o].conflicts = op[o].conflicts /\ op'[o].fetched = op[o].fetched
           /\ op'[o].moves = op[o].moves
           /\ \A p \in Ops : p # o => op'[p] = op[p]
<1>1. PICK kind \in {"apply", "dryrun", "overwrite"}, S \in SUBSET edits :
        Capture(o, kind, S)
  BY DEF StartStep
<1>2. BeginCommit(o, S) /\ op[o].state = "idle"
      /\ op' = [op EXCEPT ![o].state = "execute", ![o].kind = kind, ![o].gen = grid.gen]
      /\ UNCHANGED <<applied, grid, editor>>
  BY <1>1 DEF Capture, serverVars
<1>3. op \in [Ops -> Operation] /\ op[o] \in Operation BY DEF IInv, TypeOK
<1>4. /\ op'[o].state = "execute" /\ op'[o].conflicts = op[o].conflicts
      /\ op'[o].fetched = op[o].fetched /\ op'[o].moves = op[o].moves
      /\ \A p \in Ops : p # o => op'[p] = op[p]
  BY <1>2, <1>3 DEF Operation
<1>5. attempt = None /\ unknown = {} /\ commitEdits = {} BY <1>2 DEF BeginCommit, IInv, SetInv, OneReceipt
<1> QED BY <1>2, <1>4, <1>5 DEF BeginCommit

\* What executing it changes: nothing of the set, and the server all at once.
LEMMA ExecuteFacts ==
    ASSUME IInv, NEW o \in Ops, ExecuteStep(o)
    PROVE  /\ UNCHANGED <<setVars, dialog, grid>>
           /\ op[o].state = "execute" /\ op'[o].state = "grid" /\ attempt = o
           /\ op'[o].gen = op[o].gen
           /\ \A p \in Ops : p # o => op'[p] = op[p]
           /\ op' \in [Ops -> Operation] /\ UNCHANGED <<foreign, loading>>
           /\ \/ /\ UNCHANGED <<keyOf, value, applied, editor>>
                 /\ op'[o].out # "committed"
              \/ \E t \in TxState : Durable(t) /\ op'[o].out = "unknown" /\ UNCHANGED editor
              \/ /\ \E t \in TxState : Durable(t)
                 /\ op'[o].out = "committed"
                 /\ editor' = IF editor # None /\ op[o].gen = grid.gen
                              THEN [editor EXCEPT !.stale = TRUE] ELSE editor
           /\ \A c \in op'[o].conflicts : c \in op[o].conflicts \/ c.edit \in commitEdits
           /\ op'[o].fetched # NoRows =>
                 \A m \in op'[o].moves : \E q \in Rows :
                    op'[o].fetched[q] # None /\ op'[o].fetched[q].key = m[2]
<1> DEFINE t == Transaction(op[o].kind)
<1>1. op \in [Ops -> Operation] /\ op[o] \in Operation /\ op[o].state = "execute"
  BY DEF IInv, TypeOK, ExecuteStep, ExecuteFails, ExecuteRollsBack, ExecuteCommits,
         ExecuteUnknown
<1>2. attempt = o /\ op[o].fetched = NoRows BY <1>1 DEF IInv, StageInv, OpsInv
<1>3. t \in TxState BY TransactionType, BatchLength DEF IInv, StageInv
<1>4. Moves \subseteq Move BY MovesType DEF IInv, TypeOK
<1> HIDE DEF t
<1>5. ASSUME NEW out \in {"committed", "failed", "unknown", "conflict", "dry", None},
             NEW moves \in SUBSET Move, Receipt(o, out, moves)
      PROVE  /\ op' \in [Ops -> Operation]
             /\ op'[o].state = "grid" /\ op'[o].gen = op[o].gen /\ op'[o].out = out
             /\ \A p \in Ops : p # o => op'[p] = op[p]
             /\ op'[o].conflicts = op[o].conflicts /\ op'[o].fetched = NoRows
  BY <1>1, <1>2, <1>5 DEF Receipt, Operation
<1>6. CASE ExecuteFails(o)
  <2>1. UNCHANGED <<setVars, serverVars, uiVars>>
        /\ (Receipt(o, "failed", {}) \/ Receipt(o, "unknown", {}))
    BY <1>6 DEF ExecuteFails
  <2> QED BY <1>1, <1>2, <1>5, <2>1 DEF serverVars, uiVars
<1>7. CASE ExecuteRollsBack(o)
  <2> DEFINE out == IF t.conflicts # {} THEN "conflict" ELSE "dry"
  <2>1. /\ UNCHANGED <<setVars, serverVars, uiVars>>
        /\ op' = [op EXCEPT ![o].state = "grid", ![o].conflicts = t.conflicts,
                            ![o].out = out]
    BY <1>7 DEF ExecuteRollsBack, t
  <2>2. out \in {"conflict", "dry"} /\ t.conflicts \in SUBSET Conflict BY <1>3 DEF TxState
  <2> HIDE DEF out
  <2>3. /\ op' \in [Ops -> Operation]
        /\ op'[o].state = "grid" /\ op'[o].gen = op[o].gen /\ op'[o].out = out
        /\ \A p \in Ops : p # o => op'[p] = op[p]
        /\ op'[o].conflicts = t.conflicts /\ op'[o].fetched = NoRows
    BY <1>1, <1>2, <2>1, <2>2 DEF Operation
  <2>4. \A c \in t.conflicts : c.edit \in commitEdits BY <1>3 DEF TxState
  <2> QED BY <1>1, <1>2, <2>1, <2>2, <2>3, <2>4 DEF serverVars, uiVars
<1>8. CASE ExecuteCommits(o)
  <2>1. PICK rows \in Refetch(t) :
          op' = [op EXCEPT ![o].state = "grid", ![o].out = "committed",
                           ![o].moves = Moves, ![o].fetched = rows]
    BY <1>8 DEF ExecuteCommits, t
  <2>2. /\ UNCHANGED <<setVars, foreign, grid, loading, dialog>> /\ Durable(t)
        /\ editor' = IF editor # None /\ op[o].gen = grid.gen
                     THEN [editor EXCEPT !.stale = TRUE] ELSE editor
    BY <1>8 DEF ExecuteCommits, t
  <2>5. rows \in GridRows BY <1>3, <2>1, NoRowsType, ImageType DEF Refetch, TxState
  <2>3. /\ op' \in [Ops -> Operation]
        /\ op'[o].state = "grid" /\ op'[o].gen = op[o].gen /\ op'[o].out = "committed"
        /\ \A p \in Ops : p # o => op'[p] = op[p]
        /\ op'[o].conflicts = op[o].conflicts /\ op'[o].fetched = rows
        /\ op'[o].moves = Moves
    BY <1>1, <1>4, <2>1, <2>5 DEF Operation
  <2>4. ASSUME rows # NoRows, NEW m \in Moves
        PROVE  \E q \in Rows : rows[q] # None /\ rows[q].key = m[2]
    <3>1. rows = Image(t.key, t.val) /\ \E r \in Rows : t.key[r] = m[2] BY <2>4, <2>1 DEF Refetch
    <3>2. PICK r \in Rows : t.key[r] = m[2] BY <3>1
    <3>3. m[2] \in Keys BY <1>4, <2>4 DEF Move
    <3>4. t.key[r] # None BY <3>2, <3>3, CommitAssumption
    <3>5. rows[r] = [key |-> t.key[r], vals |-> t.val[r]] BY <3>1, <3>4 DEF Image
    <3>6. rows[r] \in Shown BY <1>3, <3>2, <3>3, <3>5 DEF TxState, Shown
    <3>7. rows[r] # None BY <3>6, CommitAssumption
    <3> QED BY <3>2, <3>5, <3>7
  <2> QED BY <1>1, <1>2, <1>3, <2>2, <2>3, <2>4
<1>9. CASE ExecuteUnknown(o)
  <2>1. /\ UNCHANGED <<setVars, foreign, uiVars>>
        /\ \/ Durable(t) /\ Receipt(o, "unknown", Moves)
           \/ Durable(t) /\ Receipt(o, "unknown", {})
           \/ UNCHANGED <<keyOf, value, applied>> /\ Receipt(o, "unknown", Moves)
    BY <1>9 DEF ExecuteUnknown, t
  <2>2. {} \in SUBSET Move /\ Moves \in SUBSET Move BY <1>4
  <2>3. /\ op' \in [Ops -> Operation]
        /\ op'[o].state = "grid" /\ op'[o].gen = op[o].gen /\ op'[o].out = "unknown"
        /\ \A p \in Ops : p # o => op'[p] = op[p]
        /\ op'[o].conflicts = op[o].conflicts /\ op'[o].fetched = NoRows
    BY <1>5, <2>1, <2>2
  <2> QED BY <1>1, <1>2, <1>3, <2>1, <2>3 DEF uiVars
<1> QED BY <1>6, <1>7, <1>8, <1>9 DEF ExecuteStep

\* What a settlement, with any receipt, does to the set.
LEMMA SettleFacts ==
    ASSUME IInv, NEW o \in Ops, SettleSet(o)
    PROVE  /\ attempt = o /\ op[o].state = "settle" /\ unknown = {}
           /\ attempt' = None /\ commitEdits' = {}
           /\ UNCHANGED <<dialog, applied, grid, editor>>
           /\ op'[o].state = "publish" /\ op'[o].fetched = op[o].fetched
           /\ op'[o].conflicts = op[o].conflicts
           /\ \A p \in Ops : p # o => op'[p] = op[p]
           /\ \/ /\ op[o].out = "committed" /\ unknown' = {}
                 /\ RetireCommitted(commitEdits, op[o].moves)
              \/ /\ op[o].out = "unknown" /\ unknown' = commitEdits
                 /\ UNCHANGED <<edits, nextRevision>>
              \/ /\ op[o].out \notin {"committed", "unknown"} /\ unknown' = {}
                 /\ UNCHANGED <<edits, nextRevision>>
<1>1. /\ SettleCommit(o, op[o].out = "committed", op[o].out = "unknown", op[o].moves)
      /\ op' = [op EXCEPT ![o].state = "publish", ![o].moves = {}]
      /\ UNCHANGED <<dialog, applied, grid, editor>> /\ op[o].state = "settle"
  BY DEF SettleSet, uiVars, serverVars
<1>2. op \in [Ops -> Operation] /\ op[o] \in Operation BY DEF IInv, TypeOK
<1>3. /\ op'[o].state = "publish" /\ op'[o].fetched = op[o].fetched
      /\ op'[o].conflicts = op[o].conflicts
      /\ \A p \in Ops : p # o => op'[p] = op[p]
  BY <1>1, <1>2 DEF Operation
<1>4. attempt = o /\ unknown = {} BY <1>1, OpFacts DEF SettleCommit, IInv, SetInv, OneReceipt
<1> QED BY <1>1, <1>3, <1>4 DEF SettleCommit

\* What a reconciliation does to it.
LEMMA ReconcileFacts ==
    ASSUME IInv, Reconcile
    PROVE  /\ attempt = None /\ commitEdits = {} /\ unknown # {}
           /\ UNCHANGED <<attempt, commitEdits, dialog, applied, grid, editor, op>>
           /\ unknown' = {}
           /\ \/ /\ \E e \in unknown : applied[e.new.intent] > 0
                 /\ RetireCommitted(unknown, unknownMoves)
                 /\ unknownMoves \in SUBSET Move
              \/ /\ ~ \E e \in unknown : applied[e.new.intent] > 0
                 /\ UNCHANGED <<edits, nextRevision>>
BY DEF Reconcile, ReconcileCommitOutcome, uiVars, serverVars, IInv, SetInv, OneReceipt,
       SetTypeOK

\* What a publication changes.
LEMMA PublishFacts ==
    ASSUME IInv, NEW o \in Ops, Publish(o)
    PROVE  /\ UNCHANGED <<setVars, applied, grid, editor>> /\ op[o].state = "publish"
           /\ op'[o] = IdleOp /\ \A p \in Ops : p # o => op'[p] = op[p]
           /\ dialog' = op[o].conflicts \/ dialog' = dialog
BY DEF Publish, IInv, TypeOK, serverVars

\* What settling the grid changes outside it.
LEMMA GridFacts ==
    ASSUME IInv, NEW o \in Ops, SettleGrid(o)
    PROVE  /\ UNCHANGED <<setVars, applied, editor, dialog>> /\ op[o].state = "grid"
           /\ op'[o].state = "settle" /\ op'[o].fetched = NoRows
           /\ op'[o].out = op[o].out /\ op'[o].conflicts = op[o].conflicts
           /\ \A p \in Ops : p # o => op'[p] = op[p]
<1>1. /\ op' = [op EXCEPT ![o].state = "settle", ![o].fetched = NoRows]
      /\ op[o].state = "grid" /\ UNCHANGED <<setVars, applied, editor, dialog>>
  BY DEF SettleGrid, serverVars
<1>2. op \in [Ops -> Operation] /\ op[o] \in Operation BY DEF IInv, TypeOK
<1> QED BY <1>1, <1>2 DEF Operation

\* Executing, settling the grid and publishing leave the set alone.
LEMMA SetUntouched ==
    ASSUME IInv, NEW o \in Ops, ExecuteStep(o) \/ SettleGrid(o) \/ Publish(o)
    PROVE  UNCHANGED setVars
BY ExecuteFacts, GridFacts, PublishFacts

\* A grid that shows the committed rows takes the refetched ones.
LEMMA GridSettled ==
    ASSUME IInv, NEW o \in Ops, SettleGrid(o), op[o].out = "committed", op[o].gen = grid.gen
    PROVE  grid' \in Grid /\ grid'.base = grid.base + 1
<1> DEFINE m(r) == {n \in op[o].moves : n[1] = grid.rows[r].key}
           touched == {r \in Rows : grid.rows[r] # None /\ m(r) # {}}
           image(k) == op[o].fetched[CHOOSE q \in Rows : op[o].fetched[q] # None
                                                     /\ op[o].fetched[q].key = k]
           fetched == op[o].fetched # NoRows
           editable == grid.ok /\ fetched /\ Cardinality(touched) = Cardinality(op[o].moves)
           taken(r) == IF r \in touched THEN image((CHOOSE n \in m(r) : TRUE)[2])
                       ELSE grid.rows[r]
           rows == IF fetched THEN [r \in Rows |-> taken(r)] ELSE grid.rows
<1>1. grid' = [grid EXCEPT !.base = BaselineAfter, !.ok = editable, !.rows = rows] BY DEF SettleGrid
<1>2. grid \in Grid /\ op[o].fetched \in GridRows /\ grid.rows \in GridRows
      /\ editable \in BOOLEAN
  BY DEF IInv, TypeOK, Operation, Grid
<1>3. ASSUME fetched, NEW r \in Rows PROVE taken(r) \in Shown \cup {None}
  <2>1. CASE r \notin touched BY <1>2, <2>1 DEF GridRows
  <2>2. CASE r \in touched
    <3> DEFINE n == CHOOSE n \in m(r) : TRUE
    <3>1. n \in op[o].moves BY <2>2
    <3> HIDE DEF n
    <3>2. \E q \in Rows : op[o].fetched[q] # None /\ op[o].fetched[q].key = n[2]
      BY <1>3, <3>1 DEF IInv, StageInv, OpsInv
    <3>3. image(n[2]) \in Shown \cup {None} BY <1>2, <3>2 DEF GridRows
    <3> QED BY <2>2, <3>3 DEF n
  <2> QED BY <2>1, <2>2
<1> HIDE DEF taken, editable, fetched
<1>4. rows \in GridRows BY <1>2, <1>3 DEF GridRows
<1> HIDE DEF rows
<1>5. BaselineAfter \in Nat /\ BaselineAfter = grid.base + 1 BY <1>2 DEF BaselineAfter, Grid
<1> QED BY <1>1, <1>2, <1>4, <1>5 DEF Grid

-----------------------------------------
(* The parts of the invariant, one by one. *)

\* A batch stays finite.
LEMMA BatchStep == IInv /\ [Next]_vars => BatchInv'
<1> SUFFICES ASSUME IInv, [Next]_vars PROVE BatchInv' OBVIOUS
<1>1. IsFiniteSet(commitEdits) /\ IsFiniteSet(edits) /\ IsFiniteSet({})
  BY EditsFinite, FS_EmptySet DEF IInv, StageInv, BatchInv, SetInv
<1>2. ASSUME NEW o \in Ops, StartStep(o) PROVE BatchInv'
  <2>1. commitEdits' \in SUBSET edits BY <1>2, StartFacts
  <2> QED BY <1>1, <2>1, FS_Subset DEF BatchInv
<1>3. ASSUME NEW o \in Ops, SettleSet(o) PROVE BatchInv'
  <2>1. commitEdits' = {} BY <1>3, SettleFacts
  <2> QED BY <1>1, <2>1 DEF BatchInv
<1>4. ASSUME commitEdits' = commitEdits PROVE BatchInv' BY <1>1, <1>4 DEF BatchInv
<1>5. ASSUME NEW k \in Keys, SaveEdit(k) PROVE BatchInv' BY <1>4, <1>5, SavedEdit
<1>6. CASE DropStep \/ Reconcile BY <1>4, <1>6, ReconcileFacts DEF DropStep
<1>7. ASSUME UNCHANGED setVars PROVE BatchInv' BY <1>4, <1>7 DEF setVars
<1> QED BY <1>2, <1>3, <1>5, <1>6, <1>7, StepKinds, SetUntouched

\* The operation whose receipt is awaited.
LEMMA OpsStep == IInv /\ [Next]_vars => OpsInv'
<1> SUFFICES ASSUME IInv, [Next]_vars PROVE OpsInv' OBVIOUS
<1>1. ASSUME NEW p \in Ops
      PROVE  /\ op[p].state \in {"execute", "grid", "settle"} <=> attempt = p
             /\ p # None
             /\ op[p].fetched # NoRows =>
                  /\ op[p].state = "grid"
                  /\ \A m \in op[p].moves : \E q \in Rows :
                         op[p].fetched[q] # None /\ op[p].fetched[q].key = m[2]
  BY OpFacts DEF IInv, StageInv, OpsInv
<1>2. ASSUME NEW o \in Ops, \A p \in Ops : p # o => op'[p] = op[p],
             attempt' = o \/ (attempt' = None /\ attempt \in {o, None}),
             attempt = o \/ attempt = None,
             op'[o].state \in {"execute", "grid", "settle"} <=> attempt' = o,
             op'[o].fetched # NoRows =>
                  /\ op'[o].state = "grid"
                  /\ \A m \in op'[o].moves : \E q \in Rows :
                         op'[o].fetched[q] # None /\ op'[o].fetched[q].key = m[2]
      PROVE  OpsInv'
  BY <1>1, <1>2 DEF OpsInv
<1>3. ASSUME NEW o \in Ops, StartStep(o) PROVE OpsInv'
  <2>1. /\ attempt = None /\ attempt' = o /\ op'[o].state = "execute"
        /\ op[o].state = "idle" /\ op'[o].fetched = op[o].fetched
        /\ \A p \in Ops : p # o => op'[p] = op[p]
    BY <1>3, StartFacts
  <2>2. op'[o].fetched = NoRows BY <1>1, <2>1
  <2> QED BY <1>2, <2>1, <2>2
<1>4. ASSUME NEW o \in Ops, ExecuteStep(o) PROVE OpsInv'
  <2>1. /\ attempt = o /\ attempt' = attempt /\ op'[o].state = "grid"
        /\ \A p \in Ops : p # o => op'[p] = op[p]
        /\ op'[o].fetched # NoRows =>
              \A m \in op'[o].moves : \E q \in Rows :
                 op'[o].fetched[q] # None /\ op'[o].fetched[q].key = m[2]
    BY <1>4, ExecuteFacts DEF setVars
  <2> QED BY <1>2, <2>1
<1>5. ASSUME NEW o \in Ops, SettleGrid(o) PROVE OpsInv'
  <2>1. /\ op'[o].state = "settle" /\ op'[o].fetched = NoRows
        /\ attempt' = attempt /\ op[o].state = "grid"
        /\ \A p \in Ops : p # o => op'[p] = op[p]
    BY <1>5, GridFacts DEF setVars
  <2> QED BY <1>1, <1>2, <2>1
<1>6. ASSUME NEW o \in Ops, SettleSet(o) PROVE OpsInv'
  <2>1. /\ op'[o].state = "publish" /\ op'[o].fetched = op[o].fetched
        /\ attempt = o /\ attempt' = None /\ op[o].state = "settle"
        /\ \A p \in Ops : p # o => op'[p] = op[p]
    BY <1>6, SettleFacts
  <2> QED BY <1>1, <1>2, <2>1
<1>7. ASSUME NEW o \in Ops, Publish(o) PROVE OpsInv'
  <2>1. /\ op'[o] = IdleOp /\ attempt' = attempt /\ op[o].state = "publish"
        /\ \A p \in Ops : p # o => op'[p] = op[p]
    BY <1>7, PublishFacts DEF setVars
  <2>2. op'[o].state = "idle" /\ op'[o].fetched = NoRows BY <2>1 DEF IdleOp
  <2> QED BY <1>1, <2>1, <2>2 DEF OpsInv
<1>8. ASSUME UNCHANGED <<op, attempt>> PROVE OpsInv' BY <1>1, <1>8 DEF OpsInv
<1>9. ASSUME NEW k \in Keys, SaveEdit(k) PROVE OpsInv' BY <1>8, <1>9, SavedEdit
<1>10. CASE DropStep \/ Reconcile BY <1>8, <1>10, ReconcileFacts DEF DropStep
<1> QED BY <1>3, <1>4, <1>5, <1>6, <1>7, <1>9, <1>10, StepKinds

\* An intent is handed out once.
LEMMA IntentsStep == IInv /\ [Next]_vars => IntentsInv'
<1> SUFFICES ASSUME IInv, [Next]_vars PROVE IntentsInv' OBVIOUS
<1> DEFINE All == edits \cup commitEdits \cup unknown
<1>1. /\ nextRevision \in Nat /\ All \subseteq Edit
      /\ \A e \in All : e.new.intent <= nextRevision /\ e.new.intent \in Nat
      /\ \A d \in edits : \A e \in All : d.new.intent = e.new.intent => d = e
  <2>1. \A e \in Edit : e.new.intent \in Nat BY CommitAssumption, EditsAssumption DEF Edit, NewValues, Intents
  <2> QED BY <2>1 DEF IInv, SetInv, SetTypeOK, StageInv, IntentsInv
<1>2. ASSUME edits' \subseteq edits, commitEdits' \cup unknown' \subseteq All,
             nextRevision' = nextRevision
      PROVE  IntentsInv'
  BY <1>1, <1>2 DEF IntentsInv
<1>3. ASSUME NEW k \in Keys, SaveEdit(k) PROVE IntentsInv'
  <2>1. PICK kept \in SUBSET edits, e \in Edit :
          /\ edits' = kept \cup {e} /\ e.new.intent = nextRevision + 1
    BY <1>3, SavedEdit
  <2>2. /\ commitEdits' = commitEdits /\ unknown' = unknown
        /\ nextRevision' = nextRevision + 1
    BY <1>3, SavedEdit
  <2> QED BY <1>1, <2>1, <2>2 DEF IntentsInv
<1>4. ASSUME NEW committed, NEW moves \in SUBSET Move, RetireCommitted(committed, moves),
             commitEdits' = {}, unknown' = {}
      PROVE  IntentsInv'
  <2>1. SetInv BY DEF IInv
  <2>2. nextRevision' \in Nat /\ nextRevision <= nextRevision' BY <1>4, <2>1, RetireShape
  <2>3. PICK f \in [Retire(committed) -> edits'] :
          /\ \A e \in edits' : \E d \in Retire(committed) : f[d] = e
          /\ \A d \in Retire(committed) : f[d].new = d.new
    <3>1. PICK f \in [Retire(committed) -> edits'] :
            /\ \A e \in edits' : \E d \in Retire(committed) : f[d] = e
            /\ \A d \in Retire(committed) :
                 /\ f[d].new = d.new /\ f[d].old = d.old
                 /\ f[d] = d \/ f[d].rev > nextRevision
      BY <1>4, <2>1, RetireShape
    <3> QED BY <3>1
  <2>4. Retire(committed) \subseteq edits BY DEF Retire
  <2> QED BY <1>1, <1>4, <2>2, <2>3, <2>4 DEF IntentsInv
<1>5. ASSUME NEW o \in Ops, StartStep(o) PROVE IntentsInv' BY <1>2, <1>5, StartFacts
<1>6. ASSUME NEW o \in Ops, SettleSet(o) PROVE IntentsInv'
  <2>1. commitEdits' = {} /\ op[o].moves \in SUBSET Move BY <1>6, SettleFacts, OpFacts
  <2>2. \/ RetireCommitted(commitEdits, op[o].moves) /\ unknown' = {}
        \/ unknown' \subseteq commitEdits /\ UNCHANGED <<edits, nextRevision>>
    BY <1>6, SettleFacts
  <2> QED BY <1>2, <1>4, <2>1, <2>2
<1>7. CASE Reconcile
  <2>1. /\ commitEdits' = {} /\ unknown' = {}
        /\ \/ RetireCommitted(unknown, unknownMoves) /\ unknownMoves \in SUBSET Move
           \/ UNCHANGED <<edits, nextRevision>>
    BY <1>7, ReconcileFacts
  <2> QED BY <1>2, <1>4, <2>1
<1>8. CASE DropStep BY <1>2, <1>8 DEF DropStep
<1>9. ASSUME UNCHANGED setVars PROVE IntentsInv' BY <1>2, <1>9 DEF setVars
<1> QED BY <1>3, <1>5, <1>6, <1>7, <1>8, <1>9, StepKinds, SetUntouched

\* No edit is staged late.
LEMMA StagedStep == IInv /\ [Next]_vars => StagedOnSettledBaseline'
<1> SUFFICES ASSUME IInv, [Next]_vars PROVE StagedOnSettledBaseline' OBVIOUS
<1>1. SetInv /\ \A e \in edits : ~e.old.late BY DEF IInv, StagedOnSettledBaseline
<1>2. ASSUME edits' \subseteq edits PROVE StagedOnSettledBaseline' BY <1>1, <1>2 DEF StagedOnSettledBaseline
<1>3. ASSUME NEW k \in Keys, SaveEdit(k) PROVE StagedOnSettledBaseline'
  <2>1. PICK kept \in SUBSET edits, e \in Edit : edits' = kept \cup {e} /\ ~e.old.late BY <1>3, SavedEdit
  <2> QED BY <1>1, <2>1 DEF StagedOnSettledBaseline
<1>4. ASSUME NEW committed, NEW moves \in SUBSET Move, RetireCommitted(committed, moves)
      PROVE  StagedOnSettledBaseline'
  <2>1. PICK f \in [Retire(committed) -> edits'] :
          /\ \A e \in edits' : \E d \in Retire(committed) : f[d] = e
          /\ \A d \in Retire(committed) :
               /\ f[d].new = d.new /\ f[d].old = d.old
               /\ f[d] = d \/ f[d].rev > nextRevision
    BY <1>1, <1>4, RetireShape
  <2>2. Retire(committed) \subseteq edits BY DEF Retire
  <2> QED BY <1>1, <2>1, <2>2 DEF StagedOnSettledBaseline
<1>5. ASSUME NEW o \in Ops, StartStep(o) PROVE StagedOnSettledBaseline' BY <1>2, <1>5, StartFacts
<1>6. ASSUME NEW o \in Ops, SettleSet(o) PROVE StagedOnSettledBaseline'
  <2>1. op[o].moves \in SUBSET Move BY OpFacts
  <2>2. RetireCommitted(commitEdits, op[o].moves) \/ edits' = edits BY <1>6, SettleFacts
  <2> QED BY <1>2, <1>4, <2>1, <2>2
<1>7. CASE Reconcile
  <2>1. (RetireCommitted(unknown, unknownMoves) /\ unknownMoves \in SUBSET Move)
        \/ edits' = edits
    BY <1>7, ReconcileFacts
  <2> QED BY <1>2, <1>4, <2>1
<1>8. CASE DropStep BY <1>2, <1>8 DEF DropStep
<1>9. ASSUME UNCHANGED setVars PROVE StagedOnSettledBaseline' BY <1>2, <1>9 DEF setVars
<1> QED BY <1>3, <1>5, <1>6, <1>7, <1>8, <1>9, StepKinds, SetUntouched

\* COMMIT writes every intent of the batch once more and no other.
LEMMA DurableFacts ==
    ASSUME IInv, NEW o \in Ops, attempt = o, op[o].state = "execute", NEW t, Durable(t)
    PROVE  /\ \A i \in Intents : applied'[i] <= 1 /\ (i > nextRevision => applied'[i] = 0)
           /\ \A c \in commitEdits : applied'[c.new.intent] = 1
           /\ \A e \in edits : e \notin commitEdits =>
                applied'[e.new.intent] = applied[e.new.intent]
           /\ \A i \in Intents : applied[i] > 0 => applied'[i] > 0
           /\ applied' \in [Intents -> Nat]
<1>1. /\ applied' = [i \in Intents |-> applied[i]
                       + (IF i \in IntentsOf(commitEdits) THEN 1 ELSE 0)]
      /\ applied \in [Intents -> Nat] /\ nextRevision \in Nat
      /\ \A i \in Intents : i \in Nat /\ applied[i] <= 1
                            /\ (i > nextRevision => applied[i] = 0)
  BY EditsAssumption
     DEF Durable, IInv, TypeOK, SetTypeOK, StageInv, AppliedInv, Intents
<1>2. \A e \in edits \cup commitEdits : e.new.intent \in Intents
  BY CommitAssumption DEF IInv, TypeOK, SetTypeOK, Edit, NewValues
<1>3. \A c \in commitEdits : applied[c.new.intent] = 0 /\ c.new.intent <= nextRevision
  BY DEF IInv, StageInv, AppliedInv, IntentsInv
<1>4. \A e \in edits : e \notin commitEdits => e.new.intent \notin IntentsOf(commitEdits)
  BY DEF IInv, StageInv, IntentsInv, IntentsOf
<1>5. \A i \in IntentsOf(commitEdits) : applied[i] = 0 /\ i <= nextRevision /\ i \in Intents BY <1>2, <1>3 DEF IntentsOf
<1>6. \A c \in commitEdits : c.new.intent \in IntentsOf(commitEdits) BY DEF IntentsOf
<1>7. ASSUME NEW i \in Intents
      PROVE  /\ i \in IntentsOf(commitEdits) => applied'[i] = 1 /\ i <= nextRevision
             /\ i \notin IntentsOf(commitEdits) => applied'[i] = applied[i]
             /\ applied'[i] \in Nat
  BY <1>1, <1>5
<1>8. \A i \in Intents : applied'[i] <= 1 /\ (i > nextRevision => applied'[i] = 0) BY <1>1, <1>7
<1>9. \A i \in Intents : applied[i] > 0 => applied'[i] > 0 BY <1>1, <1>7
<1>10. applied' \in [Intents -> Nat] BY <1>1, <1>7
<1> QED BY <1>2, <1>4, <1>6, <1>7, <1>8, <1>9, <1>10

\* What is on the server, and how often.
LEMMA AppliedStep == IInv /\ [Next]_vars => AppliedInv'
<1> SUFFICES ASSUME IInv, [Next]_vars PROVE AppliedInv' OBVIOUS
<1> DEFINE Once == \A i \in Intents : applied[i] <= 1 /\ (i > nextRevision => applied[i] = 0)
           Staged == \A e \in edits : e \notin commitEdits \cup unknown
                                        => applied[e.new.intent] = 0
           Sent == \A p \in Ops : attempt = p =>
                     \A c \in commitEdits :
                       /\ (op[p].state = "execute" \/ op[p].out \notin {"committed", "unknown"})
                            => applied[c.new.intent] = 0
                       /\ (op[p].state # "execute" /\ op[p].out = "committed")
                            => applied[c.new.intent] = 1
           Whole == \A c, d \in commitEdits \cup unknown :
                      applied[c.new.intent] = applied[d.new.intent]
<1>0. Once /\ Staged /\ Sent /\ Whole BY DEF IInv, StageInv, AppliedInv
<1>1. /\ SetInv /\ nextRevision \in Nat /\ applied \in [Intents -> Nat]
      /\ Intents \subseteq Nat
      /\ \A e \in edits \cup commitEdits \cup unknown : e.new.intent \in Intents
      /\ \A p \in Ops : p # None
  <2>1. \A e \in Edit : e.new.intent \in Intents BY CommitAssumption DEF Edit, NewValues
  <2> QED BY <2>1, OpFacts DEF IInv, TypeOK, SetInv, SetTypeOK, Intents
<1>2. ASSUME edits' \subseteq edits,
             UNCHANGED <<nextRevision, attempt, commitEdits, unknown, applied, op>>
      PROVE  AppliedInv'
  BY <1>0, <1>2 DEF AppliedInv
<1>3. ASSUME NEW k \in Keys, SaveEdit(k) PROVE AppliedInv'
  <2>1. PICK kept \in SUBSET edits, e \in Edit :
          edits' = kept \cup {e} /\ e.new.intent = nextRevision + 1
    BY <1>3, SavedEdit
  <2>2. /\ UNCHANGED <<attempt, commitEdits, unknown, applied, op>>
        /\ nextRevision' = nextRevision + 1 /\ nextRevision < MaxRevision
    BY <1>3, SavedEdit
  <2>3. nextRevision + 1 \in Intents BY <1>1, <2>2, EditsAssumption DEF Intents
  <2>4. applied[e.new.intent] = 0 BY <1>0, <1>1, <2>1, <2>3
  <2>5. Once' BY <1>0, <1>1, <2>2
  <2>6. Staged' BY <1>0, <2>1, <2>2, <2>4
  <2>7. Sent' /\ Whole' BY <1>0, <2>2
  <2> QED BY <2>5, <2>6, <2>7 DEF AppliedInv
<1>4. ASSUME NEW o \in Ops, StartStep(o) PROVE AppliedInv'
  <2>1. /\ unknown' = {} /\ unknown = {} /\ commitEdits = {} /\ commitEdits' \subseteq edits
        /\ attempt' = o /\ op'[o].state = "execute"
        /\ UNCHANGED <<edits, nextRevision, applied>>
    BY <1>4, StartFacts
  <2>2. \A e \in edits : applied[e.new.intent] = 0 BY <1>0, <2>1
  <2> QED BY <1>0, <2>1, <2>2 DEF AppliedInv
<1>5. ASSUME NEW o \in Ops, ExecuteStep(o) PROVE AppliedInv'
  <2>1. /\ UNCHANGED <<edits, nextRevision, attempt, commitEdits, unknown>> /\ attempt = o
        /\ op[o].state = "execute" /\ op'[o].state = "grid" /\ unknown = {}
    BY <1>1, <1>5, ExecuteFacts DEF setVars, SetInv, OneReceipt
  <2>2. CASE applied' = applied /\ op'[o].out # "committed" BY <1>0, <2>1, <2>2 DEF AppliedInv
  <2>3. ASSUME NEW t \in TxState, Durable(t), op'[o].out \in {"committed", "unknown"}
        PROVE  AppliedInv'
    <3>1. /\ \A i \in Intents : applied'[i] <= 1 /\ (i > nextRevision => applied'[i] = 0)
          /\ \A c \in commitEdits : applied'[c.new.intent] = 1
          /\ \A e \in edits : e \notin commitEdits =>
               applied'[e.new.intent] = applied[e.new.intent]
      BY <2>1, <2>3, DurableFacts
    <3> QED BY <1>0, <2>1, <2>3, <3>1 DEF AppliedInv
  <2> QED BY <1>5, <2>2, <2>3, ExecuteFacts
<1>6. ASSUME NEW o \in Ops, SettleGrid(o) PROVE AppliedInv'
  <2>1. /\ UNCHANGED <<edits, nextRevision, attempt, commitEdits, unknown, applied>>
        /\ op[o].state = "grid" /\ op'[o].state = "settle" /\ op'[o].out = op[o].out
        /\ \A p \in Ops : p # o => op'[p] = op[p]
    BY <1>6, GridFacts DEF setVars
  <2>2. Once' /\ Staged' /\ Whole' BY <1>0, <2>1
  <2>3. Sent' BY <1>0, <2>1
  <2> QED BY <2>2, <2>3 DEF AppliedInv
<1>7. ASSUME NEW committed, NEW moves \in SUBSET Move, RetireCommitted(committed, moves),
             commitEdits \cup unknown \subseteq committed, commitEdits' = {}, unknown' = {},
             attempt' = None, applied' = applied
      PROVE  AppliedInv'
  <2>1. nextRevision' \in Nat /\ nextRevision <= nextRevision' BY <1>1, <1>7, RetireShape
  <2>2. PICK f \in [Retire(committed) -> edits'] :
          /\ \A e \in edits' : \E d \in Retire(committed) : f[d] = e
          /\ \A d \in Retire(committed) :
               /\ f[d].new = d.new /\ f[d].old = d.old
               /\ f[d] = d \/ f[d].rev > nextRevision
    BY <1>1, <1>7, RetireShape
  <2>3. \A d \in Retire(committed) : d \in edits /\ d \notin commitEdits \cup unknown BY <1>7 DEF Retire, Revs
  <2>4. Once' BY <1>0, <1>1, <1>7, <2>1
  <2>5. Staged' BY <1>0, <1>7, <2>2, <2>3
  <2>6. Sent' /\ Whole' BY <1>1, <1>7
  <2> QED BY <2>4, <2>5, <2>6 DEF AppliedInv
<1>8. ASSUME NEW o \in Ops, SettleSet(o) PROVE AppliedInv'
  <2>1. /\ commitEdits' = {} /\ attempt' = None /\ attempt = o /\ unknown = {}
        /\ op[o].state = "settle" /\ applied' = applied /\ op[o].moves \in SUBSET Move
    BY <1>8, SettleFacts, OpFacts
  <2>2. CASE unknown' = {} /\ RetireCommitted(commitEdits, op[o].moves) BY <1>7, <2>1, <2>2
  <2>3. CASE unknown' = commitEdits /\ UNCHANGED <<edits, nextRevision>> BY <1>0, <1>1, <2>1, <2>3 DEF AppliedInv
  <2>4. CASE /\ op[o].out \notin {"committed", "unknown"} /\ unknown' = {}
             /\ UNCHANGED <<edits, nextRevision>>
    <3>1. \A c \in commitEdits : applied[c.new.intent] = 0 BY <1>0, <2>1, <2>4
    <3> QED BY <1>0, <1>1, <2>1, <2>4, <3>1 DEF AppliedInv
  <2> QED BY <1>8, <2>2, <2>3, <2>4, SettleFacts
<1>9. CASE Reconcile
  <2>1. /\ commitEdits' = {} /\ commitEdits = {} /\ unknown' = {} /\ attempt' = None
        /\ applied' = applied
    BY <1>9, ReconcileFacts
  <2>2. CASE RetireCommitted(unknown, unknownMoves) /\ unknownMoves \in SUBSET Move BY <1>7, <2>1, <2>2
  <2>3. CASE /\ ~ \E e \in unknown : applied[e.new.intent] > 0
             /\ UNCHANGED <<edits, nextRevision>>
    <3>1. ASSUME NEW e \in unknown PROVE applied[e.new.intent] = 0
      <4>1. applied[e.new.intent] \in Nat /\ ~(applied[e.new.intent] > 0) BY <1>1, <2>3
      <4> QED BY <4>1
    <3> QED BY <1>0, <1>1, <2>1, <2>3, <3>1 DEF AppliedInv
  <2> QED BY <1>9, <2>2, <2>3, ReconcileFacts
<1>10. ASSUME NEW o \in Ops, Publish(o) PROVE AppliedInv'
  <2>1. /\ UNCHANGED <<edits, nextRevision, attempt, commitEdits, unknown, applied>>
        /\ op[o].state = "publish" /\ attempt # o
        /\ \A p \in Ops : p # o => op'[p] = op[p]
    BY <1>10, PublishFacts DEF setVars, IInv, StageInv, OpsInv
  <2>2. Once' /\ Staged' /\ Whole' BY <1>0, <2>1
  <2>3. Sent' BY <1>0, <2>1
  <2> QED BY <2>2, <2>3 DEF AppliedInv
<1>11. CASE DropStep BY <1>2, <1>11 DEF DropStep
<1> QED BY <1>3, <1>4, <1>5, <1>6, <1>8, <1>9, <1>10, <1>11, StepKinds

\* What a conflict dialog remembers is current or gone.
LEMMA VersionsStep == IInv /\ [Next]_vars => VersionsInv'
<1> SUFFICES ASSUME IInv, [Next]_vars PROVE VersionsInv' OBVIOUS
<1>1. /\ SetInv /\ nextRevision \in Nat /\ edits \subseteq Edit
      /\ \A c \in dialog : Known(c.edit) /\ c.edit \in Edit
      /\ \A p \in Ops : \A c \in op[p].conflicts : Known(c.edit) /\ c.edit \in Edit
  BY DEF IInv, TypeOK, SetInv, SetTypeOK, StageInv, VersionsInv, Operation, Conflict
<1>2. ASSUME \A x \in Edit : Known(x) => Known(x)', dialog' \subseteq dialog,
             \A p \in Ops : op'[p].conflicts = op[p].conflicts
      PROVE  VersionsInv'
  BY <1>1, <1>2 DEF VersionsInv
<1>3. ASSUME edits' \subseteq edits, nextRevision' = nextRevision
      PROVE  \A x \in Edit : Known(x) => Known(x)'
  BY <1>3 DEF Known
<1>4. ASSUME NEW k \in Keys, SaveEdit(k) PROVE VersionsInv'
  <2>1. PICK kept \in SUBSET edits, e \in Edit :
          edits' = kept \cup {e} /\ e.rev = nextRevision + 1
    BY <1>4, SavedEdit
  <2>2. UNCHANGED <<op, dialog>> /\ nextRevision' = nextRevision + 1 BY <1>4, SavedEdit
  <2>3. \A x \in Edit : Known(x) => Known(x)' BY <1>1, <2>1, <2>2 DEF Known, Edit
  <2> QED BY <1>2, <2>2, <2>3
<1>5. ASSUME NEW o \in Ops, StartStep(o) PROVE VersionsInv'
  <2>1. /\ UNCHANGED <<edits, nextRevision>> /\ dialog' \subseteq dialog
        /\ \A p \in Ops : op'[p].conflicts = op[p].conflicts
    BY <1>5, StartFacts DEF StartStep
  <2> QED BY <1>2, <1>3, <2>1
<1>6. ASSUME NEW o \in Ops, ExecuteStep(o) PROVE VersionsInv'
  <2>1. /\ UNCHANGED <<edits, nextRevision, dialog>>
        /\ \A p \in Ops : p # o => op'[p] = op[p]
        /\ \A c \in op'[o].conflicts : c \in op[o].conflicts \/ c.edit \in commitEdits
    BY <1>6, ExecuteFacts DEF setVars
  <2>2. \A x \in commitEdits : Known(x) BY DEF IInv, SetInv, SetTypeOK, CapturedInv, ReservationHolds, Known, Edit
  <2>3. \A x : Known(x) => Known(x)' BY <2>1 DEF Known
  <2> QED BY <1>1, <2>1, <2>2, <2>3 DEF VersionsInv
<1>7. ASSUME NEW o \in Ops, SettleGrid(o) PROVE VersionsInv'
  <2>1. /\ UNCHANGED <<edits, nextRevision, dialog>>
        /\ \A p \in Ops : op'[p].conflicts = op[p].conflicts
    BY <1>7, GridFacts DEF setVars
  <2> QED BY <1>2, <1>3, <2>1
<1>8. ASSUME NEW committed, NEW moves \in SUBSET Move, RetireCommitted(committed, moves)
      PROVE  \A x \in Edit : Known(x) => Known(x)'
  <2>1. nextRevision' \in Nat /\ nextRevision <= nextRevision' BY <1>1, <1>8, RetireShape
  <2>2. PICK f \in [Retire(committed) -> edits'] :
          /\ \A e \in edits' : \E d \in Retire(committed) : f[d] = e
          /\ \A d \in Retire(committed) :
               /\ f[d].new = d.new /\ f[d].old = d.old
               /\ f[d] = d \/ f[d].rev > nextRevision
    BY <1>1, <1>8, RetireShape
  <2>3. Retire(committed) \subseteq edits BY DEF Retire
  <2>4. ASSUME NEW x \in Edit, Known(x), NEW e \in edits', e.rev = x.rev PROVE e = x
    <3>1. PICK d \in Retire(committed) : f[d] = e BY <2>2
    <3>2. f[d] = d BY <1>1, <2>2, <2>3, <2>4, <3>1 DEF Known, Edit
    <3> QED BY <2>3, <2>4, <3>1, <3>2 DEF Known
  <2> QED BY <1>1, <2>1, <2>4 DEF Known, Edit
<1>9. ASSUME NEW o \in Ops, SettleSet(o) PROVE VersionsInv'
  <2>1. /\ dialog' = dialog /\ op[o].moves \in SUBSET Move
        /\ \A p \in Ops : op'[p].conflicts = op[p].conflicts
        /\ \/ RetireCommitted(commitEdits, op[o].moves)
           \/ UNCHANGED <<edits, nextRevision>>
    BY <1>9, SettleFacts, OpFacts
  <2> QED BY <1>2, <1>3, <1>8, <2>1
<1>10. CASE Reconcile
  <2>1. /\ UNCHANGED <<dialog, op>>
        /\ \/ RetireCommitted(unknown, unknownMoves) /\ unknownMoves \in SUBSET Move
           \/ UNCHANGED <<edits, nextRevision>>
    BY <1>10, ReconcileFacts
  <2> QED BY <1>2, <1>3, <1>8, <2>1
<1>11. ASSUME NEW o \in Ops, Publish(o) PROVE VersionsInv'
  <2>1. /\ UNCHANGED <<edits, nextRevision>>
        /\ op'[o] = IdleOp /\ \A p \in Ops : p # o => op'[p] = op[p]
        /\ dialog' = op[o].conflicts \/ dialog' = dialog
    BY <1>11, PublishFacts DEF setVars
  <2>2. op'[o].conflicts = {} BY <2>1 DEF IdleOp
  <2>3. \A x : Known(x) => Known(x)' BY <2>1 DEF Known
  <2> QED BY <1>1, <2>1, <2>2, <2>3 DEF VersionsInv
<1>12. CASE DropStep BY <1>2, <1>3, <1>12 DEF DropStep
<1> QED BY <1>4, <1>5, <1>6, <1>7, <1>9, <1>10, <1>11, <1>12, StepKinds

\* A sample is no newer than the grid, and one that a commit has overtaken is
\* told from the grid by its baseline or belongs to a commit that is not settled.
LEMMA BaseStep == IInv /\ [Next]_vars => BaseInv'
<1> SUFFICES ASSUME IInv, [Next]_vars PROVE BaseInv' OBVIOUS
<1>1. /\ grid.base \in Nat /\ grid.gen \in Nat /\ grid \in Grid
      /\ editor # None => editor \in Sample /\ editor.base \in Nat
      /\ BaseInv
  BY DEF IInv, TypeOK, StageInv, Grid, Sample
<1>2. ASSUME editor' = None \/ editor' = editor,
             grid' = grid \/ (grid'.base = grid.base + 1),
             Overtaken => Overtaken' \/ grid' # grid
      PROVE  BaseInv'
  BY <1>1, <1>2 DEF BaseInv
<1>3. ASSUME UNCHANGED <<grid, op>> PROVE Overtaken' <=> Overtaken BY <1>3 DEF Overtaken
<1>4. ASSUME editor' = None PROVE BaseInv' BY <1>4 DEF BaseInv
<1>5. ASSUME UNCHANGED <<editor, op>>, grid' = grid \/ grid'.base = grid.base + 1
      PROVE  BaseInv'
  <2>1. Overtaken => Overtaken' \/ grid' # grid BY <1>3, <1>5
  <2> QED BY <1>2, <1>5, <2>1
<1>6. ASSUME NEW r \in Rows, NEW c \in Cols, OpenEditor(r, c) PROVE BaseInv'
  <2>1. /\ editor'.base = grid.base /\ editor'.stale = Overtaken
        /\ UNCHANGED <<grid, op>>
    BY <1>6 DEF OpenEditor
  <2> QED BY <1>1, <1>3, <2>1 DEF BaseInv
<1>7. ASSUME NEW r \in Rows, NEW c \in Cols, DiscardAtCursor(r, c) PROVE BaseInv'
  BY <1>5, <1>7 DEF DiscardAtCursor, uiVars
<1>8. CASE CloseEditor \/ CancelEdit \/ \E k \in Keys : SaveEdit(k) BY <1>4, <1>8 DEF CloseEditor, CancelEdit, SaveEdit
<1>9. CASE DiscardAll \/ LoadRead \/ DismissDialog \/ Reconcile \/ UNCHANGED vars
  BY <1>5, <1>9 DEF DiscardAll, LoadRead, DismissDialog, Reconcile, uiVars, vars
<1>10. CASE \E id \in Idents : LoadInstall(id)
  <2>1. UNCHANGED <<editor, op>> /\ grid'.base = grid.base + 1 BY <1>10 DEF LoadInstall, BaselineAfter
  <2> QED BY <1>5, <2>1
<1>11. CASE RefreshConflicts
  <2>1. UNCHANGED <<editor, op>> /\ (grid' = grid \/ grid'.base = grid.base + 1)
    BY <1>1, <1>11 DEF RefreshConflicts, BaselineAfter, Grid
  <2> QED BY <1>5, <2>1
<1>12. ASSUME NEW o \in Ops, UNCHANGED <<editor, grid>>,
              \A p \in Ops : p # o => op'[p] = op[p],
              op[o].state # "grid" \/ op[o].out # "committed" \/ op[o].gen # grid.gen
       PROVE  BaseInv'
  <2>1. Overtaken => Overtaken' BY <1>12 DEF Overtaken
  <2> QED BY <1>2, <1>12, <2>1
<1>13. ASSUME NEW o \in Ops, StartStep(o) PROVE BaseInv' BY <1>12, <1>13, StartFacts
<1>14. ASSUME NEW o \in Ops, ExecuteStep(o) PROVE BaseInv'
  <2>1. /\ UNCHANGED grid /\ op[o].state = "execute" /\ op'[o].state = "grid"
        /\ op'[o].gen = op[o].gen /\ \A p \in Ops : p # o => op'[p] = op[p]
    BY <1>14, ExecuteFacts
  <2>2. CASE UNCHANGED editor BY <1>12, <2>1, <2>2
  <2>3. CASE /\ op'[o].out = "committed"
             /\ editor' = IF editor # None /\ op[o].gen = grid.gen
                          THEN [editor EXCEPT !.stale = TRUE] ELSE editor
    <3>1. CASE editor # None /\ op[o].gen = grid.gen
      <4>1. editor'.base = editor.base /\ editor.base <= grid.base BY <1>1, <2>3, <3>1 DEF BaseInv, Sample
      <4>2. Overtaken' BY <2>1, <2>3, <3>1 DEF Overtaken
      <4> QED BY <2>1, <4>1, <4>2 DEF BaseInv
    <3>2. CASE ~(editor # None /\ op[o].gen = grid.gen) BY <1>12, <2>1, <2>3, <3>2
    <3> QED BY <3>1, <3>2
  <2> QED BY <1>14, <2>2, <2>3, ExecuteFacts
<1>15. ASSUME NEW o \in Ops, SettleGrid(o) PROVE BaseInv'
  <2>1. UNCHANGED editor /\ \A p \in Ops : p # o => op'[p] = op[p] BY <1>15, GridFacts
  <2>2. CASE op[o].out = "committed" /\ op[o].gen = grid.gen
    <3>1. grid'.base = grid.base + 1 BY <1>15, <2>2, GridSettled
    <3>2. grid' # grid BY <1>1, <3>1
    <3> QED BY <1>2, <2>1, <3>1, <3>2
  <2>3. CASE ~(op[o].out = "committed" /\ op[o].gen = grid.gen)
    <3>1. UNCHANGED grid BY <1>15, <2>3 DEF SettleGrid
    <3> QED BY <1>12, <2>1, <2>3, <3>1
  <2> QED BY <2>2, <2>3
<1>16. ASSUME NEW o \in Ops, SettleSet(o) \/ Publish(o) PROVE BaseInv'
  <2>1. /\ UNCHANGED <<editor, grid>> /\ op[o].state \in {"settle", "publish"}
        /\ \A p \in Ops : p # o => op'[p] = op[p]
    BY <1>16, SettleFacts, PublishFacts
  <2> QED BY <1>12, <2>1
<1>17. ASSUME NEW r \in Rows, ForeignDelete(r) \/ \E c \in DataCols : ForeignWrite(r, c)
       PROVE  BaseInv'
  BY <1>5, <1>17 DEF ForeignDelete, ForeignWrite, uiVars
<1> QED
  BY <1>6, <1>7, <1>8, <1>9, <1>10, <1>11, <1>13, <1>14, <1>15, <1>16, <1>17, Starts
     DEF Next, ExecuteStep

-----------------------------------------
(* Types, and the theorems. *)

\* The server's table and the history of what was written to it.
LEMMA ServerType ==
    ASSUME IInv, [Next]_vars
    PROVE  /\ keyOf' \in [Rows -> Keys \cup {None}]
           /\ value' \in [Rows -> [DataCols -> Vals]]
           /\ applied' \in [Intents -> Nat] /\ foreign' \in 0..MaxForeign
<1> DEFINE Goal == /\ keyOf' \in [Rows -> Keys \cup {None}]
                   /\ value' \in [Rows -> [DataCols -> Vals]]
                   /\ applied' \in [Intents -> Nat] /\ foreign' \in 0..MaxForeign
<1>1. /\ keyOf \in [Rows -> Keys \cup {None}] /\ value \in [Rows -> [DataCols -> Vals]]
      /\ applied \in [Intents -> Nat] /\ foreign \in 0..MaxForeign
  BY DEF IInv, TypeOK
<1>2. ASSUME UNCHANGED serverVars PROVE Goal BY <1>1, <1>2 DEF serverVars
<1>3. ASSUME NEW o \in Ops, ExecuteStep(o) PROVE Goal
  <2>1. /\ foreign' = foreign /\ attempt = o /\ op[o].state = "execute"
        /\ \/ UNCHANGED <<keyOf, value, applied>>
           \/ \E t \in TxState : Durable(t)
    BY <1>3, ExecuteFacts
  <2>2. ASSUME NEW t \in TxState, Durable(t) PROVE Goal
    <3>1. applied' \in [Intents -> Nat] BY <2>1, <2>2, DurableFacts
    <3> QED BY <1>1, <2>1, <2>2, <3>1 DEF Durable, TxState
  <2> QED BY <1>1, <2>1, <2>2
<1>4. ASSUME NEW r \in Rows, ForeignDelete(r) PROVE Goal BY <1>1, <1>4, ValueFacts DEF ForeignDelete
<1>5. ASSUME NEW r \in Rows, NEW c \in DataCols, ForeignWrite(r, c) PROVE Goal
  <2>1. MaxRevision + foreign + 1 \in Vals /\ foreign + 1 \in 0..MaxForeign BY <1>1, <1>5, ValueFacts DEF ForeignWrite
  <2> QED BY <1>1, <1>5, <2>1 DEF ForeignWrite
<1>6. ASSUME NEW o \in Ops, \/ StartApply(o) \/ StartDryRun(o) \/ StartOverwrite(o)
                           \/ SettleGrid(o) \/ SettleSet(o) \/ Publish(o)
      PROVE  Goal
  BY <1>2, <1>6 DEF StartApply, StartDryRun, StartOverwrite, Capture, SettleGrid,
                    SettleSet, Publish
<1>7. CASE \/ CloseEditor \/ CancelEdit \/ DiscardAll \/ LoadRead \/ RefreshConflicts
           \/ DismissDialog \/ Reconcile \/ UNCHANGED vars
  BY <1>2, <1>7 DEF CloseEditor, CancelEdit, DiscardAll, LoadRead, RefreshConflicts,
                    DismissDialog, Reconcile, vars
<1>8. ASSUME NEW r \in Rows, NEW c \in Cols, OpenEditor(r, c) \/ DiscardAtCursor(r, c)
      PROVE  Goal
  BY <1>2, <1>8 DEF OpenEditor, DiscardAtCursor
<1>9. CASE (\E k \in Keys : SaveEdit(k)) \/ \E id \in Idents : LoadInstall(id) BY <1>2, <1>9 DEF SaveEdit, LoadInstall
<1> QED BY <1>3, <1>4, <1>5, <1>6, <1>7, <1>8, <1>9 DEF Next, ExecuteStep

\* The grid, what it waits for, and the dialogs over it.
LEMMA UiType ==
    ASSUME IInv, [Next]_vars
    PROVE  /\ grid' \in Grid /\ loading' \in GridRows \cup {None}
           /\ editor' \in Sample \cup {None} /\ dialog' \subseteq Conflict
<1> DEFINE Goal == /\ grid' \in Grid /\ loading' \in GridRows \cup {None}
                   /\ editor' \in Sample \cup {None} /\ dialog' \subseteq Conflict
<1>1. /\ grid \in Grid /\ loading \in GridRows \cup {None}
      /\ editor \in Sample \cup {None} /\ dialog \subseteq Conflict
  BY DEF IInv, TypeOK
<1>2. BaselineAfter \in Nat BY <1>1 DEF BaselineAfter, Grid
<1>3. ASSUME grid' = grid, loading' = loading \/ loading' = None,
             editor' = editor \/ editor' = None, dialog' \subseteq dialog
      PROVE  Goal
  BY <1>1, <1>3
<1>4. ASSUME NEW r \in Rows, NEW c \in Cols, OpenEditor(r, c) PROVE Goal
  <2> DEFINE late == Overtaken
             shown == grid.rows[r]
  <2>1. shown \in Shown BY <1>1, <1>4 DEF OpenEditor, Grid, GridRows
  <2>2. CellValue(shown, c) \in Vals BY <2>1, ValueFacts DEF CellValue, Shown
  <2>3. late \in BOOLEAN BY DEF Overtaken
  <2>4. editor' = [pk |-> shown.key, col |-> c, val |-> CellValue(shown, c),
                   base |-> grid.base, ident |-> grid.ident, stale |-> late]
    BY <1>4 DEF OpenEditor
  <2> HIDE DEF late, shown
  <2>5. editor' \in Sample BY <1>1, <2>1, <2>2, <2>3, <2>4 DEF Sample, Shown, Grid
  <2> QED BY <1>1, <1>4, <2>5 DEF OpenEditor
<1>5. ASSUME NEW r \in Rows, NEW c \in Cols, DiscardAtCursor(r, c) PROVE Goal BY <1>3, <1>5 DEF DiscardAtCursor, uiVars
<1>6. CASE \/ CloseEditor \/ CancelEdit \/ DiscardAll \/ DismissDialog \/ Reconcile
           \/ UNCHANGED vars \/ \E k \in Keys : SaveEdit(k)
  BY <1>3, <1>6 DEF CloseEditor, CancelEdit, DiscardAll, DismissDialog, Reconcile,
                    vars, uiVars, SaveEdit
<1>7. CASE LoadRead
  <2>1. ServerImage \in GridRows BY ImageType DEF ServerImage, IInv, TypeOK
  <2> QED BY <1>1, <1>7, <2>1 DEF LoadRead
<1>8. ASSUME NEW id \in Idents, LoadInstall(id) PROVE Goal
  <2>1. loading \in GridRows /\ grid.gen + 1 \in Nat BY <1>1, <1>8 DEF LoadInstall, Grid
  <2> QED BY <1>1, <1>2, <1>8, <2>1 DEF LoadInstall, Grid
<1>9. ASSUME NEW o \in Ops, StartStep(o) PROVE Goal BY <1>3, <1>9 DEF StartStep, Capture
<1>10. ASSUME NEW o \in Ops, ExecuteStep(o) PROVE Goal
  <2>1. /\ UNCHANGED <<grid, loading, dialog>>
        /\ \/ UNCHANGED editor
           \/ editor' = IF editor # None /\ op[o].gen = grid.gen
                        THEN [editor EXCEPT !.stale = TRUE] ELSE editor
    BY <1>10, ExecuteFacts
  <2>2. editor' \in Sample \cup {None} BY <1>1, <2>1 DEF Sample
  <2> QED BY <1>1, <2>1, <2>2
<1>11. ASSUME NEW o \in Ops, SettleGrid(o) PROVE Goal
  <2>1. UNCHANGED <<loading, editor, dialog>> BY <1>11 DEF SettleGrid
  <2>2. CASE op[o].out = "committed" /\ op[o].gen = grid.gen BY <1>1, <1>11, <2>1, <2>2, GridSettled
  <2>3. CASE ~(op[o].out = "committed" /\ op[o].gen = grid.gen) BY <1>1, <1>11, <2>1, <2>3 DEF SettleGrid
  <2> QED BY <2>2, <2>3
<1>12. ASSUME NEW o \in Ops, SettleSet(o) PROVE Goal BY <1>3, <1>12 DEF SettleSet, uiVars
<1>13. ASSUME NEW o \in Ops, Publish(o) PROVE Goal
  <2>1. op[o].conflicts \in SUBSET Conflict BY OpFacts DEF Operation
  <2> QED BY <1>1, <1>13, <2>1 DEF Publish
<1>14. CASE RefreshConflicts
  <2> DEFINE mine(r) == {c \in dialog : /\ grid.rows[r] # None
                                       /\ c.edit.pk = grid.rows[r].key
                                       /\ c.edit.ident = grid.ident}
             vals(r) == [d \in DataCols |->
                           IF \E c \in mine(r) : c.edit.col = d
                           THEN (CHOOSE c \in mine(r) : c.edit.col = d).val
                           ELSE grid.rows[r].vals[d]]
             server(r) ==
               IF mine(r) = {} THEN grid.rows[r]
               ELSE IF \E c \in mine(r) : c.edit.col = KeyCol /\ c.val = Nil THEN None
               ELSE [grid.rows[r] EXCEPT !.vals = vals(r)]
             rows == [r \in Rows |-> server(r)]
  <2>1. /\ \/ grid' = grid
           \/ grid' = [grid EXCEPT !.base = BaselineAfter, !.rows = rows]
        /\ UNCHANGED <<loading, editor>> /\ dialog' = {}
    BY <1>14 DEF RefreshConflicts
  <2>2. ASSUME NEW r \in Rows PROVE server(r) \in Shown \cup {None}
    <3>1. grid.rows[r] \in Shown \cup {None} BY <1>1 DEF Grid, GridRows
    <3>2. mine(r) # {} => grid.rows[r] \in Shown BY <3>1
    <3>3. ASSUME mine(r) # {} PROVE vals(r) \in [DataCols -> Vals]
      <4>1. ASSUME NEW d \in DataCols, \E c \in mine(r) : c.edit.col = d
            PROVE  (CHOOSE c \in mine(r) : c.edit.col = d).val \in Vals
        <5> DEFINE f == CHOOSE c \in mine(r) : c.edit.col = d
        <5>1. f \in Conflict BY <1>1, <4>1
        <5> HIDE DEF f
        <5>2. f.val \in Vals BY <5>1 DEF Conflict
        <5> QED BY <5>2 DEF f
      <4>2. \A d \in DataCols : grid.rows[r].vals[d] \in Vals BY <3>2, <3>3 DEF Shown
      <4> HIDE DEF mine
      <4> QED BY <4>1, <4>2
    <3> HIDE DEF mine, vals
    <3> QED BY <3>1, <3>2, <3>3 DEF Shown
  <2> HIDE DEF server
  <2>3. rows \in GridRows BY <2>2 DEF GridRows
  <2> HIDE DEF rows
  <2> QED BY <1>1, <1>2, <2>1, <2>3 DEF Grid
<1>15. ASSUME NEW r \in Rows, ForeignDelete(r) \/ \E c \in DataCols : ForeignWrite(r, c)
       PROVE  Goal
  BY <1>3, <1>15 DEF ForeignDelete, ForeignWrite, uiVars
<1> QED
  BY <1>4, <1>5, <1>6, <1>7, <1>8, <1>9, <1>10, <1>11, <1>12, <1>13, <1>14, <1>15,
     Starts DEF Next, ExecuteStep

\* The operations.
LEMMA OpType ==
    ASSUME IInv, [Next]_vars
    PROVE  op' \in [Ops -> Operation]
<1>1. op \in [Ops -> Operation] /\ grid.gen \in Nat /\ \A o \in Ops : op[o] \in Operation BY DEF IInv, TypeOK, Grid
<1>2. ASSUME op' = op PROVE op' \in [Ops -> Operation] BY <1>1, <1>2
<1>3. ASSUME NEW o \in Ops, StartStep(o) PROVE op' \in [Ops -> Operation]
  <2>1. PICK kind \in {"apply", "dryrun", "overwrite"} :
          op' = [op EXCEPT ![o].state = "execute", ![o].kind = kind, ![o].gen = grid.gen]
    BY <1>3 DEF StartStep, Capture
  <2>2. op[o] \in Operation BY <1>1
  <2> QED BY <1>1, <2>1, <2>2 DEF Operation
<1>4. ASSUME NEW o \in Ops, ExecuteStep(o) PROVE op' \in [Ops -> Operation] BY <1>4, ExecuteFacts
<1>5. ASSUME NEW o \in Ops, SettleGrid(o) PROVE op' \in [Ops -> Operation]
  <2>1. op' = [op EXCEPT ![o].state = "settle", ![o].fetched = NoRows] BY <1>5 DEF SettleGrid
  <2>2. op[o] \in Operation BY <1>1
  <2> QED BY <1>1, <2>1, <2>2, NoRowsType DEF Operation
<1>6. ASSUME NEW o \in Ops, SettleSet(o) PROVE op' \in [Ops -> Operation]
  <2>1. op' = [op EXCEPT ![o].state = "publish", ![o].moves = {}] BY <1>6 DEF SettleSet
  <2>2. op[o] \in Operation BY <1>1
  <2> QED BY <1>1, <2>1, <2>2 DEF Operation
<1>7. ASSUME NEW o \in Ops, Publish(o) PROVE op' \in [Ops -> Operation] BY <1>1, <1>7, IdleOpType DEF Publish
<1>8. ASSUME NEW k \in Keys, SaveEdit(k) PROVE op' \in [Ops -> Operation] BY <1>2, <1>8 DEF SaveEdit
<1>9. CASE DropStep \/ Reconcile BY <1>2, <1>9 DEF DropStep, Reconcile
<1> QED BY <1>3, <1>4, <1>5, <1>6, <1>7, <1>8, <1>9, StepKinds

\* Every step keeps the whole invariant.
LEMMA StepKeeps == IInv /\ [Next]_vars => IInv'
<1> SUFFICES ASSUME IInv, [Next]_vars PROVE IInv' OBVIOUS
<1>1. SetInv' BY SetStep, SetStepKeeps DEF IInv
<1>2. TypeOK' BY <1>1, ServerType, UiType, OpType DEF TypeOK, SetInv
<1>3. StageInv' BY BatchStep, OpsStep, IntentsStep, AppliedStep, VersionsStep, BaseStep DEF StageInv
<1> QED BY <1>1, <1>2, <1>3, StagedStep DEF IInv

\* A table nobody has edited satisfies it.
LEMMA InitHolds == Init => IInv
<1> SUFFICES ASSUME Init PROVE IInv OBVIOUS
<1>1. SetInit /\ SetInv BY SetInitHolds DEF Init
<1>2. /\ keyOf \in [Rows -> Keys \cup {None}] /\ value \in [Rows -> [DataCols -> Vals]]
      /\ applied \in [Intents -> Nat] /\ foreign \in 0..MaxForeign
  BY CommitAssumption, ValueFacts DEF Init
<1>3. grid \in Grid
  <2>1. ServerImage \in GridRows BY <1>2, ImageType DEF ServerImage
  <2>2. PICK id \in Idents :
          grid = [gen |-> 0, base |-> 0, ok |-> TRUE, ident |-> id, rows |-> ServerImage]
    BY DEF Init
  <2>3. TRUE \in BOOLEAN OBVIOUS
  <2> QED BY <2>1, <2>2, <2>3 DEF Grid
<1>4. op \in [Ops -> Operation] BY IdleOpType DEF Init
<1>5. TypeOK BY <1>1, <1>2, <1>3, <1>4 DEF TypeOK, SetInv, Init
<1>6. OpsInv BY EditsAssumption DEF Init, SetInit, OpsInv, IdleOp, Ops
<1>7. IntentsInv /\ StagedOnSettledBaseline BY <1>1 DEF SetInit, IntentsInv, StagedOnSettledBaseline
<1>8. AppliedInv BY <1>1 DEF Init, SetInit, AppliedInv
<1>9. VersionsInv /\ BaseInv BY DEF Init, VersionsInv, BaseInv, IdleOp
<1>10. BatchInv BY <1>1, FS_EmptySet DEF SetInit, BatchInv
<1> QED BY <1>1, <1>5, <1>6, <1>7, <1>8, <1>9, <1>10 DEF IInv, StageInv

\* The invariant of staging, committing, settling and reconciling edits holds
\* of every run.
THEOREM CommitInvariant == Spec => []IInv
<1> QED BY InitHolds, StepKeeps, PTL DEF Spec

\* Every variable of the commit operation keeps its type.
THEOREM CommitTypeCorrect == Spec => []TypeOK
<1>1. IInv => TypeOK BY DEF IInv
<1> QED BY <1>1, CommitInvariant, PTL

\* A staged intent reaches the server at most once, through every retry,
\* overwrite, lost COMMIT and reconciliation (CellApplyHelper, commitOperation).
THEOREM AppliedOnceTheorem == Spec => []AppliedOnce
<1>1. IInv => AppliedOnce BY DEF IInv, StageInv, AppliedInv, AppliedOnce
<1> QED BY <1>1, CommitInvariant, PTL

\* WithEditBaseline keeps every stage off rows that a commit has replaced.
THEOREM BaselineTheorem == Spec => []StagedOnSettledBaseline
<1>1. IInv => StagedOnSettledBaseline BY DEF IInv
<1> QED BY <1>1, CommitInvariant, PTL

\* The commit operation, the editor and the dialogs use the set by its methods
\* and never beside them: the composed program implements PendingEdits.
THEOREM CommitImplementsSet == Spec => SetSpec
<1>1. Init => SetInit BY DEF Init
<1> QED BY <1>1, SetStep, CommitInvariant, PTL DEF Spec, SetSpec

\* So what the set promises any caller it promises this one: captured versions
\* are held (addLocked, BeginCommit, retireCommitted) ...
THEOREM CommitEditsHeld == Spec => []EditsHeld
<1> QED BY CommitImplementsSet, EditsHeldTheorem, PTL

\* ... under one identity and with one receipt to wait for.
THEOREM CommitEditsBound == Spec => []EditsBound
<1> QED BY CommitImplementsSet, EditsBoundTheorem, PTL

\* A settlement or reconciliation lets go only of what is on the server.
LEMMA LetGo ==
    ASSUME IInv, [Next]_vars, NEW i \in IntentsOf(edits) \ IntentsOf(edits')
    PROVE  applied[i] > 0 \/ (attempt' = attempt /\ unknown' = unknown)
<1>1. PICK e \in edits : e.new.intent = i BY DEF IntentsOf
<1>2. ASSUME edits' = edits PROVE FALSE BY <1>2
<1>3. ASSUME NEW committed, NEW moves \in SUBSET Move, RetireCommitted(committed, moves)
      PROVE  e \in edits /\ e.rev \in Revs(committed)
  <2>1. SetInv BY DEF IInv
  <2>2. PICK f \in [Retire(committed) -> edits'] :
          /\ \A x \in edits' : \E d \in Retire(committed) : f[d] = x
          /\ \A d \in Retire(committed) :
               /\ f[d].new = d.new /\ f[d].old = d.old
               /\ f[d] = d \/ f[d].rev > nextRevision
    BY <1>3, <2>1, RetireShape
  <2>3. ASSUME e \in Retire(committed) PROVE FALSE
    <3>1. f[e] \in edits' /\ f[e].new.intent = i BY <1>1, <2>2, <2>3
    <3>2. i \in IntentsOf(edits') BY <3>1 DEF IntentsOf
    <3> QED BY <3>2
  <2> QED BY <2>3 DEF Retire
<1>4. ASSUME NEW o \in Ops, SettleSet(o) PROVE applied[i] > 0
  <2>1. /\ op[o].out = "committed" /\ op[o].state = "settle" /\ attempt = o
        /\ RetireCommitted(commitEdits, op[o].moves) /\ op[o].moves \in SUBSET Move
    BY <1>2, <1>4, SettleFacts, OpFacts
  <2>2. e \in commitEdits
    <3>1. PICK c \in commitEdits : c.rev = e.rev BY <1>3, <2>1 DEF Revs
    <3>2. e = c BY <3>1 DEF IInv, SetInv, ReservationHolds
    <3> QED BY <3>1, <3>2
  <2>3. applied[e.new.intent] = 1 BY <2>1, <2>2 DEF IInv, StageInv, AppliedInv
  <2> QED BY <1>1, <2>3
<1>5. CASE Reconcile
  <2>1. /\ \E x \in unknown : applied[x.new.intent] > 0
        /\ RetireCommitted(unknown, unknownMoves) /\ unknownMoves \in SUBSET Move
    BY <1>2, <1>5, ReconcileFacts
  <2>2. e \in unknown
    <3>1. PICK c \in unknown : c.rev = e.rev BY <1>3, <2>1 DEF Revs
    <3>2. e = c BY <3>1 DEF IInv, SetInv, ReservationHolds
    <3> QED BY <3>1, <3>2
  <2>3. PICK x \in unknown : applied[x.new.intent] > 0 BY <2>1
  <2>4. applied[e.new.intent] = applied[x.new.intent] BY <2>2 DEF IInv, StageInv, AppliedInv
  <2> QED BY <1>1, <2>3, <2>4
<1>6. ASSUME NEW k \in Keys, SaveEdit(k) PROVE attempt' = attempt /\ unknown' = unknown BY <1>6, SavedEdit
<1>7. CASE DropStep BY <1>7 DEF DropStep
<1>8. ASSUME NEW o \in Ops, StartStep(o) PROVE FALSE BY <1>2, <1>8, StartFacts
<1>9. ASSUME NEW o \in Ops, ExecuteStep(o) \/ SettleGrid(o) \/ Publish(o) PROVE FALSE
  BY <1>2, <1>9, SetUntouched DEF setVars
<1> QED BY <1>4, <1>5, <1>6, <1>7, <1>8, <1>9, StepKinds

\* No staged edit disappears in a settlement or a reconciliation unless it is on
\* the server (SettleCommit, ReconcileCommitOutcome, retireCommitted).
THEOREM NothingLostTheorem == Spec => NothingLost
<1> DEFINE Kept == \A i \in IntentsOf(edits) \ IntentsOf(edits') :
                     applied[i] > 0 \/ (attempt' = attempt /\ unknown' = unknown)
<1>1. IInv /\ [Next]_vars => Kept BY LetGo
<1> QED BY <1>1, CommitInvariant, PTL DEF Spec, NothingLost
=============================================================================
