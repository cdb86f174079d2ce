---------------------------- MODULE PendingEdits ----------------------------
(***************************************************************************)
(* The staged edits of one table: models.PendingEditSet                     *)
(* (pkg/models/pending_edit.go). Every method runs under the set's mutex,   *)
(* so one method is one action; a method that returns an error before it    *)
(* changes anything is a step that is not enabled.                          *)
(*                                                                          *)
(* The slice of edits is a set of records: "pos" is the slot an edit was    *)
(* appended to, so order by pos is slice order. Key values are taken after  *)
(* EditIdentity.Normalize (column order does not matter), and two           *)
(* identities are Compatible exactly when they are equal. OldValue and      *)
(* NewValue/NewExpr are opaque here; CommitOperation gives them a meaning.  *)
(***************************************************************************)
EXTENDS Integers, FiniteSets

CONSTANTS Keys,        \* primary-key values
          Cols,        \* columns
          Idents,      \* row identities (relation OID and key columns)
          Olds,        \* OldValue
          News,        \* NewValue / NewExpr
          Snapshots,   \* identities of the snapshots BeginCommit hands out
          None,        \* nil
          MaxRevision  \* bound: staging stops at this revision

ASSUME EditsAssumption ==
    /\ None \notin Idents
    /\ None \notin Snapshots
    /\ MaxRevision \in Nat

VARIABLES
    edits,         \* the staged edits
    nextRevision,  \* the last revision handed out
    identity,      \* the identity the set is bound to, or None
    attempt,       \* commitAttempt: the snapshot in flight, or None
    commitEdits,   \* the versions the attempt captured
    unknown,       \* versions whose COMMIT has an unknown outcome
    unknownMoves,  \* unknownOriginalPKs paired with unknownResultPKs
    reservedAt     \* history: nextRevision when the rows were reserved

setVars == <<edits, nextRevision, identity, attempt, commitEdits, unknown,
             unknownMoves, reservedAt>>

Edit == [rev : Nat, pos : Nat, pk : Keys, col : Cols, ident : Idents,
         old : Olds, new : News]

\* One UPDATE: the key it addressed and the key its RETURNING reported.
Move == Keys \X Keys

SetTypeOK ==
    /\ edits \subseteq Edit
    /\ nextRevision \in Nat
    /\ identity \in Idents \cup {None}
    /\ attempt \in Snapshots \cup {None}
    /\ commitEdits \subseteq Edit
    /\ unknown \subseteq Edit
    /\ unknownMoves \subseteq Move
    /\ reservedAt \in Nat

SetInit ==
    /\ edits = {}
    /\ nextRevision = 0
    /\ identity = None
    /\ attempt = None
    /\ commitEdits = {}
    /\ unknown = {}
    /\ unknownMoves = {}
    /\ reservedAt = 0

PKs(S) == {e.pk : e \in S}
Revs(S) == {e.rev : e \in S}

\* The rows nobody may stage on: of the attempt in flight, of an unknown COMMIT.
Reserved == PKs(commitEdits) \cup PKs(unknown)

Quiescent == edits = {} /\ attempt = None /\ commitEdits = {} /\ unknown = {}

\* The edits of a cell; the code's loops stop at the first of the slice.
AtCell(pk, col) == {e \in edits : e.pk = pk /\ e.col = col}
FirstAt(pk, col) ==
    CHOOSE e \in AtCell(pk, col) : \A d \in AtCell(pk, col) : e.pos <= d.pos

-----------------------------------------
(* Staging and discarding. *)

\* Mutant: the rows of a commit under way stay open for staging.
AddLockedUnreserved(pk, col, old, new) ==
    /\ nextRevision < MaxRevision
    /\ pk \notin PKs(unknown)
    /\ nextRevision' = nextRevision + 1
    /\ edits' =
         IF AtCell(pk, col) = {}
         THEN edits \cup {[rev |-> nextRevision + 1, pos |-> nextRevision + 1,
                           pk |-> pk, col |-> col, ident |-> identity',
                           old |-> old, new |-> new]}
         ELSE (edits \ {FirstAt(pk, col)})
              \cup {[FirstAt(pk, col) EXCEPT !.new = new, !.rev = nextRevision + 1]}

\* A new cell is appended; a staged cell keeps its slot and its OldValue and
\* takes the new value under a fresh revision.
AddLocked(pk, col, old, new) ==
    /\ nextRevision < MaxRevision
    /\ pk \notin Reserved
    /\ nextRevision' = nextRevision + 1
    /\ edits' =
         IF AtCell(pk, col) = {}
         THEN edits \cup {[rev |-> nextRevision + 1, pos |-> nextRevision + 1,
                           pk |-> pk, col |-> col, ident |-> identity',
                           old |-> old, new |-> new]}
         ELSE (edits \ {FirstAt(pk, col)})
              \cup {[FirstAt(pk, col) EXCEPT !.new = new, !.rev = nextRevision + 1]}

\* Mutant: a set that is in use takes another identity.
AddWithIdentityRebound(id, pk, col, old, new) ==
    /\ identity' = id
    /\ AddLocked(pk, col, old, new)
    /\ UNCHANGED <<attempt, commitEdits, unknown, unknownMoves, reservedAt>>

\* The first stage binds the identity; another one is accepted only while the
\* set holds nothing.
AddWithIdentity(id, pk, col, old, new) ==
    /\ identity = id \/ Quiescent
    /\ identity' = id
    /\ AddLocked(pk, col, old, new)
    /\ UNCHANGED <<attempt, commitEdits, unknown, unknownMoves, reservedAt>>

\* Discarding never releases a reservation.
RemoveWithIdentity(id, pk, col) ==
    /\ identity = id
    /\ AtCell(pk, col) # {}
    /\ edits' = edits \ {FirstAt(pk, col)}
    /\ UNCHANGED <<nextRevision, identity, attempt, commitEdits, unknown,
                   unknownMoves, reservedAt>>

Clear ==
    /\ edits' = {}
    /\ UNCHANGED <<nextRevision, identity, attempt, commitEdits, unknown,
                   unknownMoves, reservedAt>>

\* The place of an edit among the edits of its cell.
Place(e) == Cardinality({d \in AtCell(e.pk, e.col) : d.pos <= e.pos})

\* Every captured version is checked before any is dropped; each drops the
\* first edit of its cell.
DiscardOwned(selected) ==
    /\ attempt = None
    /\ unknown = {}
    /\ Revs(selected) \subseteq Revs(edits)
    /\ edits' = {e \in edits :
                   Place(e) > Cardinality({d \in selected : d.pk = e.pk /\ d.col = e.col})}
    /\ UNCHANGED <<nextRevision, identity, attempt, commitEdits, unknown,
                   unknownMoves, reservedAt>>

-----------------------------------------
(* Committing. *)

\* Mutant: an unknown outcome does not stop the next commit.
BeginCommitAnyway(snapshot, selected) ==
    /\ attempt = None
    /\ selected # {}
    /\ Revs(selected) \subseteq Revs(edits)
    /\ attempt' = snapshot
    /\ commitEdits' = {e \in edits : e.rev \in Revs(selected)}
    /\ reservedAt' = nextRevision
    /\ UNCHANGED <<edits, nextRevision, identity, unknown, unknownMoves>>

\* Captures the selected versions, if all of them are still current, and
\* reserves their rows until the settlement.
BeginCommit(snapshot, selected) ==
    /\ attempt = None
    /\ unknown = {}
    /\ selected # {}
    /\ Revs(selected) \subseteq Revs(edits)
    /\ attempt' = snapshot
    /\ commitEdits' = {e \in edits : e.rev \in Revs(selected)}
    /\ reservedAt' = nextRevision
    /\ UNCHANGED <<edits, nextRevision, identity, unknown, unknownMoves>>

\* retire: only the very versions that were committed leave the set.
Retire(committed) == {e \in edits : e.rev \notin Revs(committed)}

\* The key an edit is carried to when its row was committed under another key.
MovedTo(e, moves) == {m[2] : m \in {n \in moves : n[1] = e.pk /\ n[2] # n[1]}}

\* retireCommitted: the survivors of a row follow it to its resulting key,
\* each under a fresh revision, in slice order.
RetireCommitted(committed, moves) ==
    LET kept == Retire(committed)
        moved == {e \in kept : MovedTo(e, moves) # {}}
        rank(e) == Cardinality({d \in moved : d.pos <= e.pos})
    IN  /\ edits' = (kept \ moved) \cup
              {[e EXCEPT !.pk = CHOOSE k \in MovedTo(e, moves) : TRUE,
                         !.rev = nextRevision + rank(e)] : e \in moved}
        /\ nextRevision' = nextRevision + Cardinality(moved)

\* The receipt of an attempt. A receipt for anything else is ignored.
SettleCommit(snapshot, committed, unknownOutcome, moves) ==
    /\ attempt = snapshot
    /\ attempt' = None
    /\ commitEdits' = {}
    /\ IF committed
       THEN /\ RetireCommitted(commitEdits, moves)
            /\ UNCHANGED <<unknown, unknownMoves>>
       ELSE /\ UNCHANGED <<edits, nextRevision>>
            /\ unknown' = IF unknownOutcome THEN unknown \cup commitEdits ELSE unknown
            /\ unknownMoves' = IF unknownOutcome THEN moves ELSE unknownMoves
    /\ reservedAt' = IF unknown' = {} THEN 0 ELSE reservedAt
    /\ UNCHANGED identity

\* validCommitIdentities: each UPDATE addressed an attempted row, no two the
\* same row or the same result, and every attempted row was updated.
ValidCommitIdentities(attempted, moves) ==
    /\ {m[1] : m \in moves} = PKs(attempted)
    /\ \A m, n \in moves : m # n => m[1] # n[1] /\ m[2] # n[2]

\* Called after somebody looked at the server.
ReconcileCommitOutcome(committed) ==
    /\ attempt = None
    /\ unknown # {}
    /\ IF committed
       THEN /\ ValidCommitIdentities(unknown, unknownMoves)
            /\ RetireCommitted(unknown, unknownMoves)
       ELSE UNCHANGED <<edits, nextRevision>>
    /\ unknown' = {}
    /\ unknownMoves' = {}
    /\ reservedAt' = 0
    /\ UNCHANGED <<identity, attempt, commitEdits>>

-----------------------------------------
(* The set by itself: any caller, in any order, with any receipt. *)

SetNext ==
    \/ \E e \in edits' \ edits :
         e \in Edit /\ AddWithIdentity(e.ident, e.pk, e.col, e.old, e.new)
    \/ \E e \in edits : RemoveWithIdentity(identity, e.pk, e.col)
    \/ Clear
    \/ \E S \in SUBSET edits :
         DiscardOwned(S) \/ \E snapshot \in Snapshots : BeginCommit(snapshot, S)
    \/ \E snapshot \in Snapshots, committed, unknownOutcome \in BOOLEAN,
          moves \in SUBSET Move :
         SettleCommit(snapshot, committed, unknownOutcome, moves)
    \/ \E committed \in BOOLEAN : ReconcileCommitOutcome(committed)

\* What the rest of the program may do to the set: nothing but call its methods.
\* The theorems about the set hold of every caller that keeps to this.
SetSpec == SetInit /\ [][SetNext]_setVars

-----------------------------------------
(* Properties of the set. *)

\* A revision names one version: retire, BeginCommit and DiscardOwned match by
\* revision alone, so a revision shared by two edits (a re-keyed survivor and a
\* staged one, say) would commit or drop the wrong one.
RevisionsAreNames ==
    /\ \A e \in edits : e.rev \in 1..nextRevision
    /\ \A d, e \in edits : d.rev = e.rev => d = e

\* What the receipt will retire is what was sent: a captured version that is
\* still in the set is there unchanged, and no version newer than the capture
\* sits on a row that is reserved.
ReservationHolds ==
    /\ \A e \in edits : \A c \in commitEdits \cup unknown : e.rev = c.rev => e = c
    /\ \A e \in edits : e.pk \in Reserved => e.rev <= reservedAt

\* What a commit captured stays what it is: versions have names of their own and
\* the captured ones keep theirs (addLocked, BeginCommit, retireCommitted).
EditsHeld == RevisionsAreNames /\ ReservationHolds

\* There is one receipt to wait for: an attempt excludes an unknown outcome.
OneReceipt ==
    /\ attempt = None <=> commitEdits = {}
    /\ attempt # None => unknown = {}

\* Keys staged under one identity are never read under another.
OneIdentity ==
    \A e \in edits \cup commitEdits \cup unknown : e.ident = identity

\* One receipt and one identity at a time (BeginCommit, AddWithIdentity).
EditsBound == OneReceipt /\ OneIdentity
=============================================================================
