------------------------- MODULE MCCommitOperation -------------------------
(* Finite instances of CommitOperation for TLC.                             *)
EXTENDS CommitOperation, TLC

CONSTANTS r1, r2

OneRow == r1 :> 1
TwoRows == r1 :> 1 @@ r2 :> 2

\* Operations, identities and the columns that are not the key are only ever
\* compared with one another.
Symmetry == Permutations(Ops) \cup Permutations(Idents) \cup Permutations(DataCols)
=============================================================================
