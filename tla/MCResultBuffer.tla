--------------------------- MODULE MCResultBuffer ---------------------------
(* Instances of ResultBuffer for TLC. *)
EXTENDS ResultBuffer, TLC

\* Waiters are interchangeable: every one may wait for any key.
Symmetry == Permutations(Waiters)
=============================================================================
