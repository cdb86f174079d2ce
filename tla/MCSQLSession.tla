---------------------------- MODULE MCSQLSession ----------------------------
(* Finite instances of SQLSession for TLC.                                  *)
EXTENDS SQLSession, TLC

Symmetry == Permutations(Calls)
=============================================================================
