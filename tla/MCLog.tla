------------------------------- MODULE MCLog -------------------------------
(* Instances of Log for TLC. *)
EXTENDS Log, TLC

\* For safety runs only.
Symmetry == Permutations(Proc) \cup Permutations(Block)
=============================================================================
