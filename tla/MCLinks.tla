------------------------------ MODULE MCLinks ------------------------------
(* Instances of Links for TLC. *)
EXTENDS Links, TLC

Symmetry == Permutations(Procs) \cup Permutations(Names)
=============================================================================
