----------------------------- MODULE MCBufCache -----------------------------
(* Instances of BufCache for TLC. *)
EXTENDS BufCache, TLC

Symmetry == Permutations(Procs) \cup Permutations(Bufs) \cup Permutations(Blocks)
              \cup Permutations(Vals)
=============================================================================
