------------------------------ MODULE MCHTree ------------------------------
(* Instances of HTree for TLC.  A leaf has 2 slots and leaf 3 is the first  *)
(* half of the overflow area (slots 6 to 9).                                *)
EXTENDS HTree

\* Four names in leaf 1, so two of them overflow into leaf 3; one in leaf 3.
MCHash == [n \in Names |-> IF n = "e" THEN 3 ELSE 1]
=============================================================================
