----------------------------- MODULE MCFreeMap -----------------------------
(* Instances of FreeMap for TLC: a disk of five blocks. *)
EXTENDS FreeMap, TLC

Symmetry == Permutations(Procs)

\* The log's data blocks that some later step can still read; the others are
\* written before they are read, so states that differ only there are one.
LiveLog ==
  IF head # <<>> THEN SubSeq(logarea, 1, Len(head))
  ELSE IF InPhase("write_head") THEN SubSeq(logarea, 1, Len(lh))
  ELSE SubSeq(logarea, 1, tail)

View == <<disk, LiveLog, head, cache, pins, lh, outstanding, committing, tail,
          pc, wrote, mode, fvars>>
=============================================================================
