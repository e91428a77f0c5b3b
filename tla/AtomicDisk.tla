----------------------------- MODULE AtomicDisk -----------------------------
(***************************************************************************)
(* What the write-ahead log promises its callers: the disk behaves as if   *)
(* the updates of a group of whole file system operations reached it in    *)
(* one step, and a crash returns the system to the last such step.         *)
(*                                                                         *)
(* stable is the disk image a crash would leave; current is the image the  *)
(* running operations read and write; active is the set of processes       *)
(* between begin_op and end_op.                                            *)
(***************************************************************************)
CONSTANTS Procs, Blocks, Vals

VARIABLES stable, current, active

vars == <<stable, current, active>>

Init ==
  /\ stable \in [Blocks -> Vals]
  /\ current = stable
  /\ active = {}

Begin(p) ==
  /\ p \notin active
  /\ active' = active \cup {p}
  /\ UNCHANGED <<stable, current>>

Write(p, b, v) ==
  /\ p \in active
  /\ current' = [current EXCEPT ![b] = v]
  /\ UNCHANGED <<stable, active>>

End(p) ==
  /\ p \in active
  /\ active' = active \ {p}
  /\ UNCHANGED <<stable, current>>

\* A commit never catches an operation half way.
Commit ==
  /\ active = {}
  /\ stable' = current
  /\ UNCHANGED <<current, active>>

Crash ==
  /\ current' = stable
  /\ active' = {}
  /\ UNCHANGED stable

Next ==
  \/ \E p \in Procs : Begin(p) \/ End(p) \/ \E b \in Blocks, v \in Vals : Write(p, b, v)
  \/ Commit
  \/ Crash

Spec == Init /\ [][Next]_vars
=============================================================================
