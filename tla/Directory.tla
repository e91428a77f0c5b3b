----------------------------- MODULE Directory -----------------------------
(* What a directory promises: a finite map from names to inode numbers.     *)
(* Module HTree implements it.                                              *)
EXTENDS Integers

CONSTANTS Names, Inums

VARIABLES
  entries,   \* the inode number of each name, 0 for a name that is not there
  res        \* the last call, the name it was given and what it returned

vars == <<entries, res>>

Init ==
  /\ entries = [n \in Names |-> 0]
  /\ res = <<"mkdir", ".", 0>>

Lookup(n) ==
  /\ res' = <<"dirlookup", n, entries[n]>>
  /\ UNCHANGED entries

Link(n, i) ==
  IF entries[n] # 0
  THEN res' = <<"dirlink", n, -1>> /\ UNCHANGED entries
  ELSE res' = <<"dirlink", n, 0>> /\ entries' = [entries EXCEPT ![n] = i]

Unlink(n) ==
  IF entries[n] = 0
  THEN res' = <<"unlink", n, -1>> /\ UNCHANGED entries
  ELSE res' = <<"unlink", n, 0>> /\ entries' = [entries EXCEPT ![n] = 0]

IsEmpty ==
  /\ res' = <<"isdirempty", ".", IF \A n \in Names : entries[n] = 0 THEN 1 ELSE 0>>
  /\ UNCHANGED entries

Next ==
  \/ \E n \in Names : Lookup(n) \/ Unlink(n) \/ \E i \in Inums : Link(n, i)
  \/ IsEmpty

Spec == Init /\ [][Next]_vars
=============================================================================
