------------------------------- MODULE HTree -------------------------------
(***************************************************************************)
(* The hashed directories of kernel/fs.c: tree_search, dirlookup, dirlink, *)
(* tree_expand and build_dir_tree, with the removal of an entry by         *)
(* sys_unlink and its isdirempty (kernel/sysfile.c).                       *)
(*                                                                         *)
(* A directory is an array of slots, one dirent each.  Slots 0 and 1 are   *)
(* "." and "..".  The hash of a name selects a leaf, LEAF slots long, and  *)
(* an overflow area takes what its leaf has no room for; the last leaves   *)
(* lie inside the overflow area, as they do in the code.  The directory    *)
(* grows when an entry is to go beyond its size.  The caller holds the     *)
(* directory's lock, so one call is one action.                            *)
(***************************************************************************)
EXTENDS Integers, FiniteSets, FiniteSetsExt

CONSTANTS
  Names,     \* names other than "." and ".."
  Inums,
  LEAF,      \* slots of a leaf (16)
  HashMin, HashMax,  \* hash values (16 to 458)
  Hash,      \* BKDRHash of a name that is terminated
  Long,      \* names of DIRSIZ or more characters, which are not
  OvfFrom, OvfTo     \* first slot of the overflow area, and the slot after its last

Hashes == HashMin..HashMax
Overflow == OvfFrom..(OvfTo - 1)
Leaf(h) == (h * LEAF)..((h + 1) * LEAF - 1)

ASSUME HTreeAssumption ==
  /\ LEAF \in Nat \ {0} /\ HashMin \in Nat \ {0} /\ HashMax \in Nat
  /\ Hash \in [Names -> Hashes] /\ Long \subseteq Names
  /\ Inums \subseteq Nat \ {0}
  /\ OvfFrom \in Nat /\ OvfTo \in Nat
  /\ HashMin * LEAF >= 2 /\ (HashMax + 1) * LEAF <= OvfTo

VARIABLES
  slot,      \* slot[s]: the dirent [name, inum] at s, for s below the size
  size,      \* dp->size, in slots
  res        \* the last call, its name and its result

vars == <<slot, size, res>>

Empty == [name |-> "", inum |-> 0]
NoSlot == -1

\* build_dir_tree.
Init ==
  /\ size = 2
  /\ slot = [s \in 0..1 |-> [name |-> IF s = 0 THEN "." ELSE "..", inum |-> 1]]
  /\ res = <<"mkdir", ".", 0>>

\* BKDRHash reads the name up to its terminating 0.  skipelem stores no 0 after
\* DIRSIZ characters, so the hash of a long name depends on what follows the
\* buffer in the caller's frame.
BKDRHash(n) == IF n \in Long THEN Hashes ELSE {Hash[n]}

----------------------------------------------------------------------------
(* tree_search.                                                            *)

Below(S) == {s \in S : s < size}
Match(S, n) == {s \in Below(S) : slot[s].name = n}
Vacant(S) == {s \in Below(S) : slot[s].inum = 0}

\* Fault: the overflow area is not searched.
Find_leaf_only(n, h) ==
  IF Match(Leaf(h), n) # {} THEN Min(Match(Leaf(h), n)) ELSE NoSlot

\* Looking up (add = 0): a leaf that is not there yet ends the search.
Find(n, h) ==
  IF Match(Leaf(h), n) # {} THEN Min(Match(Leaf(h), n))
  ELSE IF Below(Leaf(h)) # Leaf(h) THEN NoSlot
  ELSE IF Match(Overflow, n) # {} THEN Min(Match(Overflow, n))
  ELSE NoSlot

\* Fault: the size is off by one after an expansion.
Place_one_more(S) ==
  IF Vacant(S) # {} THEN [at |-> Min(Vacant(S)), size |-> size]
  ELSE IF Below(S) # S THEN [at |-> Min(S \ Below(S)), size |-> Max(S) + 2]
  ELSE [at |-> NoSlot, size |-> size]

\* Adding (add = 1): the first vacant slot of area S, growing the directory to
\* the end of S when its slots below the size are taken.
Place(S) ==
  IF Vacant(S) # {} THEN [at |-> Min(Vacant(S)), size |-> size]
  ELSE IF Below(S) # S THEN [at |-> Min(S \ Below(S)), size |-> Max(S) + 1]
  ELSE [at |-> NoSlot, size |-> size]

\* Fault: no overflow area when adding.
Choose_leaf_only(h) ==
  IF Place(Leaf(h)).at # NoSlot THEN Place(Leaf(h)) ELSE [at |-> 0, size |-> size]

\* If there is no room anywhere, the caller's off keeps its initial value 0.
Choose(h) ==
  IF Place(Leaf(h)).at # NoSlot THEN Place(Leaf(h))
  ELSE IF Place(Overflow).at # NoSlot THEN Place(Overflow)
  ELSE [at |-> 0, size |-> size]

----------------------------------------------------------------------------
InumAt(s) == IF s = NoSlot THEN 0 ELSE slot[s].inum

dirlookup(n) ==
  /\ \E h \in BKDRHash(n) : res' = <<"dirlookup", n, InumAt(Find(n, h))>>
  /\ UNCHANGED <<slot, size>>

\* tree_expand zeroes what it adds; writei then stores the entry.
dirlink(n, i) ==
  \E h \in BKDRHash(n) :
    IF InumAt(Find(n, h)) # 0
    THEN res' = <<"dirlink", n, -1>> /\ UNCHANGED <<slot, size>>
    ELSE LET place == Choose(h) IN
         /\ size' = place.size
         /\ slot' = [s \in 0..(size' - 1) |->
                       IF s = place.at THEN [name |-> n, inum |-> i]
                       ELSE IF s < size THEN slot[s] ELSE Empty]
         /\ res' = <<"dirlink", n, 0>>

\* sys_unlink of a name in this directory: dirlookup, and a dirent of zeros.
unlink(n) ==
  \E h \in BKDRHash(n) :
    LET s == Find(n, h) IN
    IF InumAt(s) = 0
    THEN res' = <<"unlink", n, -1>> /\ UNCHANGED <<slot, size>>
    ELSE /\ slot' = [slot EXCEPT ![s] = Empty]
         /\ res' = <<"unlink", n, 0>>
         /\ UNCHANGED size

\* Fault: the overflow area is not looked at.
isdirempty_leaves_only ==
  /\ res' = <<"isdirempty", ".",
              IF \E s \in 2..(size - 1) \ Overflow : slot[s].inum # 0 THEN 0 ELSE 1>>
  /\ UNCHANGED <<slot, size>>

isdirempty ==
  /\ res' = <<"isdirempty", ".", IF \E s \in 2..(size - 1) : slot[s].inum # 0 THEN 0 ELSE 1>>
  /\ UNCHANGED <<slot, size>>

Next ==
  \/ \E n \in Names : dirlookup(n) \/ unlink(n) \/ \E i \in Inums : dirlink(n, i)
  \/ isdirempty

Spec == Init /\ [][Next]_vars

----------------------------------------------------------------------------
(* Properties.                                                             *)

Holders(n) == {s \in DOMAIN slot : slot[s].name = n}

Entries == [n \in Names |-> IF Holders(n) = {} THEN 0 ELSE slot[Min(Holders(n))].inum]

D == INSTANCE Directory WITH entries <- Entries

TypeOK ==
  /\ size \in 2..OvfTo
  /\ DOMAIN slot = 0..(size - 1)
  /\ \A s \in DOMAIN slot : slot[s].name \in Names \cup {"", ".", ".."}
                            /\ slot[s].inum \in Inums \cup {0, 1}

\* The hashed directory is a map from names to inodes: every dirlookup,
\* dirlink, unlink and isdirempty returns what the map says and changes what
\* the map says, although an entry may sit in its leaf, in the overflow area,
\* or in a leaf that belongs to another name's hash.
IsDirectory == D!Spec

\* A name is in at most one slot: dirlink's "Check that name is not present"
\* finds it wherever it is, also after its leaf has got room again.
OneSlot == \A n \in Names : Cardinality(Holders(n)) <= 1

\* "The first block is reserved for . and .." (fs.c, tree_search).
DotsKept == slot[0].name = "." /\ slot[1].name = ".."

\* A name that has been linked can be opened again, whatever its length.
LinkedIsFound ==
  res[1] = "dirlookup" => (res[3] = 0 => Holders(res[2]) = {})
=============================================================================
