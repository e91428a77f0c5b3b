------------------------------ MODULE BlockMap ------------------------------
(***************************************************************************)
(* How an inode's contents are kept on disk blocks (kernel/fs.c): bmap     *)
(* with its direct, single, double and triple indirect pointers, itrunc,   *)
(* writei and readi, over balloc and bfree.                                *)
(*                                                                         *)
(* A disk block is BSIZE words; a word is a number, and the same block can *)
(* be read as data or as block pointers, as in the code.  So NINDIRECT is  *)
(* BSIZE.  An operation holds the inode's lock and runs in a transaction:  *)
(* it is one action.                                                       *)
(***************************************************************************)
EXTENDS Naturals, Sequences, FiniteSets, FiniteSetsExt, SequencesExt

CONSTANTS
  Files,     \* inode numbers, from 1
  NDIRECT,   \* direct pointers of an inode
  BSIZE,     \* words of a block
  NBLOCKS,   \* blocks of the disk; block 0, the boot block, is in use
  MaxBlocks, \* bound: MaxBlocks[f] blocks in file f
  MaxWrite,  \* bound: words of one write
  Crowd      \* bound: blocks in use up to which all files are active

NINDIRECT == BSIZE
MAXFILE == NDIRECT + NINDIRECT + NINDIRECT ^ 2 + NINDIRECT ^ 3
Disk == 0..(NBLOCKS - 1)

ASSUME BlockMapAssumption ==
  /\ Files \subseteq Nat \ {0}
  /\ {NDIRECT, BSIZE, NBLOCKS} \subseteq Nat \ {0}
  /\ MaxBlocks \in [Files -> 0..MAXFILE] /\ {MaxWrite, Crowd} \subseteq Nat

VARIABLES
  addrs,     \* addrs[f]: the pointers of inode f, 0 for none
  size,      \* size[f] in words
  store,     \* the words of every block
  used,      \* blocks marked in the bitmap
  panicked

vars == <<addrs, size, store, used, panicked>>

Zero == [i \in 0..(BSIZE - 1) |-> 0]
NoAddrs == [i \in 0..(NDIRECT + 2) |-> 0]

Init ==
  /\ addrs = [f \in Files |-> NoAddrs]
  /\ size = [f \in Files |-> 0]
  /\ store = [b \in Disk |-> Zero]
  /\ used = {0}
  /\ panicked = FALSE

----------------------------------------------------------------------------
(* bmap.  The pointers from the inode down to block bn of a file: first a  *)
(* slot of addrs, then a slot of each indirect block on the way.           *)

\* Fault: the triple indirect level keeps no middle index.
Path_flat_triple(bn) ==
  LET b1 == bn - NDIRECT
      b2 == b1 - NINDIRECT
      b3 == b2 - NINDIRECT ^ 2
  IN  IF bn < NDIRECT THEN <<bn>>
      ELSE IF b1 < NINDIRECT THEN <<NDIRECT, b1>>
      ELSE IF b2 < NINDIRECT ^ 2 THEN <<NDIRECT + 1, b2 \div NINDIRECT, b2 % NINDIRECT>>
      ELSE <<NDIRECT + 2, b3 \div NINDIRECT ^ 2, b3 % NINDIRECT, b3 % NINDIRECT>>

Path(bn) ==
  LET b1 == bn - NDIRECT
      b2 == b1 - NINDIRECT
      b3 == b2 - NINDIRECT ^ 2
  IN  IF bn < NDIRECT THEN <<bn>>
      ELSE IF b1 < NINDIRECT THEN <<NDIRECT, b1>>
      ELSE IF b2 < NINDIRECT ^ 2 THEN <<NDIRECT + 1, b2 \div NINDIRECT, b2 % NINDIRECT>>
      ELSE <<NDIRECT + 2, b3 \div NINDIRECT ^ 2,
             (b3 % NINDIRECT ^ 2) \div NINDIRECT, (b3 % NINDIRECT ^ 2) % NINDIRECT>>

\* A walk is the state an operation on one inode builds up: its pointers a, the
\* blocks' words, the bitmap, whether balloc has panicked, and the block reached.
\* Block 0 stands for the inode itself at the start of a path.
Walk(f) == [a |-> addrs[f], store |-> store, used |-> used, oops |-> FALSE, at |-> 0]

Pointer(w, top, i) == IF top THEN w.a[i] ELSE w.store[w.at][i]

SetPointer(w, top, i, b) ==
  IF top THEN [w EXCEPT !.a[i] = b] ELSE [w EXCEPT !.store[w.at][i] = b]

\* Fault: the block handed out is not marked.
balloc_unmarked(w) ==
  IF Disk \subseteq w.used THEN [w EXCEPT !.oops = TRUE]
  ELSE [w EXCEPT !.store[Min(Disk \ w.used)] = Zero]

\* balloc: the lowest free block, zeroed; it panics when there is none.
balloc(w) ==
  IF Disk \subseteq w.used THEN [w EXCEPT !.oops = TRUE]
  ELSE LET b == Min(Disk \ w.used) IN
       [w EXCEPT !.used = @ \cup {b}, !.store[b] = Zero]

\* Follow slot i, allocating what it should point to if it is 0.
Follow(w, top, i) ==
  LET old == Pointer(w, top, i)
      new == Min(Disk \ w.used)
  IN  IF w.oops THEN w
      ELSE IF old # 0 THEN [w EXCEPT !.at = old]
      ELSE IF Disk \subseteq w.used THEN balloc(w)
      ELSE [SetPointer(balloc(w), top, i, new) EXCEPT !.at = new]

bmap(w, bn) ==
  LET path == Path(bn) IN
  FoldLeft(LAMBDA x, i : Follow(x, FALSE, i), Follow(w, TRUE, Head(path)), Tail(path))

----------------------------------------------------------------------------
(* writei.                                                                 *)

\* What a process writes at word k of file f: a different word everywhere.
Word(f, k) == 1000 * f + k

\* Blocks are written one after another: bmap, either_copyin, log_write.  The
\* words lo..hi-1 are copied; block `last` is the last one bmap is called for.
WriteBlocks(f, lo, hi, last) ==
  LET Fill(w, bn) ==
        LET x == bmap(w, bn) IN
        IF x.oops THEN x
        ELSE [x EXCEPT !.store[x.at] =
                [i \in 0..(BSIZE - 1) |->
                   IF bn * BSIZE + i \in lo..(hi - 1) THEN Word(f, bn * BSIZE + i) ELSE @[i]]]
      first == lo \div BSIZE
  IN  FoldLeft(Fill, Walk(f), [k \in 1..(last - first + 1) |-> first + k - 1])

Apply(f, w, newsize) ==
  IF w.oops
  THEN panicked' = TRUE /\ UNCHANGED <<addrs, size, store, used>>
  ELSE /\ addrs' = [addrs EXCEPT ![f] = w.a]
       /\ store' = w.store
       /\ used' = w.used
       /\ size' = [size EXCEPT ![f] = newsize]
       /\ UNCHANGED panicked

\* Fault: no check against the largest file.
MayWrite_unbounded(f, off, n) == ~panicked /\ off <= size[f]

MayWrite(f, off, n) ==
  ~panicked /\ off <= size[f] /\ off + n <= MaxBlocks[f] * BSIZE

writei(f, off, n) ==
  /\ MayWrite(f, off, n)
  /\ Apply(f, WriteBlocks(f, off, off + n, (off + n - 1) \div BSIZE),
           IF off + n > size[f] THEN off + n ELSE size[f])

\* either_copyin fails after cut < n words: the block it fails in has been
\* mapped, but the size only grows to the end of the blocks before it.
writei_fails(f, off, n, cut) ==
  LET bn == (off + cut) \div BSIZE
      done == IF bn * BSIZE > off THEN bn * BSIZE ELSE off
  IN  /\ MayWrite(f, off, n) /\ cut < n
      /\ Apply(f, WriteBlocks(f, off, off + cut, bn), IF done > size[f] THEN done ELSE size[f])

----------------------------------------------------------------------------
(* itrunc.                                                                 *)

\* The calls of bfree for the tree of indirect blocks, d levels deep, whose root
\* is b: what a block points to, slot by slot, before the block itself.
Frees(d, b) ==
  LET Sub[k \in 0..d] ==
        [n \in Disk |->
           Append(FlattenSeq([i \in 1..NINDIRECT |->
                    IF k = 0 \/ store[n][i - 1] \notin Disk \ {0} THEN <<>>
                    ELSE Sub[k - 1][store[n][i - 1]]]), n)]
  IN  IF b = 0 THEN <<>> ELSE Sub[d][b]

\* itrunc's first three parts: direct, single and double indirect blocks.
DoubleLevel(a) ==
  FlattenSeq([i \in 1..NDIRECT |-> Frees(0, a[i - 1])])
    \o Frees(1, a[NDIRECT]) \o Frees(2, a[NDIRECT + 1])

\* Fault: the block of single indirect pointers itself is not freed.
Freed_not_indirect(a) == SelectSeq(DoubleLevel(a), LAMBDA b : b # a[NDIRECT])

\* What itrunc passes to bfree, in order.  The last bfree of the triple indirect
\* level is of addrs[NDIRECT+1], which is 0 by then.
Freed(a) ==
  DoubleLevel(a) \o
    IF a[NDIRECT + 2] = 0 THEN <<>> ELSE Append(Front(Frees(3, a[NDIRECT + 2])), 0)

Cleared(a) == [NoAddrs EXCEPT ![NDIRECT + 2] = a[NDIRECT + 2]]

\* bfree panics at a block that is free, also one this itrunc has freed before.
itrunc(f) ==
  LET freed == Freed(addrs[f]) IN
  /\ ~panicked
  /\ IF ToSet(freed) \subseteq used /\ IsInjective(freed)
     THEN /\ used' = used \ ToSet(freed)
          /\ addrs' = [addrs EXCEPT ![f] = Cleared(@)]
          /\ size' = [size EXCEPT ![f] = 0]
          /\ UNCHANGED <<store, panicked>>
     ELSE panicked' = TRUE /\ UNCHANGED <<addrs, size, store, used>>   \* "freeing free block"

\* panic() spins forever.
halted == panicked /\ UNCHANGED vars

write(f) ==
  \E n \in 1..MaxWrite, off \in 0..size[f] :
    writei(f, off, n) \/ \E cut \in 0..(n - 1) : writei_fails(f, off, n, cut)

Next == (\E f \in Files : write(f) \/ itrunc(f)) \/ halted

Spec == Init /\ [][Next]_vars

\* Behaviours in which no file is truncated that has reached the triple level.
\* Beyond Crowd blocks only file 1 goes on, up to the end of that level.
shallow(f) ==
  /\ f = 1 \/ Cardinality(used) <= Crowd
  /\ write(f) \/ (addrs[f][NDIRECT + 2] = 0 /\ itrunc(f))

ShallowSpec == Init /\ [][(\E f \in Files : shallow(f)) \/ halted]_vars

----------------------------------------------------------------------------
(* Properties.                                                             *)

\* The blocks inode f keeps: its data and its indirect blocks.
Kept(f) == ToSet(DoubleLevel(addrs[f]) \o Frees(3, addrs[f][NDIRECT + 2]))

\* The pointers from f's inode to block bn: <<>> stands for one that is missing.
Lookup(f, bn) ==
  LET path == Path(bn) IN
  FoldLeft(LAMBDA b, i : IF b = 0 THEN 0 ELSE store[b][i], addrs[f][Head(path)], Tail(path))

TypeOK ==
  /\ addrs \in [Files -> [0..(NDIRECT + 2) -> Disk]]
  /\ \A f \in Files : size[f] \in 0..(MaxBlocks[f] * BSIZE)
  /\ store \in [Disk -> [0..(BSIZE - 1) -> Nat]]
  /\ used \subseteq Disk
  /\ panicked \in BOOLEAN

\* Reading a file back returns what was written to each of its words, through
\* whichever pointers, and readi's call of bmap never has to allocate a block
\* (it could not: fileread calls readi outside a transaction).
ReadBack ==
  \A f \in Files : \A k \in 0..(size[f] - 1) :
    LET b == Lookup(f, k \div BSIZE) IN b # 0 /\ store[b][k % BSIZE] = Word(f, k)

\* No block is kept by two files, and the boot block by none.
NoSharing ==
  /\ \A f, g \in Files : f # g => Kept(f) \cap Kept(g) = {}
  /\ \A f \in Files : 0 \notin Kept(f)

\* The bitmap marks what the files keep, no more (nothing is leaked by a write
\* that fails half way or by itrunc) and no less; and itrunc never frees a
\* block that is free (bfree's panic).
BitmapExact == used = {0} \cup UNION {Kept(f) : f \in Files}

\* itrunc: "Truncate inode (discard contents)".  An inode of size 0 after an
\* itrunc keeps no block.
TruncKeepsNothing ==
  [][\A f \in Files : itrunc(f) => addrs'[f] = NoAddrs \/ panicked']_vars
=============================================================================
