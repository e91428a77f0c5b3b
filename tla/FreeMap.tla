------------------------------ MODULE FreeMap ------------------------------
(***************************************************************************)
(* The free maps of kernel/fs.c on top of the log: the block bitmap        *)
(* (balloc, bfree), the inode bitmap (searchibmap, ifree), the free        *)
(* counters kept in the in-memory superblock sb and copied to block 1 by   *)
(* updatesb, and fsinit, which reads the superblock at boot.               *)
(*                                                                         *)
(* The log's actions are those of module Log; every change made here goes  *)
(* to disk through log_write.  Block 1 holds the counters, the two bitmap  *)
(* blocks hold the set of items marked in use, a data block holds "zero"   *)
(* after bzero and "data" before.                                          *)
(***************************************************************************)
EXTENDS Log, Integers, FiniteSetsExt

CONSTANTS
  BMAP, IBMAP,   \* block numbers of the two bitmaps
  DataBlocks,    \* block numbers the block bitmap can hand out
  Inums,         \* inode numbers the inode bitmap can hand out
  Width,         \* the counters are unsigned: they wrap at Width
  OpsPerTxn,     \* bound: allocations and frees in one transaction
  MaxCrashes     \* bound: crashes in one behaviour

SBLOCK == 1
Maps == {BMAP, IBMAP}
Items(m) == IF m = BMAP THEN DataBlocks ELSE Inums
OutOf(m) == IF m = BMAP THEN "balloc: out of blocks" ELSE "ialloc: out of free inodes"
Freeing(m) == IF m = BMAP THEN "freeing free block" ELSE "freeing free inode"

ASSUME FreeMapAssumption ==
  /\ Maps \cup {SBLOCK} \cup DataBlocks \subseteq Blocks
  /\ DataBlocks \cup Inums \subseteq Nat
  /\ SBLOCK \notin Maps \cup DataBlocks /\ BMAP # IBMAP
  /\ DataBlocks \cap Maps = {}
  /\ Width \in Nat /\ Cardinality(DataBlocks) < Width /\ Cardinality(Inums) < Width
  /\ OpsPerTxn \in Nat /\ MaxCrashes \in Nat

VARIABLES
  sb,       \* the in-memory superblock's counters: sb[m] free items of map m
  sbread,   \* fsinit has read the superblock since the last crash
  sblock1,  \* holder of block 1's buffer during updatesb's memmove, or NoProc
  torn,     \* counters that changed while that memmove ran
  step,     \* where each process is in an allocation or a free
  job,      \* what it is allocating or freeing
  todo,     \* allocations and frees left in its transaction
  owned,    \* items that inodes or directories refer to
  crashes

fvars == <<sb, sbread, sblock1, torn, step, job, todo, owned, crashes>>
allvars == <<vars, fvars>>

NoProc == "nobody"
NoJob == [map |-> BMAP, item |-> 0, delta |-> 0]

\* mkfs: nothing handed out yet, and the counters say so.
FullCount == [m \in Maps |-> Cardinality(Items(m))]
Mkfs == [b \in Blocks |->
           IF b = SBLOCK THEN FullCount
           ELSE IF b \in Maps THEN {}
           ELSE "data"]

FInit ==
  /\ disk = Mkfs
  /\ logarea = [i \in 1..Capacity |-> "zero"]
  /\ head = <<>> /\ lh = <<>>
  /\ cache = [b \in Blocks |-> Absent] /\ pins = [b \in Blocks |-> 0]
  /\ outstanding = 0 /\ committing = FALSE /\ tail = 0
  /\ pc = [p \in Procs |-> "idle"] /\ wrote = [p \in Procs |-> {}]
  /\ mode = "boot"
  /\ sb = [m \in Maps |-> 0] /\ sbread = FALSE
  /\ sblock1 = NoProc /\ torn = {}
  /\ step = [p \in Procs |-> "none"] /\ job = [p \in Procs |-> NoJob]
  /\ todo = [p \in Procs |-> OpsPerTxn]
  /\ owned = [m \in Maps |-> {}]
  /\ crashes = 0

----------------------------------------------------------------------------
(* Allocation and free.  A bitmap is changed and logged under its buffer's *)
(* lock, a counter under sblock; updatesb's memmove runs under the lock of *)
(* block 1's buffer but not under sblock.                                  *)

Ready(p, s) == mode = "up" /\ pc[p] = "op" /\ step[p] = s

\* The bitmap scan of balloc and searchibmap takes the lowest clear bit.
mark_used(p, m) ==
  LET used == bread(m) IN
  /\ Ready(p, "none") /\ todo[p] > 0
  /\ Items(m) \ used # {}
  /\ LET x == Min(Items(m) \ used) IN
     /\ log_write(p, m, used \cup {x})
     /\ job' = [job EXCEPT ![p] = [map |-> m, item |-> x, delta |-> -1]]
  /\ step' = [step EXCEPT ![p] = "count"]
  /\ todo' = [todo EXCEPT ![p] = @ - 1]
  /\ UNCHANGED <<sb, sbread, sblock1, torn, owned, crashes>>

out_of_items(p, m) ==
  /\ Ready(p, "none") /\ todo[p] > 0
  /\ Items(m) \subseteq bread(m)
  /\ mode' = OutOf(m)
  /\ UNCHANGED <<durable, cache, pins, lh, outstanding, committing, tail, pc, wrote, fvars>>

\* Fault: the freed item's bit stays set.
mark_free_keeps_bit(p, m, x) ==
  /\ Ready(p, "none") /\ todo[p] > 0
  /\ x \in owned[m]
  /\ log_write(p, m, bread(m))
  /\ job' = [job EXCEPT ![p] = [map |-> m, item |-> x, delta |-> 1]]
  /\ step' = [step EXCEPT ![p] = "count"]
  /\ todo' = [todo EXCEPT ![p] = @ - 1]
  /\ owned' = [owned EXCEPT ![m] = @ \ {x}]
  /\ UNCHANGED <<sb, sbread, sblock1, torn, crashes>>

\* bfree and ifree of an item some inode or directory gives up.
mark_free(p, m, x) ==
  LET used == bread(m) IN
  /\ Ready(p, "none") /\ todo[p] > 0
  /\ x \in owned[m]
  /\ IF x \in used
     THEN /\ log_write(p, m, used \ {x})
          /\ job' = [job EXCEPT ![p] = [map |-> m, item |-> x, delta |-> 1]]
          /\ step' = [step EXCEPT ![p] = "count"]
          /\ todo' = [todo EXCEPT ![p] = @ - 1]
          /\ owned' = [owned EXCEPT ![m] = @ \ {x}]
          /\ UNCHANGED <<sb, sbread, sblock1, torn, crashes>>
     ELSE /\ mode' = Freeing(m)
          /\ UNCHANGED <<durable, cache, pins, lh, outstanding, committing, tail, pc, wrote, fvars>>

\* Fault: the counter is signed.
count_signed(p) ==
  /\ Ready(p, "count")
  /\ sb' = [sb EXCEPT ![job[p].map] = @ + job[p].delta]
  /\ torn' = IF sblock1 = NoProc THEN torn ELSE torn \cup {job[p].map}
  /\ step' = [step EXCEPT ![p] = "updatesb"]
  /\ UNCHANGED <<vars, sbread, sblock1, job, todo, owned, crashes>>

\* The four operations that change a free map.
balloc(p) == mark_used(p, BMAP) \/ out_of_items(p, BMAP)
searchibmap(p) == mark_used(p, IBMAP) \/ out_of_items(p, IBMAP)
bfree(p) == \E b \in DataBlocks : mark_free(p, BMAP, b)
ifree(p) == \E i \in Inums : mark_free(p, IBMAP, i)

\* acquire(&sblock); sb.freeblocks-- (or ++, or freeinodes); release(&sblock).
count(p) ==
  /\ Ready(p, "count")
  /\ sb' = [sb EXCEPT ![job[p].map] = (@ + job[p].delta) % Width]
  /\ torn' = IF sblock1 = NoProc THEN torn ELSE torn \cup {job[p].map}
  /\ step' = [step EXCEPT ![p] = "updatesb"]
  /\ UNCHANGED <<vars, sbread, sblock1, job, todo, owned, crashes>>

\* updatesb: bread(dev, 1) and the start of the memmove from sb.
updatesb_begin(p) ==
  /\ Ready(p, "updatesb") /\ sblock1 = NoProc
  /\ sblock1' = p /\ torn' = {}
  /\ step' = [step EXCEPT ![p] = "memmove"]
  /\ UNCHANGED <<vars, sb, sbread, job, todo, owned, crashes>>

\* Fault: updatesb leaves its block out of the log.
updatesb_end_unlogged(p) ==
  /\ Ready(p, "memmove")
  /\ cache' = [cache EXCEPT ![SBLOCK] = sb]
  /\ sblock1' = NoProc /\ torn' = {}
  /\ step' = [step EXCEPT ![p] =
                IF job[p].delta = -1 /\ job[p].map = BMAP THEN "bzero" ELSE "finish"]
  /\ UNCHANGED <<durable, pins, lh, outstanding, committing, tail, pc, wrote, mode,
                 sb, sbread, job, todo, owned, crashes>>

\* The end of the memmove, log_write and brelse.  memmove copies byte by byte:
\* a counter that changed meanwhile may have been copied as any value.
updatesb_end(p) ==
  /\ Ready(p, "memmove")
  /\ \E copy \in [Maps -> 0..(Width - 1)] :
       /\ \A m \in Maps \ torn : copy[m] = sb[m]
       /\ log_write(p, SBLOCK, copy)
  /\ sblock1' = NoProc /\ torn' = {}
  /\ step' = [step EXCEPT ![p] =
                IF job[p].delta = -1 /\ job[p].map = BMAP THEN "bzero" ELSE "finish"]
  /\ UNCHANGED <<sb, sbread, job, todo, owned, crashes>>

bzero(p) ==
  /\ Ready(p, "bzero")
  /\ log_write(p, job[p].item, "zero")
  /\ step' = [step EXCEPT ![p] = "finish"]
  /\ UNCHANGED <<sb, sbread, sblock1, torn, job, todo, owned, crashes>>

\* Return to the caller, which stores an allocated item in an inode or a
\* directory as part of the same transaction.
finish(p) ==
  /\ Ready(p, "finish")
  /\ owned' = IF job[p].delta = 1 THEN owned
              ELSE [owned EXCEPT ![job[p].map] = @ \cup {job[p].item}]
  /\ step' = [step EXCEPT ![p] = "none"]
  /\ job' = [job EXCEPT ![p] = NoJob]
  /\ UNCHANGED <<vars, sb, sbread, sblock1, torn, todo, crashes>>

----------------------------------------------------------------------------
(* The log's steps.                                                        *)

Transaction(p) ==
  \/ (begin_op(p) \/ begin_op_sleep(p) \/ Commit(p)) /\ UNCHANGED fvars
  \/ /\ step[p] = "none"
     /\ end_op(p)
     /\ todo' = [todo EXCEPT ![p] = OpsPerTxn]
     /\ UNCHANGED <<sb, sbread, sblock1, torn, step, job, owned, crashes>>

----------------------------------------------------------------------------
(* Boot: fsinit reads the superblock, then initlog replays the log.        *)

readsb ==
  /\ mode = "boot" /\ ~sbread
  /\ sb' = bread(SBLOCK)
  /\ cache' = [cache EXCEPT ![SBLOCK] = bread(SBLOCK)]
  /\ sbread' = TRUE
  /\ UNCHANGED <<durable, pins, lh, outstanding, committing, tail, pc, wrote, mode,
                 sblock1, torn, step, job, todo, owned, crashes>>

initlog ==
  /\ sbread
  /\ Recover
  /\ UNCHANGED fvars

\* The inodes and directories that recovery restores are those of the committed
\* transactions, so they refer to the items the committed bitmaps mark.
FCrash ==
  /\ crashes < MaxCrashes
  /\ Crash
  /\ crashes' = crashes + 1
  /\ sb' = [m \in Maps |-> 0] /\ sbread' = FALSE
  /\ sblock1' = NoProc /\ torn' = {}
  /\ step' = [p \in Procs |-> "none"] /\ job' = [p \in Procs |-> NoJob]
  /\ todo' = [p \in Procs |-> OpsPerTxn]
  /\ owned' = [m \in Maps |-> Stable[m]]

\* panic() spins forever.
halted == (\E m \in Maps : mode \in {OutOf(m), Freeing(m)}) /\ UNCHANGED allvars

FNext ==
  \/ \E p \in Procs :
       \/ balloc(p) \/ searchibmap(p) \/ bfree(p) \/ ifree(p)
       \/ count(p) \/ updatesb_begin(p) \/ updatesb_end(p) \/ bzero(p) \/ finish(p)
       \/ Transaction(p)
  \/ readsb \/ initlog \/ FCrash \/ halted

FSpec == FInit /\ [][FNext]_allvars

----------------------------------------------------------------------------
(* Properties.                                                             *)

\* Items a process has marked but not yet handed out, or cleared.
Pending(m, delta) ==
  {job[p].item : p \in {q \in Procs : step[q] # "none" /\ job[q].map = m /\ job[q].delta = delta}}

\* The counters are unsigned and the bitmaps hold items of their map.
FTypeOK ==
  /\ sb \in [Maps -> 0..(Width - 1)]
  /\ sblock1 \in Procs \cup {NoProc} /\ torn \subseteq Maps
  /\ owned \in [Maps -> SUBSET (DataBlocks \cup Inums)]
  /\ \A m \in Maps : bread(m) \subseteq Items(m)
  /\ bread(SBLOCK) \in [Maps -> 0..(Width - 1)]

\* No item is handed out twice and none is lost: the bitmaps that the running
\* operations see mark exactly what is referred to, plus what is being handed
\* out now, each item to one process, whatever the processes' interleaving and
\* wherever a crash has cut earlier transactions; and no free meets a clear bit,
\* bfree's and ifree's panic (balloc, bfree, searchibmap, ifree).
GrantedOnce ==
  /\ \A m \in Maps : mode # Freeing(m)
  /\ mode = "up" =>
       /\ \A m \in Maps :
            /\ bread(m) = owned[m] \cup Pending(m, -1)
            /\ owned[m] \cap Pending(m, -1) = {}
       /\ \A p, q \in Procs :
            /\ p # q /\ step[p] # "none" /\ step[q] # "none"
            /\ job[p].map = job[q].map /\ job[p].delta = -1 /\ job[q].delta = -1
            => job[p].item # job[q].item

Counted(counters, used) == counters = [m \in Maps |-> Cardinality(Items(m) \ used[m])]

\* Every image that a commit leaves on disk has counters equal to the numbers
\* of clear bits in its bitmaps, and so has memory when no operation runs,
\* although updatesb copies sb without sblock and several operations do so at
\* once.  This is up to the first crash; CountersTrue goes beyond it.
CountersCommitted ==
  crashes = 0 =>
    /\ Counted(Stable[SBLOCK], Stable)
    /\ mode = "up" /\ outstanding = 0 => Counted(sb, Current)

\* sb.freeblocks and sb.freeinodes "dynamically record the number of free
\* inodes and disk blocks": with no operation running, the in-memory counters
\* are the numbers of clear bits, after a reboot too.
CountersTrue == mode = "up" /\ outstanding = 0 => Counted(sb, Current)
=============================================================================
