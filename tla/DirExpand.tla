----------------------------- MODULE DirExpand -----------------------------
(***************************************************************************)
(* A system call that links a name (sys_link with dirlink) while the       *)
(* directory has to grow for it: contiguous_block_allocation logs one      *)
(* block after the other and, when the log is full, ends its operation and *)
(* begins another in the middle, with the directory's inode locked.  The   *)
(* log is that of module Log; its crashes and evictions are left out here. *)
(*                                                                         *)
(* The directory's blocks are numbered in the order they are allocated:    *)
(* direct blocks, block NDIRECT with the indirect pointers, data blocks.   *)
(***************************************************************************)
EXTENDS Log

CONSTANTS
  NDIRECT,      \* direct blocks of an inode
  MaxBlock,     \* number of the last block a directory can have
  FirstBlocks   \* blocks the directory has at the start

VARIABLES
  at,           \* where each process is in sys_link
  to,           \* the block that holds the entry it adds
  blk,          \* block_id, the next block it allocates
  size,         \* blocks the directory has
  dlock         \* the process that holds the directory's lock, if any

locals == <<to, blk, size, dlock>>
dvars == <<vars, at, locals>>

\* Blocks of the disk: superblock, inodes, bitmap, then the directory's.
SB == 1
IBLOCK == 2
BMAP == 3
Home(i) == 4 + i

DInit ==
  /\ Init
  /\ at = [p \in Procs |-> "idle"]
  /\ to = [p \in Procs |-> 0]
  /\ blk = [p \in Procs |-> 0]
  /\ size = FirstBlocks
  /\ dlock = {}

Goto(p, place) == at' = [at EXCEPT ![p] = place]

Begins(p, here, next) ==
  /\ at[p] = here
  /\ \/ begin_op(p) /\ Goto(p, next)
     \/ begin_op_sleep(p) /\ UNCHANGED at
  /\ UNCHANGED locals

Ends(p, here, next) ==
  /\ at[p] = here
  /\ end_op(p) /\ Goto(p, next)
  /\ UNCHANGED locals

Logs(p, b, here, next) ==
  /\ at[p] = here
  /\ \/ (\E v \in Vals : log_write(p, b, v)) /\ Goto(p, next)
     \/ log_write_panic(p, b) /\ UNCHANGED at
  /\ UNCHANGED locals

----------------------------------------------------------------------------
\* ip->nlink++ and iupdate, before the directory is locked.
sys_link(p) ==
  \/ Begins(p, "idle", "nlink")
  \/ Logs(p, IBLOCK, "nlink", "ilock")

\* The lock, and tree_search for a free entry: it lies in a block the directory
\* has, beyond its size in the last one, or in a block it does not have yet.
ilock(p) ==
  /\ mode = "up" /\ pc[p] = "op" /\ at[p] = "ilock"
  /\ dlock = {} /\ dlock' = {p}
  /\ \E b \in (0..MaxBlock) \ {NDIRECT} :
       /\ to' = [to EXCEPT ![p] = b]
       /\ blk' = [blk EXCEPT ![p] = size]
       /\ \/ b < size /\ Goto(p, "writei")
          \/ b = size - 1 /\ Goto(p, "memset")
          \/ b >= size /\ Goto(p, "balloc")
  /\ UNCHANGED <<vars, size>>

\* The bitmap, the superblock's counter, and the zeroed block.
balloc(p) ==
  \/ Logs(p, BMAP, "balloc", "updatesb")
  \/ Logs(p, SB, "updatesb", "bzero")
  \/ Logs(p, Home(blk[p]), "bzero", "check")

if_log_full == (IF LOGSIZE < NLOG - 1 THEN LOGSIZE ELSE NLOG - 1) - Len(lh)

\* The next allocation, or what follows the last one.
Continue(p) ==
  IF blk[p] < to[p] THEN "balloc" ELSE IF to[p] > NDIRECT THEN "pointers" ELSE "memset"

NextBlock(p) ==
  /\ blk' = [blk EXCEPT ![p] = @ + 1]
  /\ UNCHANGED <<to, size, dlock>>

\* After a direct block and after the block of pointers.
check_log_full(p) ==
  /\ mode = "up" /\ at[p] = "check" /\ blk[p] <= NDIRECT
  /\ IF if_log_full = 0 THEN Goto(p, "full") /\ UNCHANGED locals
                        ELSE Goto(p, Continue(p)) /\ NextBlock(p)
  /\ UNCHANGED vars

\* After an indirect block: the block of pointers is logged before the restart.
check_free(p) ==
  /\ mode = "up" /\ at[p] = "check" /\ blk[p] > NDIRECT
  /\ IF if_log_full = 1 THEN Goto(p, "flush") /\ UNCHANGED locals
                        ELSE Goto(p, Continue(p)) /\ NextBlock(p)
  /\ UNCHANGED vars

\* end_op(); begin_op(): the directory stays locked.
restart(p) ==
  \/ Logs(p, Home(NDIRECT), "flush", "full")
  \/ Ends(p, "full", "reopen")
  \/ Begins(p, "reopen", "reopened")
  \/ /\ mode = "up" /\ at[p] = "reopened"
     /\ Goto(p, Continue(p)) /\ NextBlock(p)
     /\ UNCHANGED vars

contiguous_block_allocation(p) ==
  \/ balloc(p) \/ check_log_full(p) \/ check_free(p) \/ restart(p)
  \/ Logs(p, Home(NDIRECT), "pointers", "memset")

\* The rest of tree_expand: the old last block is cleared beyond the old size
\* unless that was a multiple of BSIZE, and the inode gets the new size.
tree_expand(p) ==
  \/ Logs(p, Home(size - 1), "memset", "resize")
  \/ /\ mode = "up" /\ at[p] \in {"memset", "resize"}
     /\ size' = IF to[p] < size THEN size ELSE to[p] + 1
     /\ Goto(p, "iupdate")
     /\ UNCHANGED <<vars, to, blk, dlock>>
  \/ Logs(p, IBLOCK, "iupdate", "writei")

\* The entry and the inode; then iunlockput(dp) and end_op().
dirlink(p) ==
  \/ Logs(p, Home(to[p]), "writei", "writei_iupdate")
  \/ Logs(p, IBLOCK, "writei_iupdate", "iunlock")
  \/ /\ mode = "up" /\ at[p] = "iunlock"
     /\ dlock' = {} /\ Goto(p, "end")
     /\ UNCHANGED <<vars, to, blk, size>>
  \/ Ends(p, "end", "idle")

\* Everything a process does once it has called begin_op, but for the lock.
Run(p) ==
  \/ (pc[p] = "begin" \/ at[p] # "idle") /\ sys_link(p)
  \/ contiguous_block_allocation(p) \/ tree_expand(p) \/ dirlink(p)
  \/ Commit(p) /\ UNCHANGED <<at, locals>>

Boot == Recover /\ UNCHANGED <<at, locals>>

DNext == Boot \/ \E p \in Procs : sys_link(p) \/ ilock(p) \/ Run(p)

\* A process in a system call keeps running, and who waits for the directory's
\* lock gets it if it is released again and again.
DSpec ==
  /\ DInit /\ [][DNext]_dvars
  /\ WF_dvars(Boot)
  /\ \A p \in Procs : WF_dvars(Run(p)) /\ SF_dvars(ilock(p))

----------------------------------------------------------------------------
\* Whoever sleeps in begin_op because the log is close to running out, sleeps
\* until the last outstanding operation ends and commits (log.c, the comment on
\* begin_op), not for ever.
SleepsUntilCommit == \A p \in Procs : []<>(pc[p] # "asleep" \/ mode \in Panics)
=============================================================================
