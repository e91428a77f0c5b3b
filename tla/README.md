# Verification of the xv6 file system with hashed directories

This directory models the file system of the kernel under `src/src/kernel/` in
TLA+, checks the models with TLC on small instances and proves the central
theorems about the write-ahead log with TLAPS. The kernel is xv6 for RISC-V,
extended with hashed directories, an inode bitmap, free counters in the
superblock, double and triple indirect blocks, symbolic links, file modes, a
recycle bin and extent files.

## The system's parts

| part | source | state it keeps | module | status |
|---|---|---|---|---|
| write-ahead log | `log.c`, `param.h` | `struct log`, the on-disk log | `Log`, `AtomicDisk` | modelled, proved |
| buffer cache, sleep locks | `bio.c`, `sleeplock.c` | LRU list, `refcnt`, `valid`, lock | `BufCache` | modelled |
| free maps, superblock counters | `fs.c` balloc, bfree, searchibmap, ifree, updatesb, fsinit | two bitmaps, `sb`, block 1 | `FreeMap` | modelled |
| file contents | `fs.c` bmap, itrunc, readi, writei | `addrs`, `size`, blocks | `BlockMap` | modelled without the extent branches |
| hashed directories | `fs.c` tree_search, dirlookup, dirlink; `sysfile.c` sys_unlink, isdirempty | slots of a directory | `HTree`, `Directory`, `DirExpand` | modelled, except a crash in the middle of an expansion |
| inode table | `fs.c` iget, ilock, iput, ialloc, iupdate | `itable`, dinodes | `ITable` | modelled for files |
| open files | `file.c`, `sysfile.c` | `ftable`, descriptors, offsets | | planned |
| links, create, open, close | `sysfile.c` | link counts, locks, references | `Links` | modelled for the files of one directory |
| path names, symbolic links, subdirectories | `sysfile.c`, `fs.c` namex | | | planned |
| recycle bin and file modes | `sysfile.c` sys_delete, sys_show; `proc.c` chmode, chspmode | modes, the bin | | planned |
| pipes | `pipe.c` | ring buffer, two ends | | planned |
| disk driver | `virtio_disk.c` | descriptors, rings | | planned |
| processes, scheduling | `proc.c`, `spinlock.c` | process table | | planned |
| console, UART | `console.c`, `uart.c` | two ring buffers | | planned |
| page allocator | `kalloc.c` | free list | | planned |
| mkfs | `mkfs/mkfs.c` | the disk image | (initial state of `FreeMap`) | planned |
| virtual memory, traps, system call dispatch, exec, boot | `vm.c`, `trap.c`, ... | | | not modelled: page table arithmetic and hardware set-up |
| printf, string, ramdisk, assembly | | | | not modelled: formatting, byte copying, register saving |
| user programs | `user/` | | | not modelled: callers; `usertests.c` is read for what the kernel promises |

How they interact. A system call brackets its updates with `begin_op` and
`end_op`. In between it changes cached blocks and calls `log_write`, which pins
the buffer and puts the block number in the in-memory header. The last
operation out commits: data blocks go to the log, then the header (this is the
commit point), then the blocks go home and are unpinned, then the header is
erased. At boot `fsinit` reads the superblock and then has the log replayed.
Above the log, `bmap` and the directories allocate with `balloc`, inodes with
`searchibmap`; both count in the in-memory superblock `sb` and copy it to block
1 with `updatesb` inside the same transaction.

## Modules

### Log and AtomicDisk

`Log` models `log.c` with the part of the cache it relies on: a block's cached
copy (`cache`), its pin (`pins`), and recycling of an unpinned buffer at any time
(`bget_recycle`). One action is one critical section of `log.lock` or one block
transfer, so a `Crash` falls between any two transfers of a commit or of a
recovery, including the recovery from an earlier crash.

| code | model |
|---|---|
| `log.lh`, `outstanding`, `committing` | `lh`, `outstanding`, `committing` |
| header block, log blocks, home blocks | `head`, `logarea`, `disk` |
| loop variable of write_log and install_trans | `tail` |
| where a process is | `pc`: idle, begin, asleep, op, then the phases of commit |
| boot, running, panic message | `mode` |
| begin_op, its two sleeps | `begin_op`, `begin_op_sleep` |
| end_op's two critical sections | `end_op`, `commit_done` |
| commit | `write_log`, `write_head`, `install_trans`, `erase_log` |
| recover_from_log | `read_head`, `replay`, `recover_done` |

`log_write` includes the caller's change of the buffer: no commit can fall in
between, since the caller's operation is outstanding. Block transfers are taken
to be atomic and ordered, which is how `bwrite` (it waits for the device) is used.

`AtomicDisk` is what the log promises: a stable image, the image that operations
see, and the set of running operations. `Commit` moves the current image to the
stable one and is only possible when no operation is running; `Crash` goes back
to the stable image. The refinement mapping gives as stable image what a recovery
started now would produce (`Recovered`: logged blocks from the log, the others
from home), and as current image what `bread` returns.

### BufCache

`bio.c` with `sleeplock.c`: `bget` as lookup (`bget_hit`), recycling from the end of
the LRU list (`bget_recycle`) and panic; the lock is taken in a later step
(`acquiresleep`), as the code drops `bcache.lock` first; `brelse` is
`releasesleep` followed by a second critical section (`brelse_unref`) that moves the
buffer to the front of the list when the last reference goes. `modify` and
`install` are the log's use of `bpin`, `bwrite` and `bunpin`. A process uses one
buffer at a time.

### FreeMap

Composed with `Log`: every change goes to disk through `log_write`. An allocation is
the code's sequence of critical sections: the bit (`mark_used`, under the bitmap
buffer's lock), the counter (`count`, under `sblock`), the copy of `sb` to block 1
(`updatesb_begin` to `updatesb_end`: a `memmove` without `sblock`, which another
process' `count` can fall into; the counter it hits is in `torn` and is logged with
any value), and `bzero` for blocks. `owned` is what inodes and directories refer
to. Counters are unsigned and wrap at `Width`. `readsb` and `initlog` are the two halves
of `fsinit`.

### BlockMap

A block is `BSIZE` words that can be read as data or as pointers. `Path` is bmap's
index arithmetic, `Follow` one level of it with the allocation it does, `writei` and
`writei_fails` the write loop with a copy that succeeds or fails in the middle, `itrunc`
the freeing level by level: `Freed` is its sequence of `bfree` calls, so that a block freed
twice, by one truncation or by two, is the code's panic. readi is `Lookup`, which the properties use. An
operation holds the inode's lock inside a transaction, so it is one action.

### HTree and Directory

The slots of a directory file: `.` and `..`, a leaf of `LEAF` slots per hash value, an
overflow area whose first part is shared with the leaves of the largest hash
values. `Find` is tree_search looking for a name, `Choose` looking for room,
`Place` the expansion that gives a position to a slot not yet written. `BKDRHash`
is a constant function of the name, except that for a name of `DIRSIZ` characters it also
depends on the bytes after it. `Directory` is a map from names to inode numbers with
lookup, link and unlink; `HTree` refines it.

### DirExpand

`sys_link` of a name for which the directory must grow, on top of `Log`.
`contiguous_block_allocation` calls `balloc` (three calls of `log_write`) block after block and asks
`if_log_full` after each: after a direct block and after the block of pointers whether no
log block is left (`check_log_full`), after an indirect block whether one is left
(`check_free`; the pointers are logged first). If so it ends its operation and begins another
(`restart`) with the directory's lock still held. `at[p]` is the place in the call, `to` and `blk` the block
wanted and the block being allocated, `dlock` the directory's lock. Crashes and evictions of
`Log` are not taken here.

### ITable and Links

`ITable` is the table of in-memory inodes: `itable[s]` has an entry's `inum`, `ref`, `valid` and
the fields read from disk (of which `type` and `nlink` are kept), `holder[s]` its sleep lock.
`iget` is one critical section of `itable.lock`. `ilock` waits for the lock and then reads the
inode if it is not valid (`ilock_read`). `iput` is the code's sequence: test and
lock under `itable.lock`, `itrunc`, `ifree`, invalidate and unlock, and the decrement under
`itable.lock` again; other processes run in between. Were its `acquiresleep` to wait with
`itable.lock` held, the scheduler would panic ("sched locks"), and so does the model.

`Links` is the system calls that use it on the files of one directory: `sys_open` of a file that
exists, `create`, `sys_close`, `sys_unlink` and `sys_link`. `at[p]` is the place in the system call,
`pc[p]` the place in `ilock` or `iput` it has called. The directory's inode is always
referenced, so only its lock `dlock` is kept. `name` and `num` are locals of create and unlink; `saved` is `sys_link`'s
inode while its `dirlink` has found the name taken and puts back the inode it got for it. An
`sys_open` that fails, for lack of a descriptor or for a wrong password, puts its inode back; that
the wrong password also leaves the descriptor taken is not kept, since it refers to no inode.

## Runs

| run | instance | what it shows |
|---|---|---|
| `log` | 2 processes, 3 blocks, 2 values, operations of 2 blocks in a log of 3 | refinement of `AtomicDisk`; the inductive invariant; pins, durability, exclusion, wakeups; when the panic of `log_write` can be met; sleepers are woken if operations end, commits and recovery end |
| `bufcache` | 3 processes, 2 buffers, 3 blocks, 2 values | one buffer per block, exact reference counts, the holder sees the latest contents, no recycling in use |
| `freemap` | 2 processes, 2 blocks, 1 inode, an allocation or a free per transaction, 1 crash | nothing granted twice or lost, also across a crash; committed counters agree with committed bitmaps until the first crash |
| `freemap_boot` | the same | violation: counters after a crash |
| `blockmap` | 2 files, 1 direct pointer, blocks of 2 words, 27 blocks | contents read back, no sharing, no leak, no double free |
| `blockmap_triple` | 1 file that reaches the triple indirect level and is truncated | violation: the triple indirect pointer stays |
| `expand` | 2 processes, MAXOPBLOCKS 3, LOGSIZE 6, a directory of 1 to 4 blocks, 2 of them direct | violation: a sleeper in `begin_op` and a waiter for the directory's lock wait for each other |
| `htree` | 5 names, 4 with one hash, one leaf inside the overflow area | the directory is a map; a name is in one slot; dots stay |
| `htree_full` | leaf and overflow area too small | violation: `.` is overwritten |
| `htree_long` | a name of DIRSIZ characters | violation: a linked name is not found |
| `links` | 3 processes, 2 names, 2 inodes, 2 table entries | exact references and link counts, one entry per inode, no inode freed under a reference, no panic, no circle of waiters |
| `links_orphan` | 2 processes | violation: an inode stays allocated without name or reference |

Every property of a passing run is also checked against a faulty version of the
code (the definitions marked `Fault:`), which violates it.

### Why the bounds are enough

* `log`: two processes allow one that commits and one that arrives or sleeps, and two
  reservations at once; three blocks in a log with three data slots allow absorption, a full
  log, the panic, and commits of one to three blocks, with a crash at every index. Two
  reservations fill `LOGSIZE` and overrun the log by the one block between `LOGSIZE` and
  `log.size - 1`, so the panic is met exactly at the boundary. There is no symmetry, because
  of the liveness properties. The safety properties are proved for any number of processes
  and blocks.
* `expand`: the kernel has MAXOPBLOCKS 15 and a log of 44 blocks and lets a directory grow by
  more than that at once; 3 and 5 keep the proportion (an expansion fills the log, two
  operations are admitted at first and not after a restart).
* `bufcache`: fewer buffers than blocks forces recycling, more processes than buffers
  forces the panic and lock waits.
* `freemap`: two allocations can be in flight at once with both maps, `updatesb` of
  one interleaves with `count` of the other, transactions of both processes are committed
  together, both maps run out, and a crash falls anywhere. The blocks of
  the log that no header names are left out of the state by a `VIEW`: nothing reads
  them before they are written.
* `blockmap`: with 2 words a block all of bmap's ranges have more than one block and
  every boundary is crossed; file 1 grows to `MAXFILE`. File 2 competes for blocks
  while at most `Crowd` are in use, and the disk is one block too small for both, so
  balloc's panic is reached. The `VIEW` drops the words of free blocks, which balloc
  zeroes. Truncation from the triple level is the subject of `blockmap_triple`.
* `htree`: four names of one hash overflow a leaf of two into the overflow area, and
  room appears in the leaf again after a removal; the fifth name's leaf lies in the
  overflow area. `htree` has room for all names, the run `htree_full` does not.

* `links`: three processes allow one in the middle of `iput`, one that is given the same
  inode number, and one that opens or links it; two names allow a hard link and a link that
  fails; numbers are handed out again at once because there are only two. The panic for
  lack of inodes is reached.

### Fairness

`FairSpec` of `Log` assumes weak fairness of: a process woken in `begin_op` (it is
runnable, and the scheduler is round robin), the committer and recovery. Nothing is
assumed about processes calling `begin_op`, about crashes or evictions, or about `end_op`: an
operation can wait for a lock, and whether it gets it is not the log's business. So `SleeperWakes` has the
end of operations as a hypothesis (`OperationsEnd`), and `expand` shows a caller that breaks it.
Recovery ends only if crashes stop, which the property states. There is no fairness that an
admitted sleeper gets in: the code does not give it, and only being woken is claimed.

`DSpec` of `DirExpand` is more generous, so that the circle it ends in is not a process that merely
stopped: whoever is in the system call keeps running (weak fairness), and whoever waits
for the directory's lock gets it if it is free again and again (strong fairness).

## What is proved

`LogProofs`, `LogRefinement` and `LogPanic` hold for every finite set of processes, every set of
blocks and of values, and every `MAXOPBLOCKS`, `LOGSIZE`, `NLOG` and `MaxWrites` satisfying
`LogAssumption` (finitely many processes; the absent mark is no block content; sizes are
naturals, and one reservation fits the log). The first two do not assume that an operation stays
within its reservation: a panic of `log_write` is a step of the specification and the
theorems hold through it.

| theorem | statement |
|---|---|
| `Invariance` | `Spec => []IInv` |
| `TypeCorrect` | `Spec => []TypeOK` |
| `PinSafety` | a buffer that may be recycled agrees with the disk; a logged one stays until installed |
| `QuietDurability` | with no operation and no commit running, everything ended is on disk, the log is empty |
| `MutualExclusion` | `outstanding` counts operations; a commit excludes operations and other commits |
| `NoLostWakeup` | a sleeper in `begin_op` has somebody left to wake it |
| `PanicTheorem` | under `Sized`, `log_write` panics only for a full log, and only when every running operation has logged all but one of the blocks it reserved, or all |
| `PinsLeaveRoom` | if the log is no larger than `LOGSIZE`, fewer than `LOGSIZE` buffers are pinned |
| `Refinement` | `Spec => AtomicTransactions`: the log implements the atomic disk |

None of the safety properties is inductive. `IInv` adds what they need: `BootInv` (during
recovery no process runs, `lh` is the header read from disk and the index is in range),
`ControlInv` (exclusion itself), `HeaderInv` (blocks in a header are distinct; the header
on disk equals the one in memory exactly while blocks are installed or about to be erased,
and is empty otherwise), `LogAreaInv` (what has been copied to the log agrees
with the cache, what has been installed agrees with the log) and `PinInv` (the pinned
blocks are exactly the logged ones not yet installed). Distinctness is what makes
installing in any prefix order harmless; `LogAreaInv` is what makes the header write move the
stable image to the current one in a single step, and every other transfer
leave the stable image unchanged (`CopyKeepsStable`, `EraseKeepsStable`). The proof of
`NextInv` has a lemma per action, as does that of `StepRefines`.

`LogPanic` proves `PanicTheorem` and `PinsLeaveRoom`. `Sized` says that the log on disk has at least `LOGSIZE`
blocks and that an operation logs at most `MAXOPBLOCKS`. The theorem is a counting argument:
the blocks in the log and what the running operations may still log stay within `LOGSIZE` (`RInv`),
since `begin_op` admits an operation only if all reservations still fit; when the log is full
at `LOGSIZE - 1`, at most one block of all reservations is left. `PinsLeaveRoom` matters because
`NBUF = LOGSIZE`: the log's pins alone do not exhaust the buffer cache, but the buffers that
processes hold beside them can, and `bget` then panics.

Only model-checked: liveness (fairness and ENABLED are beyond the prover) and everything about `BufCache`, `FreeMap`, `BlockMap`, `HTree`, `DirExpand`, `ITable` and `Links`.

## Where the code and its documentation disagree

1. `freemap_boot`: `fsinit` reads the superblock before the log is replayed, so after a
   crash between commit and installation the in-memory counters are stale, and the next `updatesb`
   writes them back (`fs.c:57`).
2. `blockmap_triple`: `itrunc` frees and clears `addrs[NDIRECT + 1]` at the end of the triple
   level instead of `addrs[NDIRECT + 2]` (`fs.c:733`).
3. `htree_full`: `dirlink` writes at offset 0 when `tree_search` finds no room (`fs.c:1304`).
4. `htree_long`: `BKDRHash` reads past a name of `DIRSIZ` characters (`fs.c:848`).
5. `links_orphan`: between `ifree` and the last `ip->ref--` of `iput` the number can be handed out
   again, and its new user's `iput` does not free it because of the reference that is about
   to go (`fs.c:442`).
6. `expand`: an expansion of a directory ends its operation and begins another with the
   directory's inode locked (`fs.c:918`, `fs.c:983`). It can then sleep in `begin_op` for a commit that
   never comes, because an outstanding operation waits for that lock; the comment on
   `begin_op` says it sleeps until the last outstanding `end_op` commits (`log.c:21`).

`begin_op` reserves against `LOGSIZE` while `log_write` panics at `log.size - 1` (`log.c:220`), one block
less, and tests before it looks for the block in the log. So operations that all used their
`MAXOPBLOCKS` would panic; `PanicMeansSpent` says that this is the only way.

## What is left out of the models above

* Extent branches of bmap, itrunc and `contiguous_block_allocation`: `sys_open` tests
  `omode == O_EXTENT` inside `if(omode & O_CREATE)`, so no extent file can be created.
* A transaction's blocks in `BlockMap` and `HTree`: an operation is one action there.
  The operations that an expansion ends and begins in the middle are in `DirExpand`, without the
  contents of the directory and without crashes.
* In `BlockMap` a word of a file always gets the same value, so the buffer changed without
  `log_write` by a copy that fails half way (`fs.c:810`) is not observable.
* More than one bitmap block, byte-level layout, and disk errors (the driver panics on them).

## Plan

In this order, each with a type invariant, the hazards listed in `PROJECT.json` and a
passing run:

1. `DirExpand` with crashes: what a crash after a commit in the middle leaves of half a system
   call. `WriteBudget`: the blocks a chunk of filewrite logs, with the real constants.
2. `Links` with subdirectories (`sys_mkdir`, `sys_chdir`, `idup`, namex over several elements, a
   directory unlinked while a path through it is resolved), symbolic links, and the recycle bin:
   `sys_delete` locks the file before the directory and drops no reference, `sys_show`, `chmode` and
   `chspmode` drop none either.
3. `OpenFiles`: ftable and descriptor tables with fork, dup, close, the offset, modes and
   passwords, `O_APPEND`, filewrite's several transactions.
4. `Process`: sleep and wakeup with the process table, fork, exit, wait, kill; `Pipe` on top of it;
   `Virtio`: descriptors, the interrupt and the sleepers; `Console` and `Kalloc`.
5. `Mkfs`: the image it writes satisfies what `FreeMap`, `BlockMap` and `HTree` start from.
6. Proofs: `OneBuffer`, `RefcntExact` and `NotRecycledInUse` of `BufCache` for any number of
   buffers and processes; `RefExact`, `OneEntry`, `LinkCount` and `FreedAlone` of `Links`; `HTree` implements `Directory`;
   `GrantedOnce` of `FreeMap`; the sleep/wakeup protocol.
