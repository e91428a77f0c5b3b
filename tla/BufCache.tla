------------------------------ MODULE BufCache ------------------------------
(***************************************************************************)
(* The buffer cache of kernel/bio.c with the sleep lock of                 *)
(* kernel/sleeplock.c: NBUF buffers on a list ordered by last use, looked  *)
(* up and recycled by bget, filled by bread, written by bwrite, let go by  *)
(* brelse, and kept by bpin and bunpin as the log does.                    *)
(*                                                                         *)
(* One action is one critical section of bcache.lock or of a sleep lock's  *)
(* spin lock, or one disk transfer.  bget is two critical sections: the    *)
(* reference is counted first and the buffer's lock taken later.  So is    *)
(* brelse: the lock is released first and the reference dropped later.     *)
(***************************************************************************)
EXTENDS Naturals, Sequences, FiniteSets, FiniteSetsExt, SequencesExt

CONSTANTS
  Procs,
  Bufs,      \* the NBUF buffers
  Blocks,    \* disk blocks
  NoBlock,   \* blockno of a buffer never used
  Nobody,    \* no process: an unlocked sleep lock
  Vals       \* contents of a block

ASSUME BufAssumption ==
  /\ IsFiniteSet(Procs) /\ IsFiniteSet(Bufs)
  /\ NoBlock \notin Blocks /\ Nobody \notin Procs

VARIABLES
  disk,      \* contents of the disk
  blockno, valid, refcnt, owner, data,   \* the fields of each buffer
  lru,       \* bcache.head's list, most recently used first
  pc,        \* where each process is
  at,        \* the buffer it is using
  pinned,    \* blocks the log has pinned and not yet installed
  latest,    \* the last contents a process gave each block
  panicked

fields == <<blockno, valid, refcnt, owner, data>>
vars == <<disk, fields, lru, pc, at, pinned, latest, panicked>>

\* The points of a use of a buffer at which its reference is counted.
Using == {"acquire", "asleep", "read", "held", "unref"}
Users(i) == {p \in Procs : pc[p] \in Using /\ at[p] = i}

Init ==
  /\ disk \in [Blocks -> Vals] /\ latest = disk
  /\ blockno = [i \in Bufs |-> NoBlock]
  /\ valid = [i \in Bufs |-> FALSE]
  /\ refcnt = [i \in Bufs |-> 0]
  /\ owner = [i \in Bufs |-> Nobody]
  /\ data \in {[i \in Bufs |-> v] : v \in Vals}
  /\ lru \in SetToSeqs(Bufs)
  /\ pc = [p \in Procs |-> "idle"]
  /\ at \in {[p \in Procs |-> i] : i \in Bufs}
  /\ pinned = {}
  /\ panicked = FALSE

----------------------------------------------------------------------------
(* bget, under bcache.lock.                                                *)

\* Fault: bget finds only buffers that have been filled.
Hits_valid(b) == {k \in 1..Len(lru) : blockno[lru[k]] = b /\ valid[lru[k]]}

Hits(b) == {k \in 1..Len(lru) : blockno[lru[k]] = b}

\* Fault: the search for a buffer to recycle takes one with one user.
Unused_shared == {k \in 1..Len(lru) : refcnt[lru[k]] <= 1}

Unused == {k \in 1..Len(lru) : refcnt[lru[k]] = 0}

Take(p, i) ==
  /\ at' = [at EXCEPT ![p] = i]
  /\ pc' = [pc EXCEPT ![p] = "acquire"]

bget_hit(p, b) ==
  /\ ~panicked /\ pc[p] = "idle" /\ Hits(b) # {}
  /\ LET i == lru[Min(Hits(b))] IN
     /\ refcnt' = [refcnt EXCEPT ![i] = @ + 1]
     /\ Take(p, i)
  /\ UNCHANGED <<disk, blockno, valid, owner, data, lru, pinned, latest, panicked>>

\* Fault: a recycled buffer stays valid.
bget_recycle_valid(p, b) ==
  /\ ~panicked /\ pc[p] = "idle" /\ Hits(b) = {} /\ Unused # {}
  /\ LET i == lru[Max(Unused)] IN
     /\ blockno' = [blockno EXCEPT ![i] = b]
     /\ refcnt' = [refcnt EXCEPT ![i] = 1]
     /\ Take(p, i)
  /\ UNCHANGED <<disk, valid, owner, data, lru, pinned, latest, panicked>>

bget_recycle(p, b) ==
  /\ ~panicked /\ pc[p] = "idle" /\ Hits(b) = {} /\ Unused # {}
  /\ LET i == lru[Max(Unused)] IN
     /\ blockno' = [blockno EXCEPT ![i] = b]
     /\ valid' = [valid EXCEPT ![i] = FALSE]
     /\ refcnt' = [refcnt EXCEPT ![i] = 1]
     /\ Take(p, i)
  /\ UNCHANGED <<disk, owner, data, lru, pinned, latest, panicked>>

bget_panic(p, b) ==
  /\ ~panicked /\ pc[p] = "idle" /\ Hits(b) = {} /\ Unused = {}
  /\ panicked' = TRUE
  /\ UNCHANGED <<disk, fields, lru, pc, at, pinned, latest>>

----------------------------------------------------------------------------
(* The sleep lock, and the transfer that fills the buffer.                 *)

acquiresleep(p) ==
  /\ ~panicked /\ pc[p] = "acquire"
  /\ IF owner[at[p]] # Nobody
     THEN pc' = [pc EXCEPT ![p] = "asleep"] /\ UNCHANGED owner
     ELSE /\ owner' = [owner EXCEPT ![at[p]] = p]
          /\ pc' = [pc EXCEPT ![p] = "read"]
  /\ UNCHANGED <<disk, blockno, valid, refcnt, data, lru, at, pinned, latest, panicked>>

\* Fault: nobody is woken.
releasesleep_silent(p) ==
  /\ owner' = [owner EXCEPT ![at[p]] = Nobody]
  /\ pc' = [pc EXCEPT ![p] = "unref"]

\* releasesleep wakes everybody who sleeps on this lock.
releasesleep(p) ==
  /\ owner' = [owner EXCEPT ![at[p]] = Nobody]
  /\ pc' = [q \in Procs |->
              IF q = p THEN "unref"
              ELSE IF pc[q] = "asleep" /\ at[q] = at[p] THEN "acquire"
              ELSE pc[q]]

\* The rest of bread: if the buffer is not valid, virtio_disk_rw(b, 0).
bread(p) ==
  LET i == at[p] IN
  /\ ~panicked /\ pc[p] = "read"
  /\ data' = [data EXCEPT ![i] = IF valid[i] THEN @ ELSE disk[blockno[i]]]
  /\ valid' = [valid EXCEPT ![i] = TRUE]
  /\ pc' = [pc EXCEPT ![p] = "held"]
  /\ UNCHANGED <<disk, blockno, refcnt, owner, lru, at, pinned, latest, panicked>>

----------------------------------------------------------------------------
(* What the holder of a buffer does with it.                               *)

\* Change the contents and log_write, which calls bpin for a block not yet in
\* the log.
modify(p, v) ==
  LET i == at[p] IN
  /\ ~panicked /\ pc[p] = "held"
  /\ data' = [data EXCEPT ![i] = v]
  /\ latest' = [latest EXCEPT ![blockno[i]] = v]
  /\ refcnt' = IF blockno[i] \in pinned THEN refcnt ELSE [refcnt EXCEPT ![i] = @ + 1]
  /\ pinned' = pinned \cup {blockno[i]}
  /\ UNCHANGED <<disk, blockno, valid, owner, lru, pc, at, panicked>>

\* Fault: the block is unpinned twice.
install_unpins_twice(p) ==
  LET i == at[p] IN
  /\ ~panicked /\ pc[p] = "held" /\ blockno[i] \in pinned
  /\ disk' = [disk EXCEPT ![blockno[i]] = data[i]]
  /\ refcnt' = [refcnt EXCEPT ![i] = @ - 2]
  /\ pinned' = pinned \ {blockno[i]}
  /\ UNCHANGED <<blockno, valid, owner, data, lru, pc, at, latest, panicked>>

\* Fault: the block stays referenced after it is installed.
install_no_unpin(p) ==
  LET i == at[p] IN
  /\ ~panicked /\ pc[p] = "held" /\ blockno[i] \in pinned
  /\ disk' = [disk EXCEPT ![blockno[i]] = data[i]]
  /\ pinned' = pinned \ {blockno[i]}
  /\ UNCHANGED <<blockno, valid, refcnt, owner, data, lru, pc, at, latest, panicked>>

\* The log's install_trans: bwrite of a pinned block, then bunpin.
install(p) ==
  LET i == at[p] IN
  /\ ~panicked /\ pc[p] = "held" /\ blockno[i] \in pinned
  /\ disk' = [disk EXCEPT ![blockno[i]] = data[i]]
  /\ refcnt' = [refcnt EXCEPT ![i] = @ - 1]
  /\ pinned' = pinned \ {blockno[i]}
  /\ UNCHANGED <<blockno, valid, owner, data, lru, pc, at, latest, panicked>>

----------------------------------------------------------------------------
(* brelse: releasesleep, then the reference under bcache.lock.             *)

brelse(p) ==
  /\ ~panicked /\ pc[p] = "held"
  /\ releasesleep(p)
  /\ UNCHANGED <<disk, blockno, valid, refcnt, data, lru, at, pinned, latest, panicked>>

MoveToFront(i) == <<i>> \o SelectSeq(lru, LAMBDA j : j # i)

brelse_unref(p) ==
  LET i == at[p] IN
  /\ ~panicked /\ pc[p] = "unref"
  /\ refcnt' = [refcnt EXCEPT ![i] = @ - 1]
  /\ lru' = IF refcnt[i] = 1 THEN MoveToFront(i) ELSE lru
  /\ pc' = [pc EXCEPT ![p] = "idle"]
  /\ UNCHANGED <<disk, blockno, valid, owner, data, at, pinned, latest, panicked>>

\* panic() spins forever.
halted == panicked /\ UNCHANGED vars

Next ==
  \/ \E p \in Procs :
       \/ \E b \in Blocks : bget_hit(p, b) \/ bget_recycle(p, b) \/ bget_panic(p, b)
       \/ acquiresleep(p) \/ bread(p)
       \/ (\E v \in Vals : modify(p, v)) \/ install(p)
       \/ brelse(p) \/ brelse_unref(p)
  \/ halted

Spec == Init /\ [][Next]_vars

----------------------------------------------------------------------------
(* Properties.                                                             *)

TypeOK ==
  /\ disk \in [Blocks -> Vals] /\ latest \in [Blocks -> Vals]
  /\ blockno \in [Bufs -> Blocks \cup {NoBlock}]
  /\ valid \in [Bufs -> BOOLEAN]
  /\ refcnt \in [Bufs -> Nat]
  /\ owner \in [Bufs -> Procs \cup {Nobody}]
  /\ data \in [Bufs -> Vals]
  /\ pc \in [Procs -> {"idle"} \cup Using]
  /\ at \in [Procs -> Bufs]
  /\ pinned \subseteq Blocks
  /\ panicked \in BOOLEAN

\* A block has at most one buffer (bio.c: "only one copy of a disk block
\* cached"), although bget looks up and recycles while others wait for,
\* fill or let go of theirs.
OneBuffer ==
  \A i, j \in Bufs : blockno[i] = blockno[j] /\ blockno[i] # NoBlock => i = j

\* refcnt counts the processes between bget's and brelse's critical sections,
\* plus the log's pin.
RefcntExact ==
  \A i \in Bufs :
    refcnt[i] = Cardinality(Users(i)) + (IF blockno[i] \in pinned THEN 1 ELSE 0)

\* A process that bread has given a buffer sees what the last holder of the
\* block's buffer left in it, whether the block stayed cached or was written
\* home, recycled and read again.
HolderSeesLatest ==
  \A p \in Procs : pc[p] = "held" => data[at[p]] = latest[blockno[at[p]]]

\* While a process has a buffer in use, bget gives the buffer to no other block.
NotRecycledInUse ==
  [][\A p \in Procs :
       pc[p] \in Using /\ pc'[p] \in Using => at'[p] = at[p] /\ blockno'[at[p]] = blockno[at[p]]]_vars

\* One holder per buffer, and a process asleep in acquiresleep sleeps on a lock
\* that somebody holds and will release.
LockExclusive ==
  \A p, q \in Procs :
    /\ pc[p] \in {"read", "held"} => owner[at[p]] = p
    /\ pc[p] = "asleep" => owner[at[p]] # Nobody
=============================================================================
