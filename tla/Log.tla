-------------------------------- MODULE Log --------------------------------
(***************************************************************************)
(* The write-ahead log of kernel/log.c, with the part of the buffer cache  *)
(* it depends on (a block's cached copy, and the pin that keeps it there), *)
(* the disk under both, and the crash and recovery the log is for.         *)
(*                                                                         *)
(* Each action is one critical section of log.lock, or one disk block      *)
(* transfer of commit() and recover_from_log(): a crash can fall between   *)
(* any two of them.  A block transfer is taken to be atomic, and bwrite    *)
(* returns only when the device has finished, so transfers are ordered.    *)
(***************************************************************************)
EXTENDS Naturals, Sequences, FiniteSets

CONSTANTS
  Procs,        \* processes that make file system calls
  Blocks,       \* home locations: the disk's blocks outside the log
  Vals,         \* contents a block can have
  Absent,       \* marks a block that has no buffer
  MAXOPBLOCKS,  \* blocks begin_op reserves for one operation
  LOGSIZE,      \* block numbers the log header has room for
  NLOG,         \* log.size: blocks of the on-disk log, its header included
  MaxWrites     \* distinct blocks one operation really logs

ASSUME LogAssumption ==
  /\ IsFiniteSet(Procs)
  /\ Absent \notin Vals
  /\ MAXOPBLOCKS \in Nat \ {0}
  /\ LOGSIZE \in Nat /\ MAXOPBLOCKS <= LOGSIZE
  /\ NLOG \in Nat \ {0}
  /\ MaxWrites \in Nat

VARIABLES
  disk,         \* home blocks on disk
  logarea,      \* the data blocks of the on-disk log
  head,         \* the block numbers in the on-disk header (its n is Len(head))
  cache,        \* the buffer cache's copy of a home block, or Absent
  pins,         \* references bpin holds on a block's buffer
  lh,           \* log.lh, the in-memory header
  outstanding,  \* log.outstanding
  committing,   \* log.committing
  tail,         \* loop variable of write_log and install_trans
  pc,           \* where each process is in begin_op, its operation or end_op
  wrote,        \* blocks each running operation has logged
  mode          \* boot progress, "up", or the panic message

durable == <<disk, logarea, head>>
vars == <<disk, logarea, head, cache, pins, lh, outstanding, committing,
          tail, pc, wrote, mode>>

Committer == {"write_log", "write_head", "install", "erase", "done"}
Booting == {"boot", "replay", "erase"}
Panics == {"too big a transaction", "log_write outside of trans", "log.committing"}

Capacity == NLOG - 1            \* data blocks that fit in the on-disk log
Logged == {lh[i] : i \in 1..Len(lh)}

\* What bread(b) returns: the buffer if there is one, else the disk's copy.
bread(b) == IF cache[b] = Absent THEN disk[b] ELSE cache[b]

\* wakeup(&log): every process sleeping in begin_op runs its loop again.
wakeup(f) == [p \in Procs |-> IF f[p] = "asleep" THEN "begin" ELSE f[p]]

Init ==
  /\ disk \in [Blocks -> Vals]
  /\ \E zero \in Vals : logarea = [i \in 1..Capacity |-> zero]
  /\ head = <<>>
  /\ cache = [b \in Blocks |-> Absent]
  /\ pins = [b \in Blocks |-> 0]
  /\ lh = <<>>
  /\ outstanding = 0
  /\ committing = FALSE
  /\ tail = 0
  /\ pc = [p \in Procs |-> "idle"]
  /\ wrote = [p \in Procs |-> {}]
  /\ mode = "boot"

----------------------------------------------------------------------------
(* Running operations.                                                     *)

\* Fault: the reservation forgets the operation that is about to start.
Full_uncounted == Len(lh) + outstanding * MAXOPBLOCKS > LOGSIZE

Full == Len(lh) + (outstanding + 1) * MAXOPBLOCKS > LOGSIZE

begin_op(p) ==
  /\ mode = "up" /\ pc[p] \in {"idle", "begin"}
  /\ ~committing /\ ~Full
  /\ outstanding' = outstanding + 1
  /\ pc' = [pc EXCEPT ![p] = "op"]
  /\ UNCHANGED <<durable, cache, pins, lh, committing, tail, wrote, mode>>

\* The other branches of begin_op's loop: sleep(&log, &log.lock).
begin_op_sleep(p) ==
  /\ mode = "up" /\ pc[p] \in {"idle", "begin"}
  /\ committing \/ Full
  /\ pc' = [pc EXCEPT ![p] = "asleep"]
  /\ UNCHANGED <<durable, cache, pins, lh, outstanding, committing, tail, wrote, mode>>

TooBig == Len(lh) >= LOGSIZE \/ Len(lh) >= NLOG - 1

\* The caller may log b: it stays within what one operation writes.
MayLog(p, b) ==
  /\ mode = "up" /\ pc[p] = "op"
  /\ Cardinality(wrote[p] \cup {b}) <= MaxWrites

\* Fault: log_write without bpin.
log_write_unpinned(p, b, v) ==
  /\ MayLog(p, b)
  /\ ~TooBig /\ outstanding >= 1
  /\ cache' = [cache EXCEPT ![b] = v]
  /\ wrote' = [wrote EXCEPT ![p] = @ \cup {b}]
  /\ lh' = IF b \in Logged THEN lh ELSE Append(lh, b)
  /\ UNCHANGED <<durable, pins, outstanding, committing, tail, pc, mode>>

\* The caller, holding b's buffer, sets its contents to v and calls log_write.
\* No commit can run in between, so the two are one step.
log_write(p, b, v) ==
  /\ MayLog(p, b)
  /\ ~TooBig /\ outstanding >= 1
  /\ cache' = [cache EXCEPT ![b] = v]
  /\ wrote' = [wrote EXCEPT ![p] = @ \cup {b}]
  /\ IF b \in Logged                              \* log absorption
     THEN UNCHANGED <<lh, pins>>
     ELSE /\ lh' = Append(lh, b)
          /\ pins' = [pins EXCEPT ![b] = @ + 1]   \* bpin
  /\ UNCHANGED <<durable, outstanding, committing, tail, pc, mode>>

log_write_panic(p, b) ==
  /\ MayLog(p, b)
  /\ TooBig \/ outstanding < 1
  /\ mode' = IF TooBig THEN "too big a transaction" ELSE "log_write outside of trans"
  /\ UNCHANGED <<durable, cache, pins, lh, outstanding, committing, tail, pc, wrote>>

\* Fault: the last operation out never calls commit().
end_op_no_commit(p) ==
  /\ mode = "up" /\ pc[p] = "op"
  /\ outstanding' = outstanding - 1
  /\ wrote' = [wrote EXCEPT ![p] = {}]
  /\ pc' = wakeup([pc EXCEPT ![p] = "idle"])
  /\ UNCHANGED <<durable, cache, pins, lh, committing, tail, mode>>

\* Fault: commit() runs without log.committing set.
end_op_unannounced(p) ==
  /\ mode = "up" /\ pc[p] = "op"
  /\ outstanding' = outstanding - 1
  /\ wrote' = [wrote EXCEPT ![p] = {}]
  /\ tail' = 0
  /\ pc' = wakeup([pc EXCEPT ![p] =
             IF outstanding > 1 THEN "idle" ELSE IF lh = <<>> THEN "done" ELSE "write_log"])
  /\ UNCHANGED <<durable, cache, pins, lh, committing, mode>>

\* The critical section of end_op; the last operation out goes on to commit().
end_op(p) ==
  /\ mode = "up" /\ pc[p] = "op"
  /\ outstanding' = outstanding - 1
  /\ mode' = IF committing THEN "log.committing" ELSE mode
  /\ wrote' = [wrote EXCEPT ![p] = {}]
  /\ IF outstanding = 1
     THEN /\ committing' = TRUE
          /\ tail' = 0
          /\ pc' = [pc EXCEPT ![p] = IF lh = <<>> THEN "done" ELSE "write_log"]
     ELSE /\ pc' = wakeup([pc EXCEPT ![p] = "idle"])
          /\ UNCHANGED <<committing, tail>>
  /\ UNCHANGED <<durable, cache, pins, lh>>

----------------------------------------------------------------------------
(* commit(), one disk transfer at a time.                                  *)

\* Advance a loop over lh.block: the next iteration, or the step after it.
Advance(p, here, next) ==
  /\ tail' = IF tail + 1 < Len(lh) THEN tail + 1 ELSE 0
  /\ pc' = [pc EXCEPT ![p] = IF tail + 1 < Len(lh) THEN here ELSE next]

\* Fault: blocks are installed before the header is written.
write_log_then_install(p) ==
  /\ mode = "up" /\ pc[p] = "write_log"
  /\ logarea' = [logarea EXCEPT ![tail + 1] = bread(lh[tail + 1])]
  /\ cache' = [cache EXCEPT ![lh[tail + 1]] = bread(lh[tail + 1])]
  /\ Advance(p, "write_log", "install")
  /\ UNCHANGED <<disk, head, pins, lh, outstanding, committing, wrote, mode>>

write_log(p) ==
  /\ mode = "up" /\ pc[p] = "write_log"
  /\ LET b == lh[tail + 1] IN
     /\ logarea' = [logarea EXCEPT ![tail + 1] = bread(b)]
     /\ cache' = [cache EXCEPT ![b] = bread(b)]
  /\ Advance(p, "write_log", "write_head")
  /\ UNCHANGED <<disk, head, pins, lh, outstanding, committing, wrote, mode>>

\* Write the header: "the real commit".
write_head(p) ==
  /\ mode = "up" /\ pc[p] = "write_head"
  /\ head' = lh
  /\ pc' = [pc EXCEPT ![p] = "install"]
  /\ UNCHANGED <<disk, logarea, cache, pins, lh, outstanding, committing, tail, wrote, mode>>

\* One iteration's copy from the log to the home location, through its buffer.
CopyHome ==
  LET b == lh[tail + 1] IN
  /\ cache' = [cache EXCEPT ![b] = logarea[tail + 1]]
  /\ disk' = [disk EXCEPT ![b] = logarea[tail + 1]]

install_trans(p) ==
  /\ mode = "up" /\ pc[p] = "install"
  /\ CopyHome
  /\ pins' = [pins EXCEPT ![lh[tail + 1]] = @ - 1]   \* bunpin
  /\ Advance(p, "install", "erase")
  /\ UNCHANGED <<logarea, head, lh, outstanding, committing, wrote, mode>>

\* Fault: the header on disk is not erased.
erase_log_in_memory(p) ==
  /\ mode = "up" /\ pc[p] = "erase"
  /\ lh' = <<>>
  /\ pc' = [pc EXCEPT ![p] = "done"]
  /\ UNCHANGED <<durable, cache, pins, outstanding, committing, tail, wrote, mode>>

\* log.lh.n = 0; write_head(): "erase the transaction from the log".
erase_log(p) ==
  /\ mode = "up" /\ pc[p] = "erase"
  /\ lh' = <<>>
  /\ head' = <<>>
  /\ pc' = [pc EXCEPT ![p] = "done"]
  /\ UNCHANGED <<disk, logarea, cache, pins, outstanding, committing, tail, wrote, mode>>

\* Fault: no wakeup after a commit.
commit_done_silent(p) ==
  /\ mode = "up" /\ pc[p] = "done"
  /\ committing' = FALSE
  /\ pc' = [pc EXCEPT ![p] = "idle"]
  /\ UNCHANGED <<durable, cache, pins, lh, outstanding, tail, wrote, mode>>

\* Fault: log.committing is not reset.
commit_done_stuck(p) ==
  /\ mode = "up" /\ pc[p] = "done"
  /\ pc' = wakeup([pc EXCEPT ![p] = "idle"])
  /\ UNCHANGED <<durable, cache, pins, lh, outstanding, committing, tail, wrote, mode>>

\* The second critical section of end_op.
commit_done(p) ==
  /\ mode = "up" /\ pc[p] = "done"
  /\ committing' = FALSE
  /\ pc' = wakeup([pc EXCEPT ![p] = "idle"])
  /\ UNCHANGED <<durable, cache, pins, lh, outstanding, tail, wrote, mode>>

----------------------------------------------------------------------------
(* The buffer cache: a miss fills a buffer, and an unpinned buffer nobody  *)
(* holds may be recycled at any time (bio.c, bget).                        *)

bread_miss(b) ==
  /\ mode = "up" /\ cache[b] = Absent
  /\ cache' = [cache EXCEPT ![b] = disk[b]]
  /\ UNCHANGED <<durable, pins, lh, outstanding, committing, tail, pc, wrote, mode>>

bget_recycle(b) ==
  /\ mode \notin Panics
  /\ cache[b] # Absent /\ pins[b] = 0
  /\ cache' = [cache EXCEPT ![b] = Absent]
  /\ UNCHANGED <<durable, pins, lh, outstanding, committing, tail, pc, wrote, mode>>

----------------------------------------------------------------------------
(* Crash, and recover_from_log() at the next boot.                         *)

Crash ==
  /\ cache' = [b \in Blocks |-> Absent]
  /\ pins' = [b \in Blocks |-> 0]
  /\ lh' = <<>>
  /\ outstanding' = 0
  /\ committing' = FALSE
  /\ tail' = 0
  /\ pc' = [p \in Procs |-> "idle"]
  /\ wrote' = [p \in Procs |-> {}]
  /\ mode' = "boot"
  /\ UNCHANGED durable

read_head ==
  /\ mode = "boot"
  /\ lh' = head
  /\ mode' = IF head = <<>> THEN "erase" ELSE "replay"
  /\ UNCHANGED <<durable, cache, pins, outstanding, committing, tail, pc, wrote>>

\* Fault: recovery unpins blocks it never pinned.
replay_unpins ==
  /\ mode = "replay"
  /\ CopyHome
  /\ pins' = [pins EXCEPT ![lh[tail + 1]] = @ - 1]
  /\ tail' = IF tail + 1 < Len(lh) THEN tail + 1 ELSE 0
  /\ mode' = IF tail + 1 < Len(lh) THEN "replay" ELSE "erase"
  /\ UNCHANGED <<logarea, head, lh, outstanding, committing, pc, wrote>>

\* Fault: the loop over the header's blocks never advances.
replay_stuck ==
  /\ mode = "replay"
  /\ CopyHome
  /\ UNCHANGED <<logarea, head, pins, lh, outstanding, committing, tail, pc, wrote, mode>>

\* install_trans(1): as in a commit, but nothing was pinned.
replay ==
  /\ mode = "replay"
  /\ CopyHome
  /\ tail' = IF tail + 1 < Len(lh) THEN tail + 1 ELSE 0
  /\ mode' = IF tail + 1 < Len(lh) THEN "replay" ELSE "erase"
  /\ UNCHANGED <<logarea, head, pins, lh, outstanding, committing, pc, wrote>>

recover_done ==
  /\ mode = "erase"
  /\ lh' = <<>>
  /\ head' = <<>>
  /\ mode' = "up"
  /\ UNCHANGED <<disk, logarea, cache, pins, outstanding, committing, tail, pc, wrote>>

----------------------------------------------------------------------------
Commit(p) ==
  write_log(p) \/ write_head(p) \/ install_trans(p) \/ erase_log(p) \/ commit_done(p)

Recover == read_head \/ replay \/ recover_done

Next ==
  \/ \E p \in Procs :
       \/ begin_op(p) \/ begin_op_sleep(p) \/ end_op(p) \/ Commit(p)
       \/ \E b \in Blocks : log_write_panic(p, b) \/ \E v \in Vals : log_write(p, b, v)
  \/ \E b \in Blocks : bread_miss(b) \/ bget_recycle(b)
  \/ Recover
  \/ Crash

Spec == Init /\ [][Next]_vars

\* A process woken in begin_op runs its loop again, the committer and the booting
\* kernel keep running.  Nothing makes a process call begin_op, and nothing makes
\* an operation reach its end_op: it may wait for locks others hold.
Fairness ==
  /\ \A p \in Procs :
       /\ WF_vars(pc[p] = "begin" /\ (begin_op(p) \/ begin_op_sleep(p)))
       /\ WF_vars(Commit(p))
  /\ WF_vars(Recover)

FairSpec == Spec /\ Fairness

----------------------------------------------------------------------------
(* Properties.                                                             *)

TypeOK ==
  /\ disk \in [Blocks -> Vals]
  /\ logarea \in [1..Capacity -> Vals]
  /\ head \in Seq(Blocks) /\ Len(head) <= Capacity
  /\ cache \in [Blocks -> Vals \cup {Absent}]
  /\ pins \in [Blocks -> Nat]
  /\ lh \in Seq(Blocks) /\ Len(lh) <= Capacity
  /\ outstanding \in Nat
  /\ committing \in BOOLEAN
  /\ tail \in Nat
  /\ pc \in [Procs -> {"idle", "begin", "asleep", "op"} \cup Committer]
  /\ wrote \in [Procs -> SUBSET Blocks]
  /\ mode \in Booting \cup {"up"} \cup Panics

\* What recovery makes of home blocks d, log data la and a header h: the blocks
\* the header names come from the log, the others from home.
Recovered(d, la, h) ==
  [b \in Blocks |->
     IF \E i \in 1..Len(h) : h[i] = b
     THEN la[CHOOSE i \in 1..Len(h) : h[i] = b]
     ELSE d[b]]

\* The image a crash at this moment would leave.
Stable == Recovered(disk, logarea, head)

\* The image the running operations see; before recovery is over there are none.
Current == IF mode \in Booting THEN Stable ELSE [b \in Blocks |-> bread(b)]

Active == {p \in Procs : pc[p] = "op"}

AD == INSTANCE AtomicDisk WITH stable <- Stable, current <- Current, active <- Active

\* The log implements an atomic disk: whatever the interleaving of operations,
\* commit's transfers, evictions and crashes (also during recovery), the disk
\* after recovery holds the updates of whole operations only, all of a commit
\* or none of it (log.c, commit and recover_from_log).
AtomicTransactions == AD!Spec

\* Without a pin (log_write's bpin) a buffer may be recycled; that never loses
\* an update, because only a block whose buffer agrees with the disk is
\* without one, and a block with one has a buffer.
PinnedUntilInstalled ==
  mode \notin Panics =>
    \A b \in Blocks :
      /\ pins[b] = 0 => cache[b] \in {Absent, disk[b]}
      /\ pins[b] # 0 => pins[b] = 1 /\ cache[b] # Absent

\* Between transactions nothing is in flight: when no operation runs and no
\* commit does, everything ended so far is on disk and the log is empty, on
\* disk and in memory (end_op returns only after commit has erased the log).
QuietMeansDurable ==
  (mode = "up" /\ outstanding = 0 /\ ~committing)
    => head = <<>> /\ lh = <<>> /\ \A b \in Blocks : bread(b) = disk[b]

\* outstanding counts the operations, committing marks the one committer, and
\* the two exclude each other (end_op's panic("log.committing")).
Exclusion ==
  mode \notin Panics =>
    /\ outstanding = Cardinality(Active)
    /\ committing <=> \E p \in Procs : pc[p] \in Committer
    /\ committing => Active = {}
    /\ \A p, q \in Procs : pc[p] \in Committer /\ pc[q] \in Committer => p = q

\* A process asleep in begin_op has somebody left who will call wakeup(&log).
SleeperHasWaker ==
  mode = "up" => ((\E p \in Procs : pc[p] = "asleep") => committing \/ outstanding > 0)

\* begin_op reserves against LOGSIZE while log_write panics one block earlier, at
\* log.size - 1.  So the panic "too big a transaction" can be met, but only when
\* every running operation has logged all it reserved, or all but one; and it is
\* the only panic.
PanicMeansSpent ==
  mode \in Panics =>
    /\ mode = "too big a transaction"
    /\ \A p \in Active : Cardinality(wrote[p]) + 1 >= MAXOPBLOCKS

\* Every operation reaches its end_op, or the machine stops first.
OperationsEnd == \A p \in Procs : []<>(pc[p] # "op" \/ mode \in Panics)

\* The log's part in not sleeping for ever: as long as operations end, a sleeper
\* in begin_op is woken (by end_op or by the end of a commit).  That they end is
\* up to their callers, and the expansion of a directory breaks it (DirExpand).
SleeperWakes ==
  OperationsEnd => \A p \in Procs : []<>(pc[p] # "asleep" \/ mode \in Panics)

\* A commit ends: end_op returns.
CommitEnds == committing ~> ~committing

\* If crashes stop, recovery finishes: a crash during recovery costs a restart
\* of recovery and nothing else.
RecoveryEnds == <>[][~Crash]_vars => (mode \in Booting ~> mode = "up")

----------------------------------------------------------------------------
(* The inductive invariant behind the safety properties, part by part.     *)

\* The committer, if there is one, is at this point of commit().
InPhase(ph) == \E p \in Procs : pc[p] = ph

Distinct(s) == \A i, j \in 1..Len(s) : s[i] = s[j] => i = j

\* Logged blocks that commit() has not copied home yet: the ones still pinned.
NotInstalled ==
  IF mode \in Booting \/ InPhase("erase") THEN {}
  ELSE IF InPhase("install") THEN {lh[i] : i \in (tail + 1)..Len(lh)}
  ELSE Logged

BootInv ==
  mode \in Booting =>
    /\ pc = [p \in Procs |-> "idle"] /\ outstanding = 0 /\ ~committing
    /\ IF mode = "boot" THEN lh = <<>> ELSE lh = head
    /\ IF mode = "replay" THEN tail < Len(lh) ELSE tail = 0

ControlInv ==
  /\ outstanding = Cardinality(Active)
  /\ committing <=> \E p \in Procs : pc[p] \in Committer
  /\ committing => Active = {}
  /\ \A p, q \in Procs : pc[p] \in Committer /\ pc[q] \in Committer => p = q

\* What the in-memory and on-disk headers are at each point.
HeaderInv ==
  /\ Distinct(lh) /\ Distinct(head)
  /\ mode \notin Booting =>
       /\ IF InPhase("install") \/ InPhase("erase") THEN head = lh ELSE head = <<>>
       /\ InPhase("write_log") \/ InPhase("write_head") \/ InPhase("install") \/ InPhase("erase")
            => lh # <<>>
       /\ InPhase("done") \/ (outstanding = 0 /\ ~committing) => lh = <<>>
       /\ IF InPhase("write_log") \/ InPhase("install") THEN tail < Len(lh) ELSE tail = 0

\* What the log's data blocks hold while they matter.
LogAreaInv ==
  /\ InPhase("write_log") => \A i \in 1..tail : logarea[i] = cache[lh[i]]
  /\ InPhase("write_head") => \A i \in 1..Len(lh) : logarea[i] = cache[lh[i]]
  /\ InPhase("install") => \A i \in (tail + 1)..Len(lh) : logarea[i] = cache[lh[i]]
  /\ InPhase("install") \/ mode = "replay" => \A i \in 1..tail : disk[lh[i]] = logarea[i]
  /\ InPhase("erase") \/ mode = "erase" => \A i \in 1..Len(lh) : disk[lh[i]] = logarea[i]

PinInv ==
  /\ pins = [b \in Blocks |-> IF b \in NotInstalled THEN 1 ELSE 0]
  /\ \A b \in Blocks : IF pins[b] = 0 THEN cache[b] \in {Absent, disk[b]} ELSE cache[b] # Absent

\* The conjunction is preserved by every step (TLC checks that it holds, the
\* proof that it is inductive).
IInv ==
  /\ TypeOK
  /\ mode # "log.committing"
  /\ BootInv
  /\ ControlInv
  /\ HeaderInv
  /\ LogAreaInv
  /\ PinInv
=============================================================================
