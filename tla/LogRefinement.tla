--------------------------- MODULE LogRefinement ---------------------------
(* Log implements AtomicDisk: a proof for every value of the constants. *)
EXTENDS LogProofs

\* Recovered is determined by what it holds at the header's blocks and elsewhere.
LEMMA RecoveredIs ==
  ASSUME NEW d, NEW la, NEW h \in Seq(Blocks), Distinct(h),
         NEW img, img = [b \in Blocks |-> img[b]],
         \A i \in 1..Len(h) : img[h[i]] = la[i],
         \A b \in Blocks : (\A i \in 1..Len(h) : h[i] # b) => img[b] = d[b]
  PROVE  Recovered(d, la, h) = img
<1>1. ASSUME NEW b \in Blocks PROVE Recovered(d, la, h)[b] = img[b]
  <2>1. CASE \E i \in 1..Len(h) : h[i] = b
    <3>1. PICK i \in 1..Len(h) : h[i] = b
      BY <2>1
    <3>2. (CHOOSE j \in 1..Len(h) : h[j] = b) = i
      BY <3>1 DEF Distinct
    <3> QED
      BY <2>1, <3>1, <3>2 DEF Recovered
  <2>2. CASE ~ \E i \in 1..Len(h) : h[i] = b
    BY <2>2 DEF Recovered
  <2> QED
    BY <2>1, <2>2
<1> QED
  BY <1>1 DEF Recovered

\* Recovery takes a block from the log entry that names it.
LEMMA RecoveredAt ==
  ASSUME NEW d, NEW la, NEW h \in Seq(Blocks), Distinct(h)
  PROVE  /\ Recovered(d, la, h) = [b \in Blocks |-> Recovered(d, la, h)[b]]
         /\ \A i \in 1..Len(h) : Recovered(d, la, h)[h[i]] = la[i]
         /\ \A b \in Blocks : (\A i \in 1..Len(h) : h[i] # b) => Recovered(d, la, h)[b] = d[b]
<1>1. ASSUME NEW i \in 1..Len(h) PROVE Recovered(d, la, h)[h[i]] = la[i]
  <2>1. h[i] \in Blocks
    OBVIOUS
  <2>2. (CHOOSE j \in 1..Len(h) : h[j] = h[i]) = i
    BY DEF Distinct
  <2> QED
    BY <2>1, <2>2 DEF Recovered
<1> QED
  BY Zenon, <1>1 DEF Recovered

\* An empty header leaves the home blocks as they are.
LEMMA RecoveredEmpty ==
  ASSUME NEW d \in [Blocks -> Vals], NEW la PROVE Recovered(d, la, <<>>) = d
  BY DEF Recovered

\* What is committed is what the log holds: these steps change the disk or the
\* header without changing what a crash would leave.
LEMMA CopyKeepsStable ==
  ASSUME IInv, CopyHome, tail < Len(lh), head = lh, UNCHANGED <<logarea, head>>
  PROVE  Stable' = Stable
<1> USE DEF IInv, TypeOK, HeaderInv
<1> DEFINE b == lh[tail + 1]
<1>1. tail + 1 \in 1..Len(head) /\ b \in Blocks /\ head \in Seq(Blocks) /\ Distinct(head)
  OBVIOUS
<1>2. \A x \in Blocks : (\A i \in 1..Len(head) : head[i] # x) => disk'[x] = disk[x]
  BY <1>1 DEF CopyHome
<1> HIDE DEF IInv, TypeOK, HeaderInv
<1>3. Recovered(disk', logarea, head) = Recovered(disk, logarea, head)
  BY <1>1, <1>2, RecoveredIs, RecoveredAt
<1> QED
  BY <1>3 DEF Stable

\* Erasing a header whose blocks are all home.
LEMMA EraseKeepsStable ==
  ASSUME IInv, \A i \in 1..Len(head) : disk[head[i]] = logarea[i], disk' = disk, head' = <<>>
  PROVE  Stable' = Stable /\ Stable = disk
<1>1. head \in Seq(Blocks) /\ Distinct(head) /\ disk \in [Blocks -> Vals]
  BY DEF IInv, TypeOK, HeaderInv
<1>2. Recovered(disk, logarea, head) = disk
  BY <1>1, RecoveredIs
<1>3. Recovered(disk', logarea', head') = disk
  BY <1>1, RecoveredEmpty
<1> QED
  BY <1>2, <1>3 DEF Stable

\* Steps that do not change what the abstract disk shows.
AbstractSame == Stable' = Stable /\ Current' = Current /\ Active' = Active

\* A step that changes no abstract variable is a stutter of the atomic disk.
LEMMA SameStutters == ASSUME AbstractSame PROVE [AD!Next]_(AD!vars)
  BY DEF AbstractSame, AD!vars

\* Outside recovery, the current image depends on the buffers and the disk only.
LEMMA CurrentSame ==
  ASSUME mode \notin Booting, mode' \notin Booting, \A x \in Blocks : bread(x)' = bread(x)
  PROVE  Current' = Current
  BY DEF Current

\* begin_op is the abstract Begin.
LEMMA begin_op_Step ==
  ASSUME IInv, NEW p \in Procs, begin_op(p)
  PROVE  AD!Begin(p)
<1>1. Stable' = Stable /\ Current' = Current
  BY DEF begin_op, durable, Stable, Current, bread
<1>2. p \notin Active /\ Active' = Active \cup {p}
  BY DEF begin_op, Active, IInv, TypeOK
<1> QED
  BY <1>1, <1>2 DEF AD!Begin

\* end_op is the abstract End.
LEMMA end_op_Step ==
  ASSUME IInv, NEW p \in Procs, end_op(p)
  PROVE  AD!End(p)
<1>1. p \in Active /\ Active' = Active \ {p}
  BY DEF end_op, Active, IInv, TypeOK, wakeup
<1>2. mode' = mode
  BY <1>1 DEF end_op, IInv, ControlInv
<1>3. Stable' = Stable /\ Current' = Current
  BY <1>2 DEF end_op, durable, Stable, Current, bread
<1> QED
  BY <1>1, <1>3 DEF AD!End

\* log_write is the abstract Write.
LEMMA log_write_Step ==
  ASSUME IInv, NEW p \in Procs, NEW b \in Blocks, NEW v \in Vals, log_write(p, b, v)
  PROVE  AD!Write(p, b, v)
<1>1. Stable' = Stable /\ p \in Active /\ Active' = Active
  BY DEF log_write, MayLog, durable, Stable, Active
<1>2. Current' = [Current EXCEPT ![b] = v]
  <2>1. mode \notin Booting /\ mode' \notin Booting /\ v # Absent
    BY LogAssumption DEF log_write, MayLog, Booting
  <2>2. \A x \in Blocks : bread(x)' = IF x = b THEN v ELSE bread(x)
    BY <2>1 DEF log_write, bread, durable, IInv, TypeOK
  <2> QED
    BY Zenon, <2>1, <2>2 DEF Current
<1> QED
  BY <1>1, <1>2 DEF AD!Write

\* Copying a block to the log is invisible: the header on disk does not name it yet.
LEMMA write_log_Step ==
  ASSUME IInv, NEW p \in Procs, write_log(p)
  PROVE  AbstractSame
<1>1. /\ pc[p] = "write_log" /\ mode \notin Booting
      /\ \A q \in Procs : pc[q] \in Committer => q = p
  BY CommitterAlone DEF Committer, write_log
<1>2. ~InPhase("install") /\ ~InPhase("erase") /\ InPhase("write_log")
  BY <1>1, PhaseOf
<1>3. head = <<>> /\ tail < Len(lh) /\ disk \in [Blocks -> Vals]
  BY <1>1, <1>2 DEF IInv, HeaderInv, TypeOK
<1>4. Stable' = Stable
  BY <1>3, RecoveredEmpty DEF Stable, write_log
<1>5. \A x \in Blocks : bread(x)' = bread(x)
  BY DEF write_log, bread, IInv, TypeOK
<1>6. Current' = Current
  BY <1>1, <1>5, CurrentSame DEF write_log
<1>7. Active' = Active
  BY DEF write_log, Advance, Active, IInv, TypeOK
<1> QED
  BY <1>4, <1>6, <1>7 DEF AbstractSame

\* The header write is the commit.
LEMMA write_head_Step ==
  ASSUME IInv, NEW p \in Procs, write_head(p)
  PROVE  AD!Commit
<1>1. /\ pc[p] = "write_head" /\ mode \notin Booting /\ Active = {}
      /\ \A q \in Procs : pc[q] \in Committer => q = p
  BY CommitterAlone DEF Committer, write_head
<1>2. InPhase("write_head") /\ ~InPhase("install") /\ ~InPhase("erase")
  BY <1>1, PhaseOf
<1>3. Active' = Active
  BY DEF write_head, Active, IInv, TypeOK
<1>4. Current' = Current
  BY DEF write_head, Current, Booting, bread
<1>5. Stable' = Current
  <2> DEFINE img == [x \in Blocks |-> bread(x)]
  <2>1. NotInstalled = Logged
    BY <1>1, <1>2 DEF NotInstalled
  <2>2. lh \in Seq(Blocks) /\ Distinct(lh)
    BY DEF IInv, TypeOK, HeaderInv
  <2>3. \A i \in 1..Len(lh) : img[lh[i]] = logarea[i]
    <3>1. ASSUME NEW i \in 1..Len(lh) PROVE bread(lh[i]) = logarea[i] /\ lh[i] \in Blocks
      <4>1. lh[i] \in Blocks /\ lh[i] \in Logged
        BY <2>2 DEF Logged
      <4>2. pins[lh[i]] = 1
        BY <4>1, <2>1 DEF IInv, PinInv
      <4>3. cache[lh[i]] # Absent
        BY <4>1, <4>2 DEF IInv, PinInv
      <4> QED
        BY <4>1, <4>3, <1>2 DEF IInv, LogAreaInv, bread
    <3> QED
      BY <3>1
  <2>4. \A x \in Blocks : (\A i \in 1..Len(lh) : lh[i] # x) => img[x] = disk[x]
    <3>1. ASSUME NEW x \in Blocks, \A i \in 1..Len(lh) : lh[i] # x PROVE bread(x) = disk[x]
      <4>1. pins[x] = 0
        BY <3>1, <2>1 DEF IInv, PinInv, Logged
      <4> QED
        BY <4>1 DEF IInv, PinInv, bread
    <3> QED
      BY <3>1
  <2>5. img = [x \in Blocks |-> img[x]]
    OBVIOUS
  <2>6. Recovered(disk, logarea, lh) = img
    <3> HIDE DEF img
    <3> QED
      BY <2>2, <2>3, <2>4, <2>5, RecoveredIs
  <2> QED
    BY <2>6, <1>1 DEF Stable, Current, write_head
<1> QED
  BY <1>1, <1>3, <1>4, <1>5 DEF AD!Commit

\* Installing a block is invisible: recovery would have taken it from the log.
LEMMA install_trans_Step ==
  ASSUME IInv, NEW p \in Procs, install_trans(p)
  PROVE  AbstractSame
<1>1. /\ pc[p] = "install" /\ mode \notin Booting
      /\ \A q \in Procs : pc[q] \in Committer => q = p
  BY CommitterAlone DEF Committer, install_trans
<1>2. InPhase("install") /\ ~InPhase("erase")
  BY <1>1, PhaseOf
<1>3. head = lh /\ tail < Len(lh) /\ tail \in Nat /\ Len(lh) \in Nat /\ lh[tail + 1] \in Blocks
  BY <1>1, <1>2 DEF IInv, HeaderInv, TypeOK
<1>4. Stable' = Stable
  BY <1>3, CopyKeepsStable DEF install_trans
<1>5. \A x \in Blocks : bread(x)' = bread(x)
  <2>1. logarea[tail + 1] = cache[lh[tail + 1]]
    BY <1>2, <1>3 DEF IInv, LogAreaInv
  <2>2. logarea[tail + 1] # Absent
    BY <1>3, LogAssumption DEF IInv, TypeOK, Capacity
  <2> QED
    BY SMTT(30), <2>1, <2>2, <1>3 DEF install_trans, CopyHome, bread, IInv, TypeOK
<1>6. Current' = Current
  BY <1>1, <1>5, CurrentSame DEF install_trans
<1>7. Active' = Active
  BY DEF install_trans, Advance, Active, IInv, TypeOK
<1> QED
  BY <1>4, <1>6, <1>7 DEF AbstractSame

\* Erasing the header is invisible: everything it names is installed.
LEMMA erase_log_Step ==
  ASSUME IInv, NEW p \in Procs, erase_log(p)
  PROVE  AbstractSame
<1>1. /\ pc[p] = "erase" /\ mode \notin Booting
      /\ \A q \in Procs : pc[q] \in Committer => q = p
  BY CommitterAlone DEF Committer, erase_log
<1>2. InPhase("erase")
  BY <1>1, PhaseOf
<1>3. \A i \in 1..Len(head) : disk[head[i]] = logarea[i]
  BY <1>1, <1>2 DEF IInv, HeaderInv, LogAreaInv
<1>4. Stable' = Stable
  BY <1>3, EraseKeepsStable DEF erase_log
<1>5. Current' = Current
  BY DEF erase_log, Current, Booting, bread
<1>6. Active' = Active
  BY DEF erase_log, Active, IInv, TypeOK
<1> QED
  BY <1>4, <1>5, <1>6 DEF AbstractSame

\* A crash is the abstract Crash.
LEMMA Crash_Step ==
  ASSUME IInv, Crash
  PROVE  AD!Crash
<1>1. Stable' = Stable
  BY DEF Crash, durable, Stable
<1>2. Current' = Stable'
  BY DEF Crash, Current, Booting
<1>3. Active' = {}
  BY DEF Crash, Active
<1> QED
  BY <1>1, <1>2, <1>3 DEF AD!Crash

\* Recovery is invisible, step by step.
LEMMA Recover_Step ==
  ASSUME IInv, Recover
  PROVE  AbstractSame
<1>1. Active' = Active
  BY DEF Recover, read_head, replay, recover_done, Active
<1>2. CASE read_head
  BY <1>1, <1>2 DEF read_head, durable, Stable, Current, Booting, AbstractSame
<1>3. CASE replay
  <2>1. tail < Len(lh) /\ head = lh
    BY <1>3 DEF IInv, BootInv, replay, Booting
  <2>2. Stable' = Stable
    BY <1>3, <2>1, CopyKeepsStable DEF replay
  <2> QED
    BY <1>1, <1>3, <2>2 DEF replay, Current, Booting, AbstractSame
<1>4. CASE recover_done
  <2>1. \A i \in 1..Len(head) : disk[head[i]] = logarea[i]
    BY <1>4 DEF IInv, BootInv, LogAreaInv, recover_done, Booting
  <2>2. Stable' = Stable /\ Stable = disk
    BY <1>4, <2>1, EraseKeepsStable DEF recover_done
  <2>3. \A x \in Blocks : bread(x)' = disk[x]
    <3>1. NotInstalled = {}
      BY <1>4 DEF NotInstalled, recover_done, Booting
    <3> QED
      BY <1>4, <3>1 DEF IInv, PinInv, recover_done, bread
  <2>4. Current' = disk
    BY <1>4, <2>3 DEF Current, recover_done, Booting, IInv, TypeOK
  <2> QED
    BY <1>1, <1>4, <2>2, <2>4 DEF recover_done, Current, Booting, AbstractSame
<1> QED
  BY <1>2, <1>3, <1>4 DEF Recover

\* Sleeping in begin_op, the end of a commit and a panic are invisible.
LEMMA QuietProc_Step ==
  ASSUME IInv, NEW p \in Procs,
         \/ begin_op_sleep(p) \/ commit_done(p) \/ \E b \in Blocks : log_write_panic(p, b)
  PROVE  AbstractSame
<1>1. Active' = Active
  BY Zenon DEF begin_op_sleep, commit_done, log_write_panic, Active, IInv, TypeOK, wakeup
<1>2. Stable' = Stable
  BY Zenon DEF begin_op_sleep, commit_done, log_write_panic, durable, Stable
<1>3. mode \notin Booting /\ mode' \notin Booting /\ disk' = disk /\ cache' = cache
  BY Zenon DEF begin_op_sleep, commit_done, log_write_panic, MayLog, durable, Booting
<1>4. Current' = Current
  BY <1>3, CurrentSame DEF bread
<1> QED
  BY <1>1, <1>2, <1>4 DEF AbstractSame

\* So are a miss and the recycling of a buffer.
LEMMA QuietBlock_Step ==
  ASSUME IInv, NEW b \in Blocks, bread_miss(b) \/ bget_recycle(b)
  PROVE  AbstractSame
<1>1. Active' = Active /\ Stable' = Stable /\ mode' = mode /\ disk' = disk
  BY DEF bread_miss, bget_recycle, durable, Active, Stable
<1>2. \A x \in Blocks : bread(x)' = bread(x)
  <2>1. CASE bread_miss(b)
    BY <2>1 DEF bread_miss, durable, bread, IInv, TypeOK
  <2>2. CASE bget_recycle(b)
    BY <2>2 DEF bget_recycle, durable, bread, IInv, TypeOK, PinInv
  <2> QED
    BY <2>1, <2>2
<1>3. Current' = Current
  BY <1>1, <1>2 DEF Current
<1> QED
  BY <1>1, <1>3 DEF AbstractSame

\* Every step of the log is a step of the atomic disk or a stutter.
LEMMA StepRefines == IInv /\ [Next]_vars => [AD!Next]_(AD!vars)
<1> SUFFICES ASSUME IInv, [Next]_vars PROVE [AD!Next]_(AD!vars)
  OBVIOUS
<1>1. ASSUME NEW p \in Procs, begin_op(p) PROVE AD!Next
  BY <1>1, begin_op_Step DEF AD!Next
<1>2. ASSUME NEW p \in Procs, end_op(p) PROVE AD!Next
  BY <1>2, end_op_Step DEF AD!Next
<1>3. ASSUME NEW p \in Procs, NEW b \in Blocks, NEW v \in Vals, log_write(p, b, v) PROVE AD!Next
  BY <1>3, log_write_Step DEF AD!Next
<1>4. ASSUME NEW p \in Procs, write_head(p) PROVE AD!Next
  BY <1>4, write_head_Step DEF AD!Next
<1>5. ASSUME NEW p \in Procs, write_log(p) \/ install_trans(p) \/ erase_log(p) PROVE AbstractSame
  BY <1>5, write_log_Step, install_trans_Step, erase_log_Step
<1>6. CASE Crash
  BY <1>6, Crash_Step DEF AD!Next
<1>7. CASE Recover
  BY <1>7, Recover_Step, SameStutters
<1>8. ASSUME NEW p \in Procs, NEW b \in Blocks, log_write_panic(p, b) PROVE AbstractSame
  BY <1>8, QuietProc_Step
<1>9. ASSUME NEW b \in Blocks, bread_miss(b) \/ bget_recycle(b) PROVE AbstractSame
  BY <1>9, QuietBlock_Step
<1>10. ASSUME NEW p \in Procs, begin_op_sleep(p) \/ commit_done(p) PROVE AbstractSame
  BY <1>10, QuietProc_Step
<1>11. CASE UNCHANGED vars
  <2>1. AbstractSame
    BY <1>11 DEF vars, Stable, Current, bread, Active, AbstractSame
  <2> QED
    BY <2>1, SameStutters
<1> QED
  BY <1>1, <1>2, <1>3, <1>4, <1>5, <1>6, <1>7, <1>8, <1>9, <1>10, <1>11, SameStutters
     DEF Next, Commit

\* The log's initial states are initial states of the atomic disk.
LEMMA InitRefines == Init => AD!Init
<1> SUFFICES ASSUME Init PROVE AD!Init
  OBVIOUS
<1>1. Stable = disk
  BY RecoveredEmpty DEF Init, Stable
<1>2. Current = Stable /\ Active = {}
  BY DEF Init, Current, Booting, Active
<1> QED
  BY <1>1, <1>2 DEF Init, AD!Init

\* Every behaviour of the log is a behaviour of a disk on which groups of whole
\* operations commit in one step and a crash loses exactly what has not
\* committed: for any number of processes, blocks and values, any log size, and
\* crashes at any point of a commit or of recovery itself.
THEOREM Refinement == Spec => AtomicTransactions
  BY InitRefines, StepRefines, Invariance, PTL DEF Spec, AD!Spec, AtomicTransactions
=============================================================================
