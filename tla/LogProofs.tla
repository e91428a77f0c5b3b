----------------------------- MODULE LogProofs -----------------------------
(* Proofs about Log, for every value of its constants. *)
EXTENDS Log, TLAPS, FiniteSetTheorems

\* The log as initlog finds it satisfies the invariant.
LEMMA InitInv == Init => IInv
<1> SUFFICES ASSUME Init PROVE IInv
  OBVIOUS
<1> USE LogAssumption DEF Init
<1>1. TypeOK
  <2>1. Capacity \in Nat
    BY DEF Capacity
  <2>2. PICK zero \in Vals : logarea = [i \in 1..Capacity |-> zero]
    OBVIOUS
  <2>3. logarea \in [1..Capacity -> Vals]
    BY <2>2
  <2>4. lh \in Seq(Blocks) /\ Len(lh) = 0 /\ head \in Seq(Blocks) /\ Len(head) = 0
    OBVIOUS
  <2>5. /\ disk \in [Blocks -> Vals] /\ cache \in [Blocks -> Vals \cup {Absent}]
        /\ pins \in [Blocks -> Nat] /\ wrote \in [Procs -> SUBSET Blocks]
    OBVIOUS
  <2>6. pc \in [Procs -> {"idle", "begin", "asleep", "op"} \cup Committer]
    OBVIOUS
  <2>7. /\ outstanding \in Nat /\ committing \in BOOLEAN /\ tail \in Nat
        /\ mode \in Booting \cup {"up"} \cup Panics
    BY Zenon DEF Booting
  <2> QED
    BY <2>1, <2>3, <2>4, <2>5, <2>6, <2>7 DEF TypeOK
<1>2. mode # "log.committing" /\ BootInv
  BY DEF BootInv, Booting
<1>3. ControlInv
  <2>1. Active = {}
    BY DEF Active
  <2> QED
    BY <2>1, FS_EmptySet DEF ControlInv, Committer
<1>4. HeaderInv
  BY DEF HeaderInv, Distinct, Booting
<1>5. LogAreaInv
  BY DEF LogAreaInv, InPhase
<1>6. PinInv
  BY DEF PinInv, NotInstalled, Booting
<1> QED
  BY <1>1, <1>2, <1>3, <1>4, <1>5, <1>6 DEF IInv

\* A step that moves no process into, out of or within commit().
SamePhase == \A q \in Procs : pc[q] \in Committer \/ pc'[q] \in Committer => pc'[q] = pc[q]

\* A step outside commit() keeps the phase the committer is in.
LEMMA PhaseFrame ==
  ASSUME SamePhase
  PROVE  /\ InPhase("write_log")' <=> InPhase("write_log")
         /\ InPhase("write_head")' <=> InPhase("write_head")
         /\ InPhase("install")' <=> InPhase("install")
         /\ InPhase("erase")' <=> InPhase("erase")
         /\ InPhase("done")' <=> InPhase("done")
         /\ (\E q \in Procs : pc'[q] \in Committer) <=> (\E q \in Procs : pc[q] \in Committer)
  BY DEF SamePhase, InPhase, Committer

\* begin_op's reservation preserves the invariant: outstanding counts one operation more.
LEMMA begin_op_Inv ==
  ASSUME IInv, NEW p \in Procs, begin_op(p)
  PROVE  IInv'
<1> USE LogAssumption DEF IInv, begin_op, durable
<1>1. TypeOK'
  BY DEF TypeOK, Capacity, Booting, Committer
<1>2. (mode # "log.committing" /\ BootInv)'
  BY DEF BootInv, Booting
<1>0. SamePhase
  BY DEF SamePhase, TypeOK, Committer
<1>3. ControlInv'
  <2>1. Active' = Active \cup {p} /\ p \notin Active /\ IsFiniteSet(Active)
    BY FS_Subset DEF Active, TypeOK
  <2>2. Cardinality(Active') = Cardinality(Active) + 1
    BY Zenon, <2>1, FS_AddElement
  <2>3. ~committing'
    OBVIOUS
  <2>4. outstanding' = Cardinality(Active')
    BY <2>2 DEF ControlInv
  <2> QED
    BY <2>3, <2>4, <1>0, PhaseFrame DEF ControlInv, SamePhase
<1>4. HeaderInv'
  BY <1>0, PhaseFrame DEF HeaderInv, Distinct, Booting, InPhase, TypeOK, ControlInv, Committer
<1>5. LogAreaInv'
  BY <1>0, PhaseFrame DEF LogAreaInv, TypeOK
<1>6. PinInv'
  <2>1. NotInstalled' = NotInstalled
     BY <1>0, PhaseFrame DEF NotInstalled, Booting, Logged
  <2> QED BY <2>1 DEF PinInv
<1> QED
  BY <1>1, <1>2, <1>3, <1>4, <1>5, <1>6

\* Going to sleep in begin_op preserves the invariant.
LEMMA begin_op_sleep_Inv ==
  ASSUME IInv, NEW p \in Procs, begin_op_sleep(p)
  PROVE  IInv'
<1> USE DEF IInv, begin_op_sleep, durable
<1>1. TypeOK'
  BY DEF TypeOK, Capacity, Booting, Committer
<1>2. (mode # "log.committing" /\ BootInv)'
  BY DEF BootInv, Booting
<1>3. SamePhase
  BY DEF SamePhase, TypeOK, Committer
<1>4. ControlInv'
  <2>1. Active' = Active
    BY DEF Active, TypeOK
  <2> QED
    BY <2>1, <1>3, PhaseFrame DEF ControlInv, SamePhase
<1>5. HeaderInv'
  BY <1>3, PhaseFrame DEF HeaderInv, Distinct
<1>6. LogAreaInv'
  BY <1>3, PhaseFrame DEF LogAreaInv
<1>7. PinInv'
  <2>1. NotInstalled' = NotInstalled
    BY <1>3, PhaseFrame DEF NotInstalled, Logged
  <2> QED
    BY <2>1 DEF PinInv
<1> QED
  BY <1>1, <1>2, <1>4, <1>5, <1>6, <1>7

\* log_write's panics preserve the invariant.
LEMMA log_write_panic_Inv ==
  ASSUME IInv, NEW p \in Procs, NEW b \in Blocks, log_write_panic(p, b)
  PROVE  IInv'
<1> USE DEF IInv, log_write_panic, MayLog, durable
<1>1. TypeOK'
  BY Zenon DEF TypeOK, Capacity, Booting, Committer, Panics
<1>2. (mode # "log.committing" /\ BootInv)' /\ mode' \notin Booting
  BY Zenon DEF BootInv, Booting
<1>3. SamePhase
  BY Zenon DEF SamePhase
<1>4. ControlInv'
  BY Zenon DEF ControlInv, Active
<1>5. HeaderInv'
  BY Zenon, <1>2, <1>3, PhaseFrame DEF HeaderInv, Distinct, Booting
<1>6. LogAreaInv'
  BY Zenon, <1>2, <1>3, PhaseFrame DEF LogAreaInv, Booting
<1>7. PinInv'
  <2>1. NotInstalled' = NotInstalled
    BY Zenon, <1>2, <1>3, PhaseFrame DEF NotInstalled, Logged, Booting
  <2> QED
    BY Zenon, <2>1 DEF PinInv
<1> QED
  BY Zenon, <1>1, <1>2, <1>4, <1>5, <1>6, <1>7

\* commit() is at one point only, and nowhere before recovery is over.
LEMMA OnePhase ==
  ASSUME IInv
  PROVE  /\ InPhase("write_log") => ~(InPhase("install") \/ InPhase("erase") \/ InPhase("done"))
         /\ InPhase("write_head") => ~(InPhase("install") \/ InPhase("erase") \/ InPhase("done"))
         /\ InPhase("install") => ~(InPhase("erase") \/ InPhase("done"))
         /\ mode \in Booting => ~(InPhase("write_log") \/ InPhase("write_head")
                                  \/ InPhase("install") \/ InPhase("erase") \/ InPhase("done"))
<1> USE DEF IInv, InPhase
<1>1. mode \in Booting => \A q \in Procs : pc[q] = "idle"
  BY DEF BootInv
<1> QED
  BY <1>1 DEF ControlInv, Committer

\* The buffer of an unpinned block plays no part in a commit.
LEMMA LogAreaFrame ==
  ASSUME IInv, SamePhase, NEW b \in Blocks, NEW c, pins[b] = 0,
         cache' = [cache EXCEPT ![b] = c],
         UNCHANGED <<disk, logarea, lh, tail, mode>>
  PROVE  LogAreaInv'
<1> USE DEF IInv
<1>1. \A x \in Blocks : x \in NotInstalled => cache'[x] = cache[x]
  BY DEF PinInv, TypeOK
<1>2. \A i \in 1..Len(lh) : lh[i] \in Blocks
  BY DEF TypeOK
<1>3. ASSUME InPhase("write_log") PROVE \A i \in 1..tail : logarea[i] = cache'[lh[i]]
  <2>1. \A i \in 1..tail : lh[i] \in NotInstalled /\ i \in 1..Len(lh)
    BY <1>3, OnePhase DEF NotInstalled, Logged, HeaderInv, TypeOK
  <2> QED
    BY <1>1, <1>2, <1>3, <2>1 DEF LogAreaInv
<1>4. ASSUME InPhase("write_head") PROVE \A i \in 1..Len(lh) : logarea[i] = cache'[lh[i]]
  <2>1. \A i \in 1..Len(lh) : lh[i] \in NotInstalled
    BY <1>4, OnePhase DEF NotInstalled, Logged
  <2> QED
    BY <1>1, <1>2, <1>4, <2>1 DEF LogAreaInv
<1>5. ASSUME InPhase("install")
      PROVE  \A i \in (tail + 1)..Len(lh) : logarea[i] = cache'[lh[i]]
  <2>1. \A i \in (tail + 1)..Len(lh) : lh[i] \in NotInstalled /\ i \in 1..Len(lh)
    BY <1>5, OnePhase DEF NotInstalled, TypeOK
  <2> QED
    BY <1>1, <1>2, <1>5, <2>1 DEF LogAreaInv
<1> QED
  BY <1>3, <1>4, <1>5, PhaseFrame DEF LogAreaInv

\* Filling a buffer from disk preserves the invariant.
LEMMA bread_miss_Inv ==
  ASSUME IInv, NEW b \in Blocks, bread_miss(b)
  PROVE  IInv'
<1> USE DEF IInv, bread_miss, durable
<1>1. TypeOK'
  BY DEF TypeOK, Capacity, Booting, Committer
<1>2. (mode # "log.committing" /\ BootInv)'
  BY DEF BootInv, Booting
<1>3. SamePhase
  BY DEF SamePhase
<1>4. ControlInv'
  BY DEF ControlInv, Active
<1>5. HeaderInv'
  BY <1>3, PhaseFrame DEF HeaderInv, Distinct
<1>6. NotInstalled' = NotInstalled
  BY <1>3, PhaseFrame DEF NotInstalled, Logged
<1>7. PinInv'
  BY <1>6 DEF PinInv, TypeOK
<1>8. LogAreaInv'
  <2>1. pins[b] = 0
    BY DEF PinInv
  <2> QED
    BY Zenon, <1>3, <2>1, LogAreaFrame
<1> QED
  BY <1>1, <1>2, <1>4, <1>5, <1>7, <1>8

\* Recycling an unpinned buffer preserves the invariant.
LEMMA bget_recycle_Inv ==
  ASSUME IInv, NEW b \in Blocks, bget_recycle(b)
  PROVE  IInv'
<1> USE DEF IInv, bget_recycle, durable
<1>1. TypeOK'
  BY DEF TypeOK, Capacity, Booting, Committer
<1>2. (mode # "log.committing" /\ BootInv)'
  BY DEF BootInv, Booting
<1>3. SamePhase
  BY DEF SamePhase
<1>4. ControlInv'
  BY DEF ControlInv, Active
<1>5. HeaderInv'
  BY <1>3, PhaseFrame DEF HeaderInv, Distinct
<1>6. NotInstalled' = NotInstalled
  BY <1>3, PhaseFrame DEF NotInstalled, Logged
<1>7. PinInv'
  BY <1>6 DEF PinInv, TypeOK
<1>8. LogAreaInv'
  BY Zenon, <1>3, LogAreaFrame
<1> QED
  BY <1>1, <1>2, <1>4, <1>5, <1>7, <1>8

\* log_write preserves the invariant: a block new to the log is pinned, an absorbed one already is.
LEMMA log_write_Inv ==
  ASSUME IInv, NEW p \in Procs, NEW b \in Blocks, NEW v \in Vals, log_write(p, b, v)
  PROVE  IInv'
<1> USE LogAssumption DEF IInv, log_write, MayLog, durable
<1>1. mode \notin Booting /\ ~committing /\ outstanding > 0
  <2>1. p \in Active
    BY DEF Active
  <2> QED
    BY <2>1 DEF Booting, ControlInv, TypeOK
<1>2. \A q \in Procs : pc[q] \notin Committer
  BY <1>1 DEF ControlInv
<1>3. ~(InPhase("write_log") \/ InPhase("write_head") \/ InPhase("install")
        \/ InPhase("erase") \/ InPhase("done"))
  BY <1>2 DEF InPhase, Committer
<1>4. SamePhase
  BY DEF SamePhase
<1>5. /\ lh' \in Seq(Blocks) /\ Distinct(lh')
      /\ Logged' = Logged \cup {b} /\ Len(lh') <= Capacity
  <2>1. CASE b \in Logged
    BY <2>1 DEF TypeOK, HeaderInv, Distinct, Logged
  <2>2. CASE b \notin Logged
    <3>1. lh' = Append(lh, b) /\ lh \in Seq(Blocks)
      BY <2>2 DEF TypeOK
    <3>2. Len(lh') = Len(lh) + 1 /\ lh' \in Seq(Blocks)
      BY <3>1
    <3>3. \A i \in 1..Len(lh) : lh'[i] = lh[i] /\ lh[i] # b
      BY <2>2, <3>1 DEF Logged
    <3>4. lh'[Len(lh) + 1] = b
      BY <3>1
    <3>5. Distinct(lh')
      BY SMTT(30), <3>2, <3>3, <3>4 DEF HeaderInv, Distinct
    <3>6. Logged' = Logged \cup {b}
      BY <3>1, <3>2, <3>3, <3>4 DEF Logged
    <3>7. Len(lh') <= Capacity
      BY <3>1, <3>2 DEF TooBig, Capacity, TypeOK
    <3> QED
      BY <3>2, <3>5, <3>6, <3>7
  <2> QED
    BY <2>1, <2>2
<1>6. pins' = [pins EXCEPT ![b] = 1]
  <2>1. NotInstalled = Logged
    BY <1>1, <1>3 DEF NotInstalled
  <2> QED
    BY <2>1 DEF PinInv, TypeOK
<1>7. TypeOK'
  BY SMTT(30), <1>5, <1>6 DEF TypeOK, Capacity, Booting, Committer
<1>8. (mode # "log.committing" /\ BootInv)'
  BY <1>1 DEF BootInv
<1>9. ControlInv'
  BY DEF ControlInv, Active
<1>10. HeaderInv'
  BY SMTT(30), <1>1, <1>3, <1>4, <1>5, PhaseFrame DEF HeaderInv, TypeOK
<1>11. LogAreaInv'
  BY SMTT(30), <1>1, <1>3, <1>4, PhaseFrame DEF LogAreaInv, Booting
<1>12. PinInv'
  <2>1. NotInstalled = Logged /\ NotInstalled' = Logged \cup {b}
    BY <1>1, <1>3, <1>4, <1>5, PhaseFrame DEF NotInstalled
  <2>2. \A x \in Blocks : pins[x] = IF x \in Logged THEN 1 ELSE 0
    BY <2>1 DEF PinInv
  <2>3. pins' = [x \in Blocks |-> IF x \in NotInstalled' THEN 1 ELSE 0]
    BY Zenon, <1>6, <2>1, <2>2 DEF TypeOK
  <2>4. \A x \in Blocks : IF pins'[x] = 0 THEN cache'[x] \in {Absent, disk'[x]}
                                          ELSE cache'[x] # Absent
    BY <1>6 DEF PinInv, TypeOK
  <2> QED
    BY <2>3, <2>4 DEF PinInv
<1> QED
  BY <1>7, <1>8, <1>9, <1>10, <1>11, <1>12

\* With at most one process p in commit(), where commit() is is where p is.
LEMMA PhaseOf ==
  ASSUME NEW p \in Procs, \A q \in Procs : pc[q] \in Committer => q = p
  PROVE  /\ InPhase("write_log") <=> pc[p] = "write_log"
         /\ InPhase("write_head") <=> pc[p] = "write_head"
         /\ InPhase("install") <=> pc[p] = "install"
         /\ InPhase("erase") <=> pc[p] = "erase"
         /\ InPhase("done") <=> pc[p] = "done"
  BY DEF InPhase, Committer

\* The same for the next state: one committer, one phase.
LEMMA PhaseOfNext ==
  ASSUME NEW p \in Procs, \A q \in Procs : pc'[q] \in Committer => q = p
  PROVE  /\ InPhase("write_log")' <=> pc'[p] = "write_log"
         /\ InPhase("write_head")' <=> pc'[p] = "write_head"
         /\ InPhase("install")' <=> pc'[p] = "install"
         /\ InPhase("erase")' <=> pc'[p] = "erase"
         /\ InPhase("done")' <=> pc'[p] = "done"
  BY DEF InPhase, Committer

\* end_op preserves the invariant, whether it starts a commit or not.
LEMMA end_op_Inv ==
  ASSUME IInv, NEW p \in Procs, end_op(p)
  PROVE  IInv'
<1> USE LogAssumption DEF IInv, end_op, durable
<1>1. p \in Active /\ IsFiniteSet(Active)
  BY FS_Subset DEF Active
<1>2. /\ mode \notin Booting /\ ~committing /\ mode' = mode
      /\ \A q \in Procs : pc[q] \notin Committer
      /\ outstanding = Cardinality(Active)
  BY <1>1 DEF Booting, ControlInv
<1>3. /\ Active' = Active \ {p}
      /\ pc' \in [Procs -> {"idle", "begin", "asleep", "op"} \cup Committer]
      /\ \A q \in Procs : pc'[q] \in Committer => q = p
  BY Zenon, <1>2 DEF Active, TypeOK, wakeup, Committer
<1>4. Cardinality(Active') = Cardinality(Active) - 1 /\ outstanding \in Nat
      /\ IsFiniteSet(Active') /\ outstanding' \in Nat
      /\ outstanding' = Cardinality(Active')
  <2>1. Cardinality(Active') = Cardinality(Active) - 1 /\ IsFiniteSet(Active')
    BY <1>1, <1>3, FS_RemoveElement
  <2>2. Cardinality(Active') \in Nat
    BY <2>1, FS_CardinalityType
  <2> QED
    BY <1>2, <2>1, <2>2 DEF TypeOK
<1>5. TypeOK'
  <2>1. tail' \in Nat /\ wrote' \in [Procs -> SUBSET Blocks]
    BY DEF TypeOK
  <2>2. committing' \in BOOLEAN
    BY Zenon DEF TypeOK
  <2> QED
    BY SMTT(30), <2>1, <2>2, <1>2, <1>3, <1>4 DEF TypeOK, Capacity
<1>6. (mode # "log.committing" /\ BootInv)'
  BY <1>2 DEF BootInv
<1>7. LogAreaInv' /\ PinInv' /\ ControlInv' /\ HeaderInv'
  <2>0. ~(InPhase("write_log") \/ InPhase("write_head") \/ InPhase("install")
          \/ InPhase("erase") \/ InPhase("done"))
    BY <1>2 DEF InPhase, Committer
  <2>1. CASE outstanding = 1
    <3>1. Active' = {} /\ outstanding' = 0 /\ committing' /\ tail' = 0
      BY <2>1, <1>4, FS_EmptySet
    <3>2. pc'[p] = IF lh = <<>> THEN "done" ELSE "write_log"
      BY <2>1 DEF TypeOK
    <3>3. ControlInv'
      BY <3>1, <3>2, <1>3, <1>4 DEF ControlInv, Committer
    <3>4. ~InPhase("write_head")' /\ ~InPhase("install")' /\ ~InPhase("erase")'
          /\ (InPhase("done")' <=> lh = <<>>) /\ (InPhase("write_log")' <=> lh # <<>>)
      BY <3>2, <1>3, PhaseOfNext
    <3>5. HeaderInv'
      <4>1. lh # <<>> => 0 < Len(lh)
        BY DEF TypeOK
      <4> QED
        BY SMTT(30), <4>1, <3>1, <3>4, <2>0, <1>2 DEF HeaderInv, Distinct, TypeOK
    <3>6. LogAreaInv'
      BY SMTT(30), <3>1, <3>4, <1>2 DEF LogAreaInv, Booting
    <3>7. PinInv'
      <4>1. NotInstalled' = NotInstalled
        BY <3>4, <2>0, <1>2 DEF NotInstalled, Logged
      <4> QED
        BY <4>1 DEF PinInv
    <3> QED
      BY <3>3, <3>5, <3>6, <3>7
  <2>2. CASE outstanding # 1
    <3>1. SamePhase
      BY Zenon, <2>2, <1>2 DEF SamePhase, wakeup, Committer, TypeOK
    <3>2. outstanding' # 0 /\ ~committing'
      BY <2>2, <1>2, <1>4
    <3>3. ControlInv'
      BY Zenon, <3>1, <3>2, <1>2, <1>3, <1>4, PhaseFrame DEF ControlInv
    <3>4. HeaderInv'
      BY SMTT(30), <3>1, <3>2, <2>0, <2>2, <1>2, PhaseFrame DEF HeaderInv, Distinct
    <3>5. LogAreaInv'
      BY SMTT(30), <3>1, <2>0, <2>2, <1>2, PhaseFrame DEF LogAreaInv, Booting
    <3>6. PinInv'
      <4>1. NotInstalled' = NotInstalled
        BY <3>1, <2>0, <1>2, PhaseFrame DEF NotInstalled, Logged
      <4> QED
        BY <4>1 DEF PinInv
    <3> QED
      BY <3>3, <3>4, <3>5, <3>6
  <2> QED
    BY <2>1, <2>2
<1> QED
  BY <1>5, <1>6, <1>7

\* What every step of commit() by p starts from and leaves alone: p is the only
\* process there, no operation runs, and the other processes keep their place.
LEMMA CommitterAlone ==
  ASSUME IInv, NEW p \in Procs, pc[p] \in Committer, mode = "up"
  PROVE  /\ committing /\ Active = {} /\ outstanding = 0 /\ mode \notin Booting
         /\ \A q \in Procs : pc[q] \in Committer => q = p
<1> USE DEF IInv
<1>1. committing /\ Active = {}
  BY DEF ControlInv
<1> QED
  BY <1>1, FS_EmptySet DEF ControlInv, Booting

\* Copying one block to the log preserves the invariant.
LEMMA write_log_Inv ==
  ASSUME IInv, NEW p \in Procs, write_log(p)
  PROVE  IInv'
<1> USE LogAssumption DEF IInv, write_log, Advance
<1>1. /\ pc[p] = "write_log" /\ committing /\ Active = {} /\ mode \notin Booting
      /\ \A q \in Procs : pc[q] \in Committer => q = p
  BY CommitterAlone DEF Committer
<1>2. /\ InPhase("write_log") /\ ~InPhase("write_head") /\ ~InPhase("install")
      /\ ~InPhase("erase") /\ ~InPhase("done")
  BY <1>1, PhaseOf
<1>3. /\ tail \in Nat /\ tail < Len(lh) /\ Len(lh) \in Nat /\ lh[tail + 1] \in Blocks
      /\ tail + 1 \in 1..Capacity /\ lh # <<>> /\ head = <<>>
      /\ \A i \in 1..Len(lh) : lh[i] \in Blocks
  BY SMTT(30), <1>1, <1>2 DEF HeaderInv, TypeOK, Capacity
<1>4. NotInstalled = Logged
  BY <1>1, <1>2 DEF NotInstalled
<1>5. cache[lh[tail + 1]] # Absent
  BY <1>3, <1>4 DEF PinInv, Logged
<1>6. cache' = cache /\ logarea' = [logarea EXCEPT ![tail + 1] = cache[lh[tail + 1]]]
  BY <1>3, <1>5 DEF bread, TypeOK
<1>7. /\ pc' \in [Procs -> {"idle", "begin", "asleep", "op"} \cup Committer]
      /\ \A q \in Procs : pc'[q] \in Committer => q = p
      /\ pc'[p] = IF tail + 1 < Len(lh) THEN "write_log" ELSE "write_head"
      /\ Active' = Active
  BY <1>1 DEF TypeOK, Committer, Active
<1>8. /\ InPhase("write_log")' <=> tail + 1 < Len(lh)
      /\ InPhase("write_head")' <=> ~(tail + 1 < Len(lh))
      /\ ~InPhase("install")' /\ ~InPhase("erase")' /\ ~InPhase("done")'
  BY SMTT(30), <1>7, PhaseOfNext
<1>9. TypeOK'
  <2>1. cache[lh[tail + 1]] \in Vals
    BY <1>3, <1>5 DEF TypeOK
  <2> QED
    BY SMTT(30), <2>1, <1>3, <1>6, <1>7 DEF TypeOK, Capacity
<1>10. (mode # "log.committing" /\ BootInv)'
  BY <1>1 DEF BootInv
<1>11. ControlInv'
  BY <1>1, <1>7 DEF ControlInv, Committer
<1>12. HeaderInv'
  BY SMTT(30), <1>1, <1>3, <1>8 DEF HeaderInv, Distinct
<1>13. LogAreaInv'
  <2>1. \A i \in 1..(tail + 1) : logarea'[i] = cache[lh[i]]
    BY SMTT(30), <1>2, <1>3, <1>6 DEF LogAreaInv, TypeOK
  <2>2. tail + 1 < Len(lh) => tail' = tail + 1
    OBVIOUS
  <2>3. ~(tail + 1 < Len(lh)) => tail + 1 = Len(lh)
    BY <1>3
  <2> QED
    BY SMTT(30), <2>1, <2>2, <2>3, <1>1, <1>6, <1>8 DEF LogAreaInv, Booting
<1>14. PinInv'
  <2>1. NotInstalled' = NotInstalled
    BY Zenon, <1>1, <1>4, <1>8 DEF NotInstalled, Logged
  <2> QED
    BY <2>1, <1>6 DEF PinInv
<1> QED
  BY <1>9, <1>10, <1>11, <1>12, <1>13, <1>14

\* The commit point preserves the invariant: every logged block's copy is in the log.
LEMMA write_head_Inv ==
  ASSUME IInv, NEW p \in Procs, write_head(p)
  PROVE  IInv'
<1> USE LogAssumption DEF IInv, write_head
<1>1. /\ pc[p] = "write_head" /\ committing /\ Active = {} /\ mode \notin Booting
      /\ \A q \in Procs : pc[q] \in Committer => q = p
  BY CommitterAlone DEF Committer
<1>2. /\ ~InPhase("write_log") /\ InPhase("write_head") /\ ~InPhase("install")
      /\ ~InPhase("erase") /\ ~InPhase("done")
  BY <1>1, PhaseOf
<1>3. tail = 0 /\ lh # <<>> /\ Len(lh) \in Nat /\ 0 < Len(lh)
  BY SMTT(30), <1>1, <1>2 DEF HeaderInv, TypeOK
<1>4. /\ pc' \in [Procs -> {"idle", "begin", "asleep", "op"} \cup Committer]
      /\ \A q \in Procs : pc'[q] \in Committer => q = p
      /\ pc'[p] = "install"
      /\ Active' = Active
  BY <1>1 DEF TypeOK, Committer, Active
<1>5. /\ ~InPhase("write_log")' /\ ~InPhase("write_head")' /\ InPhase("install")'
      /\ ~InPhase("erase")' /\ ~InPhase("done")'
  BY <1>4, PhaseOfNext
<1>6. TypeOK'
  BY <1>4 DEF TypeOK, Capacity
<1>7. (mode # "log.committing" /\ BootInv)'
  BY <1>1 DEF BootInv
<1>8. ControlInv'
  BY SMTT(30), <1>1, <1>4 DEF ControlInv, Committer
<1>9. HeaderInv'
  BY SMTT(30), <1>1, <1>3, <1>5 DEF HeaderInv, Distinct
<1>10. LogAreaInv'
  BY SMTT(30), <1>1, <1>2, <1>3, <1>5 DEF LogAreaInv, Booting
<1>11. PinInv'
  <2>1. NotInstalled' = NotInstalled
    BY SMTT(30), <1>1, <1>2, <1>3, <1>5 DEF NotInstalled, Logged
  <2> QED
    BY <2>1 DEF PinInv
<1> QED
  BY <1>6, <1>7, <1>8, <1>9, <1>10, <1>11

\* Installing one block preserves the invariant: it is unpinned once its buffer agrees with the disk.
LEMMA install_trans_Inv ==
  ASSUME IInv, NEW p \in Procs, install_trans(p)
  PROVE  IInv'
<1> USE LogAssumption DEF IInv, install_trans, CopyHome, Advance
<1>1. /\ pc[p] = "install" /\ committing /\ Active = {} /\ mode \notin Booting
      /\ \A q \in Procs : pc[q] \in Committer => q = p
  BY CommitterAlone DEF Committer
<1>2. /\ ~InPhase("write_log") /\ ~InPhase("write_head") /\ InPhase("install")
      /\ ~InPhase("erase") /\ ~InPhase("done")
  BY SMTT(30), <1>1, PhaseOf
<1> DEFINE b == lh[tail + 1]
<1>3. /\ tail \in Nat /\ tail < Len(lh) /\ Len(lh) \in Nat /\ b \in Blocks
      /\ tail + 1 \in 1..Capacity /\ lh # <<>> /\ head = lh
      /\ \A i \in 1..Len(lh) : lh[i] \in Blocks /\ (lh[i] = b => i = tail + 1)
      /\ logarea[tail + 1] \in Vals
  BY SMTT(30), <1>1, <1>2 DEF HeaderInv, TypeOK, Capacity, Distinct
<1>4. NotInstalled = {lh[i] : i \in (tail + 1)..Len(lh)}
  BY SMTT(30), <1>1, <1>2 DEF NotInstalled
<1>5. pins[b] = 1 /\ pins' = [pins EXCEPT ![b] = 0]
  <2>1. b \in NotInstalled
    BY <1>3, <1>4
  <2>2. pins[b] = 1
    BY SMTT(30), <2>1, <1>3 DEF PinInv
  <2> QED
    BY <2>2, <1>3 DEF TypeOK
<1>6. /\ pc' \in [Procs -> {"idle", "begin", "asleep", "op"} \cup Committer]
      /\ \A q \in Procs : pc'[q] \in Committer => q = p
      /\ pc'[p] = IF tail + 1 < Len(lh) THEN "install" ELSE "erase"
      /\ Active' = Active
  BY <1>1 DEF TypeOK, Committer, Active
<1>7. /\ InPhase("install")' <=> tail + 1 < Len(lh)
      /\ InPhase("erase")' <=> ~(tail + 1 < Len(lh))
      /\ ~InPhase("write_log")' /\ ~InPhase("write_head")' /\ ~InPhase("done")'
  BY <1>6, PhaseOfNext
<1>8. /\ tail + 1 < Len(lh) => tail' = tail + 1
      /\ ~(tail + 1 < Len(lh)) => tail' = 0 /\ tail + 1 = Len(lh)
  BY SMTT(30), <1>3
<1>9. TypeOK'
  BY SMTT(30), <1>3, <1>5, <1>6 DEF TypeOK, Capacity
<1>10. (mode # "log.committing" /\ BootInv)'
  BY <1>1 DEF BootInv
<1>11. ControlInv'
  BY SMTT(30), <1>1, <1>6 DEF ControlInv, Committer
<1>12. HeaderInv'
  BY SMTT(30), <1>1, <1>3, <1>7, <1>8 DEF HeaderInv, Distinct
<1>13. LogAreaInv'
  <2>1. \A i \in 1..(tail + 1) : disk'[lh[i]] = logarea[i]
    BY SMTT(30), <1>2, <1>3 DEF LogAreaInv, TypeOK
  <2>2. \A i \in (tail + 2)..Len(lh) : logarea[i] = cache'[lh[i]]
    BY SMTT(30), <1>2, <1>3 DEF LogAreaInv, TypeOK
  <2> QED
    BY SMTT(30), <2>1, <2>2, <1>1, <1>3, <1>7, <1>8 DEF LogAreaInv, Booting
<1>14. PinInv'
  <2>1. NotInstalled' = NotInstalled \ {b}
    <3>1. CASE tail + 1 < Len(lh)
      <4>1. NotInstalled' = {lh[i] : i \in (tail + 2)..Len(lh)}
        BY SMTT(30), <3>1, <1>1, <1>3, <1>7, <1>8 DEF NotInstalled
      <4> QED
        BY SMTT(30), <4>1, <1>3, <1>4
    <3>2. CASE ~(tail + 1 < Len(lh))
      <4>1. NotInstalled' = {}
        BY SMTT(30), <3>2, <1>1, <1>7 DEF NotInstalled
      <4> QED
        BY SMTT(30), <4>1, <3>2, <1>3, <1>4
    <3> QED
      BY <3>1, <3>2
  <2>2. pins' = [x \in Blocks |-> IF x \in NotInstalled' THEN 1 ELSE 0]
    BY SMTT(30), <2>1, <1>3, <1>5 DEF PinInv
  <2>3. \A x \in Blocks : IF pins'[x] = 0 THEN cache'[x] \in {Absent, disk'[x]}
                                          ELSE cache'[x] # Absent
    BY SMTT(30), <1>3, <1>5 DEF PinInv, TypeOK
  <2> QED
    BY <2>2, <2>3 DEF PinInv
<1> QED
  BY SMTT(30), <1>9, <1>10, <1>11, <1>12, <1>13, <1>14

\* Erasing the header preserves the invariant: everything is installed.
LEMMA erase_log_Inv ==
  ASSUME IInv, NEW p \in Procs, erase_log(p)
  PROVE  IInv'
<1> USE LogAssumption DEF IInv, erase_log
<1>1. /\ pc[p] = "erase" /\ committing /\ Active = {} /\ mode \notin Booting
      /\ \A q \in Procs : pc[q] \in Committer => q = p
  BY CommitterAlone DEF Committer
<1>2. /\ ~InPhase("write_log") /\ ~InPhase("write_head") /\ ~InPhase("install")
      /\ InPhase("erase") /\ ~InPhase("done")
  BY <1>1, PhaseOf
<1>3. tail = 0
  BY SMTT(30), <1>1, <1>2 DEF HeaderInv
<1>4. /\ pc' \in [Procs -> {"idle", "begin", "asleep", "op"} \cup Committer]
      /\ \A q \in Procs : pc'[q] \in Committer => q = p
      /\ pc'[p] = "done"
      /\ Active' = Active
  BY SMTT(30), <1>1 DEF TypeOK, Committer, Active
<1>5. /\ ~InPhase("write_log")' /\ ~InPhase("write_head")' /\ ~InPhase("install")'
      /\ ~InPhase("erase")' /\ InPhase("done")'
  BY SMTT(30), <1>4, PhaseOfNext
<1>6. TypeOK'
  <2>1. <<>> \in Seq(Blocks) /\ Len(<<>>) = 0 /\ Capacity \in Nat
    BY DEF Capacity
  <2> QED
    BY SMTT(30), <2>1, <1>4 DEF TypeOK
<1>7. (mode # "log.committing" /\ BootInv)'
  BY <1>1 DEF BootInv
<1>8. ControlInv'
  BY SMTT(30), <1>1, <1>4 DEF ControlInv, Committer
<1>9. HeaderInv'
  BY SMTT(30), <1>1, <1>3, <1>5 DEF HeaderInv, Distinct
<1>10. LogAreaInv'
  BY SMTT(30), <1>1, <1>5 DEF LogAreaInv, Booting
<1>11. PinInv'
  <2>1. NotInstalled = {} /\ NotInstalled' = {}
    BY SMTT(30), <1>1, <1>2, <1>5 DEF NotInstalled, Logged
  <2> QED
    BY SMTT(30), <2>1 DEF PinInv
<1> QED
  BY <1>6, <1>7, <1>8, <1>9, <1>10, <1>11

\* The end of a commit preserves the invariant.
LEMMA commit_done_Inv ==
  ASSUME IInv, NEW p \in Procs, commit_done(p)
  PROVE  IInv'
<1> USE LogAssumption DEF IInv, commit_done, durable
<1>1. /\ pc[p] = "done" /\ committing /\ Active = {} /\ mode \notin Booting
      /\ outstanding = 0
      /\ \A q \in Procs : pc[q] \in Committer => q = p
  BY CommitterAlone DEF Committer
<1>2. /\ ~InPhase("write_log") /\ ~InPhase("write_head") /\ ~InPhase("install")
      /\ ~InPhase("erase") /\ InPhase("done")
  BY <1>1, PhaseOf
<1>3. /\ pc' \in [Procs -> {"idle", "begin", "asleep", "op"} \cup Committer]
      /\ \A q \in Procs : pc'[q] \notin Committer
      /\ Active' = Active
  BY <1>1 DEF TypeOK, Committer, Active, wakeup
<1>4. /\ ~InPhase("write_log")' /\ ~InPhase("write_head")' /\ ~InPhase("install")'
      /\ ~InPhase("erase")' /\ ~InPhase("done")'
  BY Zenon, <1>3 DEF InPhase, Committer
<1>5. TypeOK'
  BY Zenon, <1>3 DEF TypeOK, Capacity
<1>6. (mode # "log.committing" /\ BootInv)'
  BY <1>1 DEF BootInv
<1>7. ControlInv'
  BY Zenon, <1>1, <1>3 DEF ControlInv
<1>8. HeaderInv'
  BY SMTT(30), <1>1, <1>2, <1>4 DEF HeaderInv, Distinct
<1>9. LogAreaInv'
  BY Zenon, <1>1, <1>4 DEF LogAreaInv, Booting
<1>10. PinInv'
  <2>1. NotInstalled' = NotInstalled
    BY Zenon, <1>1, <1>2, <1>4 DEF NotInstalled, Logged
  <2> QED
    BY Zenon, <2>1 DEF PinInv
<1> QED
  BY SMTT(30), <1>5, <1>6, <1>7, <1>8, <1>9, <1>10

\* A crash preserves the invariant: only the disk is left.
LEMMA Crash_Inv ==
  ASSUME IInv, Crash
  PROVE  IInv'
<1> USE LogAssumption DEF IInv, Crash, durable
<1>1. TypeOK'
  <2>1. <<>> \in Seq(Blocks) /\ Len(<<>>) = 0 /\ Capacity \in Nat
    BY DEF Capacity
  <2>2. /\ cache' \in [Blocks -> Vals \cup {Absent}] /\ pins' \in [Blocks -> Nat]
        /\ wrote' \in [Procs -> SUBSET Blocks]
        /\ pc' \in [Procs -> {"idle", "begin", "asleep", "op"} \cup Committer]
    OBVIOUS
  <2>3. /\ outstanding' \in Nat /\ committing' \in BOOLEAN /\ tail' \in Nat
        /\ mode' \in Booting \cup {"up"} \cup Panics
    BY Zenon DEF Booting
  <2> QED
    BY <2>1, <2>2, <2>3 DEF TypeOK
<1>2. (mode # "log.committing" /\ BootInv)' /\ mode' \in Booting
  BY DEF BootInv, Booting
<1>3. ControlInv'
  <2>1. Active' = {} /\ \A q \in Procs : pc'[q] \notin Committer
    BY SMTT(30) DEF Active, Committer
  <2> QED
    BY <2>1, FS_EmptySet DEF ControlInv
<1>4. HeaderInv'
  BY SMTT(30), <1>2 DEF HeaderInv, Distinct
<1>5. LogAreaInv'
  BY SMTT(30) DEF LogAreaInv, InPhase
<1>6. PinInv'
  BY SMTT(30), <1>2 DEF PinInv, NotInstalled
<1> QED
  BY SMTT(30), <1>1, <1>2, <1>3, <1>4, <1>5, <1>6

\* Before recovery is over every process is idle and nothing is pinned.
LEMMA BootIdle ==
  ASSUME IInv, mode \in Booting
  PROVE  /\ \A q \in Procs : pc[q] = "idle" /\ pc[q] \notin Committer
         /\ ~(InPhase("write_log") \/ InPhase("write_head") \/ InPhase("install")
              \/ InPhase("erase") \/ InPhase("done"))
         /\ NotInstalled = {}
<1>1. \A q \in Procs : pc[q] = "idle"
  BY DEF IInv, BootInv
<1> QED
  BY <1>1 DEF InPhase, Committer, NotInstalled

\* Reading the header at boot preserves the invariant.
LEMMA read_head_Inv ==
  ASSUME IInv, read_head
  PROVE  IInv'
<1> USE LogAssumption DEF IInv, read_head, durable
<1>1. mode \in Booting /\ mode' \in Booting
  BY DEF Booting
<1>2. SamePhase
  BY DEF SamePhase
<1>3. TypeOK'
  BY DEF TypeOK, Capacity, Booting
<1>4. (mode # "log.committing" /\ BootInv)'
  BY DEF BootInv, Booting, TypeOK
<1>5. ControlInv'
  BY DEF ControlInv, Active
<1>6. HeaderInv'
  BY SMTT(30), <1>1 DEF HeaderInv, Distinct
<1>7. LogAreaInv'
  BY SMTT(30), <1>1, <1>2, BootIdle, PhaseFrame DEF LogAreaInv, BootInv, Booting
<1>8. PinInv'
  <2>1. NotInstalled = {} /\ NotInstalled' = {}
    BY <1>1 DEF NotInstalled
  <2> QED
    BY <2>1 DEF PinInv
<1> QED
  BY <1>3, <1>4, <1>5, <1>6, <1>7, <1>8

\* Replaying one block preserves the invariant.
LEMMA replay_Inv ==
  ASSUME IInv, replay
  PROVE  IInv'
<1> USE LogAssumption DEF IInv, replay, CopyHome
<1>1. mode \in Booting /\ mode' \in Booting
  BY DEF Booting
<1>2. SamePhase
  BY SMTT(30) DEF SamePhase
<1> DEFINE b == lh[tail + 1]
<1>3. /\ tail \in Nat /\ tail < Len(lh) /\ Len(lh) \in Nat /\ b \in Blocks
      /\ tail + 1 \in 1..Capacity /\ lh = head
      /\ \A i \in 1..Len(lh) : lh[i] \in Blocks /\ (lh[i] = b => i = tail + 1)
      /\ logarea[tail + 1] \in Vals
  BY SMTT(30), <1>1 DEF BootInv, HeaderInv, TypeOK, Capacity, Distinct
<1>4. /\ tail + 1 < Len(lh) => tail' = tail + 1
      /\ ~(tail + 1 < Len(lh)) => tail' = 0 /\ tail + 1 = Len(lh)
  BY SMTT(30), <1>3
<1>5. TypeOK'
  BY SMTT(30), <1>3 DEF TypeOK, Capacity, Booting
<1>6. (mode # "log.committing" /\ BootInv)'
  BY SMTT(30), <1>1, <1>3, <1>4 DEF BootInv, Booting
<1>7. ControlInv'
  BY SMTT(30) DEF ControlInv, Active
<1>8. HeaderInv'
  BY SMTT(30), <1>1, <1>3 DEF HeaderInv, Distinct
<1>9. LogAreaInv'
  <2>1. \A i \in 1..(tail + 1) : disk'[lh[i]] = logarea[i]
    BY SMTT(30), <1>3 DEF LogAreaInv, TypeOK
  <2>2. ~(InPhase("write_log") \/ InPhase("write_head") \/ InPhase("install") \/ InPhase("erase"))'
    <3> HIDE DEF IInv, replay
    <3> QED
      BY Zenon, <1>1, <1>2, BootIdle, PhaseFrame
  <2>3. logarea' = logarea /\ lh' = lh
    OBVIOUS
  <2>4. mode' = "replay" => \A i \in 1..tail' : disk'[lh[i]] = logarea[i]
    BY <2>1, <1>3, <1>4
  <2>5. mode' = "erase" => \A i \in 1..Len(lh) : disk'[lh[i]] = logarea[i]
    BY <2>1, <1>3, <1>4
  <2> HIDE DEF IInv, replay, CopyHome
  <2> QED
    BY Zenon, <2>2, <2>3, <2>4, <2>5 DEF LogAreaInv
<1>10. PinInv'
  <2>1. NotInstalled = {} /\ NotInstalled' = {}
    BY Zenon, <1>1 DEF NotInstalled
  <2> QED
    BY <2>1, <1>3 DEF PinInv, TypeOK
<1> QED
  BY <1>5, <1>6, <1>7, <1>8, <1>9, <1>10

\* The end of recovery preserves the invariant: the replayed blocks are home.
LEMMA recover_done_Inv ==
  ASSUME IInv, recover_done
  PROVE  IInv'
<1>1. mode \in Booting /\ mode' = "up" /\ mode' \notin Booting
  BY DEF Booting, recover_done
<1>2. SamePhase
  BY DEF SamePhase, recover_done
<1>3. /\ ~InPhase("write_log")' /\ ~InPhase("write_head")' /\ ~InPhase("install")'
      /\ ~InPhase("erase")' /\ ~InPhase("done")'
  BY Zenon, <1>1, <1>2, BootIdle, PhaseFrame
<1>4. tail = 0 /\ tail' = 0 /\ lh' = <<>> /\ head' = <<>> /\ Len(lh') = 0
  BY DEF IInv, BootInv, recover_done, Booting
<1>5. TypeOK'
  <2>1. <<>> \in Seq(Blocks) /\ Len(<<>>) = 0 /\ Capacity \in Nat
    BY LogAssumption DEF Capacity
  <2> QED
    BY <2>1 DEF IInv, TypeOK, recover_done
<1>6. (mode # "log.committing" /\ BootInv)'
  BY <1>1 DEF BootInv
<1>7. ControlInv'
  BY SMTT(30), LogAssumption DEF IInv, recover_done, ControlInv, Active
<1>8. HeaderInv'
  <2>1. Distinct(lh)' /\ Distinct(head)'
    BY <1>4 DEF Distinct
  <2> QED
    BY Zenon, <2>1, <1>3, <1>4 DEF HeaderInv
<1>9. LogAreaInv'
  <2>1. mode' # "replay" /\ mode' # "erase"
    BY <1>1
  <2> QED
    BY Zenon, <2>1, <1>3 DEF LogAreaInv
<1>10. PinInv'
  <2>1. NotInstalled = {}
    BY Zenon, <1>1, BootIdle
  <2>2. Logged' = {}
    BY <1>4 DEF Logged
  <2>3. NotInstalled' = {}
    BY Zenon, <2>2, <1>1, <1>3 DEF NotInstalled
  <2>4. PinInv /\ pins' = pins /\ cache' = cache /\ disk' = disk
    BY DEF IInv, recover_done
  <2> QED
    BY Zenon, <2>1, <2>3, <2>4 DEF PinInv
<1> QED
  BY <1>5, <1>6, <1>7, <1>8, <1>9, <1>10 DEF IInv

\* Every step of the log preserves the invariant.
LEMMA NextInv == IInv /\ [Next]_vars => IInv'
<1> SUFFICES ASSUME IInv, [Next]_vars PROVE IInv'
  OBVIOUS
<1>1. ASSUME NEW p \in Procs, begin_op(p) \/ begin_op_sleep(p) \/ end_op(p) \/ Commit(p)
      PROVE  IInv'
  BY <1>1, begin_op_Inv, begin_op_sleep_Inv, end_op_Inv, write_log_Inv, write_head_Inv,
     install_trans_Inv, erase_log_Inv, commit_done_Inv DEF Commit
<1>2. ASSUME NEW p \in Procs, NEW b \in Blocks,
             log_write_panic(p, b) \/ \E v \in Vals : log_write(p, b, v)
      PROVE  IInv'
  BY <1>2, log_write_panic_Inv, log_write_Inv
<1>3. ASSUME NEW b \in Blocks, bread_miss(b) \/ bget_recycle(b) PROVE IInv'
  BY <1>3, bread_miss_Inv, bget_recycle_Inv
<1>4. CASE Recover
  BY <1>4, read_head_Inv, replay_Inv, recover_done_Inv DEF Recover
<1>5. CASE Crash
  BY <1>5, Crash_Inv
<1>6. CASE UNCHANGED vars
  <2> USE <1>6 DEF vars, IInv
  <2>1. TypeOK' /\ mode' # "log.committing"
    BY DEF TypeOK
  <2>2. BootInv' /\ ControlInv'
    BY DEF BootInv, ControlInv, Active
  <2>3. \A ph : InPhase(ph)' <=> InPhase(ph)
    BY DEF InPhase
  <2>4. HeaderInv'
    BY Zenon, <2>3 DEF HeaderInv, Distinct
  <2>5. LogAreaInv'
    BY Zenon, <2>3 DEF LogAreaInv
  <2>6. PinInv'
    BY Zenon, <2>3 DEF PinInv, NotInstalled, Logged
  <2> QED
    BY SMTT(30), <2>1, <2>2, <2>4, <2>5, <2>6
<1> QED
  BY <1>1, <1>2, <1>3, <1>4, <1>5, <1>6 DEF Next

\* The inductive invariant holds throughout.
THEOREM Invariance == Spec => []IInv
  BY InitInv, NextInv, PTL DEF Spec

----------------------------------------------------------------------------
(* The safety properties that follow from the invariant.                   *)

\* Every variable keeps its type; in particular no step indexes the on-disk
\* log past its last block, in a commit or in recovery.
THEOREM TypeCorrect == Spec => []TypeOK
<1>1. IInv => TypeOK
  BY DEF IInv
<1> QED
  BY <1>1, Invariance, PTL

\* An update is pinned in memory until it is on disk: recycling any unpinned
\* buffer (bget) never loses one.
THEOREM PinSafety == Spec => []PinnedUntilInstalled
<1>1. IInv => PinnedUntilInstalled
  BY DEF IInv, PinInv, PinnedUntilInstalled
<1> QED
  BY <1>1, Invariance, PTL

\* When nothing runs, everything is durable and the log is empty.
THEOREM QuietDurability == Spec => []QuietMeansDurable
<1>1. IInv => QuietMeansDurable
  <2> SUFFICES ASSUME IInv, mode = "up", outstanding = 0, ~committing
               PROVE  head = <<>> /\ lh = <<>> /\ \A b \in Blocks : bread(b) = disk[b]
    BY DEF QuietMeansDurable
  <2> USE DEF IInv
  <2>1. \A p \in Procs : pc[p] \notin Committer
    BY DEF ControlInv
  <2>2. ~InPhase("install") /\ ~InPhase("erase") /\ mode \notin Booting
    BY <2>1 DEF InPhase, Committer, Booting
  <2>3. head = <<>> /\ lh = <<>>
    BY <2>2 DEF HeaderInv
  <2>4. NotInstalled = {}
    BY <2>2, <2>3 DEF NotInstalled, Logged
  <2> QED
    BY <2>3, <2>4 DEF PinInv, bread
<1> QED
  BY <1>1, Invariance, PTL

\* One committer, and never while an operation runs.
THEOREM MutualExclusion == Spec => []Exclusion
<1>1. IInv => Exclusion
  BY DEF IInv, ControlInv, Exclusion
<1> QED
  BY <1>1, Invariance, PTL

\* begin_op's sleep is never left without a waker: the lost wakeup of end_op's
\* two wakeup(&log) calls is ruled out.
THEOREM NoLostWakeup == Spec => []SleeperHasWaker
<1>1. Init => SleeperHasWaker
  BY SMTT(30) DEF Init, SleeperHasWaker
<1>2. IInv /\ SleeperHasWaker /\ [Next]_vars => SleeperHasWaker'
  <2> SUFFICES ASSUME IInv, SleeperHasWaker, [Next]_vars, mode' = "up",
                      ~committing', ~(outstanding' > 0),
                      NEW q \in Procs, pc'[q] = "asleep"
               PROVE  FALSE
    BY DEF SleeperHasWaker
  <2> USE LogAssumption DEF IInv, TypeOK
  <2>1. ASSUME NEW p \in Procs, begin_op(p) PROVE FALSE
    BY SMTT(30), <2>1 DEF begin_op
  <2>2. ASSUME NEW p \in Procs, begin_op_sleep(p) PROVE FALSE
    <3>1. outstanding = 0 /\ ~committing /\ mode \notin Booting
      BY SMTT(30), <2>2 DEF begin_op_sleep, Booting
    <3>2. lh = <<>>
      BY SMTT(30), <3>1 DEF HeaderInv
    <3> QED
      BY SMTT(30), <2>2, <3>1, <3>2 DEF begin_op_sleep, Full
  <2>3. ASSUME NEW p \in Procs, end_op(p) PROVE FALSE
    BY SMTT(30), <2>3 DEF end_op, wakeup
  <2>4. ASSUME NEW p \in Procs, commit_done(p) PROVE FALSE
    BY <2>4 DEF commit_done, wakeup
  <2>5. CASE Crash
    BY SMTT(30), <2>5 DEF Crash
  <2>6. CASE Recover
    <3>1. mode \in Booting /\ pc' = pc
      BY <2>6 DEF Recover, read_head, replay, recover_done, Booting
    <3> QED
      BY SMTT(30), <3>1, BootIdle
  <2>7. ASSUME UNCHANGED <<pc, outstanding, committing, mode>> PROVE FALSE
    BY SMTT(30), <2>7 DEF SleeperHasWaker
  <2>8. ASSUME NEW p \in Procs, write_log(p) \/ write_head(p) \/ install_trans(p) \/ erase_log(p)
        PROVE  FALSE
    <3>1. committing' = committing /\ pc[p] \in Committer
      BY SMTT(30), <2>8 DEF write_log, write_head, install_trans, erase_log, Committer
    <3> QED
      BY SMTT(30), <3>1 DEF ControlInv
  <2>9. ASSUME NEW p \in Procs, NEW b \in Blocks,
               log_write_panic(p, b) \/ \E v \in Vals : log_write(p, b, v)
        PROVE  FALSE
    BY SMTT(30), <2>7, <2>9 DEF log_write_panic, log_write
  <2>10. ASSUME NEW b \in Blocks, bread_miss(b) \/ bget_recycle(b) PROVE FALSE
    BY SMTT(30), <2>7, <2>10 DEF bread_miss, bget_recycle
  <2>11. CASE UNCHANGED vars
    BY <2>7, <2>11 DEF vars
  <2> QED
    BY SMTT(30), <2>1, <2>2, <2>3, <2>4, <2>5, <2>6, <2>8, <2>9, <2>10, <2>11 DEF Next, Commit
<1> QED
  BY <1>1, <1>2, Invariance, PTL DEF Spec
=============================================================================
