------------------------------ MODULE LogPanic ------------------------------
(***************************************************************************)
(* The log's resource bounds, for any number of processes and blocks: when *)
(* log_write may panic (begin_op's reservation), and how many buffers its  *)
(* pins can take.                                                          *)
(***************************************************************************)
EXTENDS LogProofs

\* What operations P, which have logged the blocks w, may still log of what
\* begin_op has reserved for them: one element for each block.
CreditOf(P, w) == {c \in P \X (1..MAXOPBLOCKS) : c[2] > Cardinality(w[c[1]])}
Credit == CreditOf(Active, wrote)

\* The header has room for all of it.
ReserveInv ==
  /\ \A p \in Procs \ Active : wrote[p] = {}
  /\ mode = "up" =>
       /\ \A p \in Active : wrote[p] \subseteq Logged /\ IsFiniteSet(wrote[p])
       /\ Len(lh) + Cardinality(Credit) <= LOGSIZE

RInv == ReserveInv /\ PanicMeansSpent

\* The log on disk is no smaller than LOGSIZE (param.h and mkfs.c make them
\* equal), and no operation logs more blocks than it has reserved (which log.c
\* asks of its callers and does not enforce).
Sized == NLOG >= LOGSIZE /\ MaxWrites <= MAXOPBLOCKS

----------------------------------------------------------------------------

\* The credit of running operations is finite and within what they reserved.
LEMMA CreditFinite ==
  ASSUME NEW P \in SUBSET Procs, NEW w
  PROVE  /\ IsFiniteSet(P) /\ Cardinality(P) \in Nat
         /\ IsFiniteSet(CreditOf(P, w)) /\ Cardinality(CreditOf(P, w)) \in Nat
         /\ Cardinality(CreditOf(P, w)) <= Cardinality(P) * MAXOPBLOCKS
<1>1. IsFiniteSet(P) /\ Cardinality(P) \in Nat
  BY LogAssumption, FS_Subset, FS_CardinalityType, Zenon
<1>2. IsFiniteSet(1..MAXOPBLOCKS) /\ Cardinality(1..MAXOPBLOCKS) = MAXOPBLOCKS
  <2>1. MAXOPBLOCKS \in Nat /\ 1 \in Int /\ MAXOPBLOCKS \in Int /\ MAXOPBLOCKS - 1 + 1 = MAXOPBLOCKS
    BY LogAssumption
  <2> QED BY <2>1, LogAssumption, FS_Interval
<1>3. /\ IsFiniteSet(P \X (1..MAXOPBLOCKS))
      /\ Cardinality(P \X (1..MAXOPBLOCKS)) = Cardinality(P) * MAXOPBLOCKS
  BY <1>1, <1>2, FS_Product, Zenon
<1>4. CreditOf(P, w) \subseteq P \X (1..MAXOPBLOCKS)
  BY Zenon DEF CreditOf
<1> QED BY <1>1, <1>3, <1>4, FS_Subset, FS_CardinalityType, Zenon

\* Operations that have ended have no credit left.
LEMMA CreditShrinks ==
  ASSUME NEW P \in SUBSET Procs, NEW Q \in SUBSET P, NEW w, NEW x,
         \A p \in Q : x[p] = w[p]
  PROVE  Cardinality(CreditOf(Q, x)) <= Cardinality(CreditOf(P, w))
<1>1. CreditOf(Q, x) \subseteq CreditOf(P, w)
  BY Zenon DEF CreditOf
<1> QED BY <1>1, CreditFinite, FS_Subset, Zenon

\* Logging one block more costs an operation one unit of its credit.
LEMMA CreditSpent ==
  ASSUME NEW P \in SUBSET Procs, NEW w, NEW x, NEW p \in P,
         IsFiniteSet(w[p]), NEW b, b \notin w[p], x[p] = w[p] \cup {b},
         \A q \in P \ {p} : x[q] = w[q], Cardinality(x[p]) <= MAXOPBLOCKS
  PROVE  Cardinality(CreditOf(P, w)) = Cardinality(CreditOf(P, x)) + 1
<1> DEFINE n == Cardinality(w[p])
<1>1. n \in Nat /\ Cardinality(x[p]) = n + 1
  <2>1. n \in Nat
    BY FS_CardinalityType, Zenon
  <2>2. Cardinality(w[p] \cup {b}) = n + 1
    BY FS_AddElement, Zenon
  <2> QED BY <2>1, <2>2, Zenon
<1>2. n + 1 \in 1..MAXOPBLOCKS
  BY <1>1, LogAssumption
<1>3. <<p, n + 1>> \in CreditOf(P, w)
  BY <1>1, <1>2 DEF CreditOf
<1>4. CreditOf(P, x) = CreditOf(P, w) \ {<<p, n + 1>>}
  <2>1. ASSUME NEW q \in P, NEW i \in 1..MAXOPBLOCKS
        PROVE  i > Cardinality(x[q]) <=> i > Cardinality(w[q]) /\ <<q, i>> # <<p, n + 1>>
    <3>1. CASE q = p
      BY <1>1, <3>1, LogAssumption
    <3>2. CASE q # p
      BY <3>2, Zenon
    <3> QED BY <3>1, <3>2, Zenon
  <2>2. /\ \A c \in CreditOf(P, x) \cup CreditOf(P, w) : 
             c[1] \in P /\ c[2] \in 1..MAXOPBLOCKS /\ c = <<c[1], c[2]>>
    BY DEF CreditOf
  <2> QED BY <2>1, <2>2, Zenon DEF CreditOf
<1>5. IsFiniteSet(CreditOf(P, w)) /\ Cardinality(CreditOf(P, w)) \in Nat
  BY CreditFinite, Zenon
<1>6. Cardinality(CreditOf(P, w) \ {<<p, n + 1>>}) = Cardinality(CreditOf(P, w)) - 1
  <2>1. \A S, e : IsFiniteSet(S) /\ e \in S => Cardinality(S \ {e}) = Cardinality(S) - 1
    BY FS_RemoveElement, Zenon
  <2> QED BY <1>3, <1>5, <2>1, Zenon
<1> QED BY <1>4, <1>5, <1>6

\* A step that logs nothing and starts no operation.
LEMMA QuietStep ==
  ASSUME RInv, IInv, mode = "up", mode' = "up", lh' = lh \/ lh' = <<>>,
         Active' = {} \/ lh' = lh,
         Active' \subseteq Active, \A p \in Active' : wrote'[p] = wrote[p],
         \A p \in Procs \ Active' : wrote'[p] = {}
  PROVE  RInv'
<1>1. Active \subseteq Procs
  BY Zenon DEF Active
<1>2. Cardinality(Credit') <= Cardinality(Credit)
  BY <1>1, CreditShrinks, Zenon DEF Credit
<1>3. /\ Cardinality(Credit) \in Nat /\ Cardinality(Credit') \in Nat
  BY <1>1, CreditFinite, Zenon DEF Credit
<1>4. Len(lh) \in Nat /\ Len(lh') \in Nat /\ Len(lh') <= Len(lh) /\ LOGSIZE \in Nat
  BY LogAssumption DEF IInv, TypeOK
<1>5. Len(lh') + Cardinality(Credit') <= LOGSIZE
  BY <1>2, <1>3, <1>4 DEF RInv, ReserveInv
<1>6. \A p \in Active' : wrote'[p] \subseteq Logged' /\ IsFiniteSet(wrote'[p])
  BY Zenon DEF RInv, ReserveInv, Logged
<1> QED BY <1>5, <1>6, Zenon DEF RInv, ReserveInv, PanicMeansSpent, Panics

\* begin_op's test leaves room for the whole reservation of the new operation.
LEMMA begin_op_Room == ASSUME RInv, IInv, NEW p \in Procs, begin_op(p) PROVE RInv'
<1>1. /\ mode = "up" /\ mode' = "up" /\ lh' = lh /\ wrote' = wrote
      /\ ~Full /\ pc[p] # "op" /\ pc' = [pc EXCEPT ![p] = "op"]
  BY Zenon DEF begin_op
<1>2. /\ outstanding = Cardinality(Active) /\ wrote[p] = {}
      /\ Active \subseteq Procs /\ p \notin Active /\ Active' = Active \cup {p}
  BY <1>1, Zenon DEF IInv, ControlInv, RInv, ReserveInv, Active, TypeOK
<1>3. Cardinality(Active') = outstanding + 1 /\ outstanding \in Nat
  BY <1>2, CreditFinite, FS_AddElement, Zenon
<1>4. Cardinality(Credit') \in Nat /\ Cardinality(Credit') <= (outstanding + 1) * MAXOPBLOCKS
  BY <1>2, <1>3, CreditFinite, Zenon DEF Credit
<1>5. Len(lh) + Cardinality(Credit') <= LOGSIZE
  <2>1. /\ (outstanding + 1) * MAXOPBLOCKS \in Nat /\ Len(lh) \in Nat /\ LOGSIZE \in Nat
        /\ Len(lh) + (outstanding + 1) * MAXOPBLOCKS <= LOGSIZE
    BY <1>1, <1>3, LogAssumption DEF Full, IInv, TypeOK
  <2> QED BY <1>4, <2>1
<1>6. \A q \in Active' : wrote'[q] \subseteq Logged' /\ IsFiniteSet(wrote'[q])
  <2>1. wrote'[p] = {} /\ IsFiniteSet({})
    BY <1>1, <1>2, FS_EmptySet, Zenon
  <2>2. ASSUME NEW q \in Active PROVE wrote'[q] \subseteq Logged' /\ IsFiniteSet(wrote'[q])
    BY <1>1, <2>2, Zenon DEF RInv, ReserveInv, Logged
  <2> QED BY <1>2, <2>1, <2>2, Zenon
<1> QED BY <1>1, <1>2, <1>5, <1>6, Zenon DEF RInv, ReserveInv, PanicMeansSpent, Panics

\* A block that enters the header was reserved; one that is there already costs
\* nothing.
LEMMA log_write_Room ==
  ASSUME Sized, RInv, IInv, NEW p \in Procs, NEW b \in Blocks, NEW v, log_write(p, b, v)
  PROVE  RInv'
<1>1. /\ mode = "up" /\ mode' = "up" /\ pc[p] = "op" /\ pc' = pc
      /\ wrote' = [wrote EXCEPT ![p] = @ \cup {b}]
      /\ Cardinality(wrote[p] \cup {b}) <= MaxWrites
      /\ b \in Logged => lh' = lh
      /\ b \notin Logged => lh' = Append(lh, b)
  BY Zenon DEF log_write, MayLog
<1>2. /\ p \in Active /\ Active' = Active /\ Active \subseteq Procs /\ wrote \in [Procs -> SUBSET Blocks]
      /\ wrote[p] \subseteq Logged /\ IsFiniteSet(wrote[p])
      /\ lh \in Seq(Blocks) /\ LOGSIZE \in Nat
      /\ Len(lh) + Cardinality(Credit) <= LOGSIZE
  BY <1>1, LogAssumption, Zenon DEF Active, RInv, ReserveInv, IInv, TypeOK
<1>3. wrote'[p] = wrote[p] \cup {b} /\ \A q \in Procs \ {p} : wrote'[q] = wrote[q]
  BY <1>1, <1>2, Zenon
<1>4. /\ IsFiniteSet(wrote'[p]) /\ Cardinality(wrote'[p]) <= MAXOPBLOCKS
  <2>1. IsFiniteSet(wrote'[p])
    BY <1>2, <1>3, FS_AddElement
  <2>2. Cardinality(wrote'[p]) \in Nat /\ Cardinality(wrote'[p]) <= MaxWrites
    BY <1>1, <1>3, <2>1, FS_CardinalityType, Zenon
  <2> QED BY <2>1, <2>2, LogAssumption DEF Sized
<1>5. Logged \cup {b} \subseteq Logged'
  <2>1. CASE b \in Logged
    BY <1>1, <2>1, Zenon DEF Logged
  <2>2. CASE b \notin Logged
    <3>1. /\ Len(lh') = Len(lh) + 1 /\ lh'[Len(lh) + 1] = b
          /\ \A i \in 1..Len(lh) : lh'[i] = lh[i]
      BY <1>1, <1>2, <2>2
    <3>2. Len(lh) \in Nat /\ Len(lh) + 1 \in 1..Len(lh') /\ 1..Len(lh) \subseteq 1..Len(lh')
      BY <1>2, <3>1
    <3> QED BY <3>1, <3>2, Zenon DEF Logged
  <2> QED BY <2>1, <2>2, Zenon
<1>6. \A q \in Active' : wrote'[q] \subseteq Logged' /\ IsFiniteSet(wrote'[q])
  BY <1>1, <1>2, <1>3, <1>4, <1>5, Zenon DEF RInv, ReserveInv
<1>7. Cardinality(Credit) \in Nat /\ Cardinality(Credit') \in Nat
  BY <1>2, CreditFinite, Zenon DEF Credit
<1>8. Len(lh') + Cardinality(Credit') <= LOGSIZE
  <2>1. CASE b \in wrote[p]
    <3>1. wrote'[p] = wrote[p] /\ lh' = lh
      BY <1>1, <1>2, <1>3, <2>1, Zenon
    <3>2. Cardinality(Credit') <= Cardinality(Credit)
      BY <1>2, <1>3, <3>1, CreditShrinks, Zenon DEF Credit
    <3> QED BY <1>2, <1>7, <3>1, <3>2
  <2>2. CASE b \notin wrote[p]
    <3>1. Cardinality(Credit) = Cardinality(Credit') + 1
      BY <1>2, <1>3, <1>4, <2>2, CreditSpent, Zenon DEF Credit
    <3>2. Len(lh) \in Nat /\ Len(lh') \in Nat /\ Len(lh') <= Len(lh) + 1
      BY <1>1, <1>2
    <3> QED BY <1>2, <1>7, <3>1, <3>2
  <2> QED BY <2>1, <2>2, Zenon
<1>9. \A q \in Procs \ Active' : wrote'[q] = {}
  BY <1>1, <1>2, <1>3, Zenon DEF RInv, ReserveInv
<1> QED BY <1>1, <1>6, <1>8, <1>9, Zenon DEF RInv, ReserveInv, PanicMeansSpent, Panics

\* The panic: at most one block of all reservations is not logged.
LEMMA log_write_panic_Spent ==
  ASSUME Sized, RInv, IInv, NEW p \in Procs, NEW b \in Blocks, log_write_panic(p, b)
  PROVE  RInv'
<1>1. /\ mode = "up" /\ p \in Active /\ (TooBig \/ outstanding < 1)
      /\ mode' = IF TooBig THEN "too big a transaction" ELSE "log_write outside of trans"
      /\ UNCHANGED <<lh, pc, wrote, outstanding>>
  BY Zenon DEF log_write_panic, MayLog, Active
<1>2. /\ Active \subseteq Procs /\ lh \in Seq(Blocks) /\ outstanding = Cardinality(Active)
      /\ Len(lh) + Cardinality(Credit) <= LOGSIZE
      /\ \A q \in Active : IsFiniteSet(wrote[q])
  BY <1>1, Zenon DEF Active, RInv, ReserveInv, IInv, TypeOK, ControlInv
<1>3. outstanding \in Nat /\ outstanding # 0
  <2>1. outstanding \in Nat /\ IsFiniteSet(Active)
    BY <1>2, CreditFinite, Zenon
  <2> QED BY <1>1, <1>2, <2>1, FS_EmptySet, Zenon
<1>4. TooBig /\ mode' = "too big a transaction"
  <2>1. ~(outstanding < 1)
    BY <1>3
  <2> QED BY <1>1, <2>1, Zenon
<1>5. Cardinality(Credit) \in Nat /\ IsFiniteSet(Credit) /\ Cardinality(Credit) <= 1
  <2>1. Cardinality(Credit) \in Nat /\ IsFiniteSet(Credit)
    BY <1>2, CreditFinite, Zenon DEF Credit
  <2>2. Len(lh) \in Nat /\ Len(lh) + Cardinality(Credit) <= LOGSIZE
    <3>1. lh \in Seq(Blocks)
      BY <1>2, Zenon
    <3>2. Len(lh) \in Nat
      BY <3>1
    <3> QED BY <1>2, <3>2, Zenon
  <2>3. Len(lh) >= LOGSIZE \/ Len(lh) >= NLOG - 1
    BY <1>4, Zenon DEF TooBig
  <2> QED BY <2>1, <2>2, <2>3, LogAssumption DEF Sized
<1>6. ASSUME NEW q \in Active PROVE Cardinality(wrote[q]) + 1 >= MAXOPBLOCKS
  <2> DEFINE n == Cardinality(wrote[q])
  <2>1. n \in Nat /\ MAXOPBLOCKS \in Nat
    BY <1>2, FS_CardinalityType, LogAssumption, Zenon
  <2>2. SUFFICES ASSUME n + 1 < MAXOPBLOCKS PROVE FALSE
    BY <2>1
  <2>3. <<q, n + 1>> \in Credit /\ <<q, n + 2>> \in Credit /\ <<q, n + 1>> # <<q, n + 2>>
    BY <2>1, <2>2 DEF Credit, CreditOf
  <2>4. Cardinality(Credit \ {<<q, n + 1>>}) = Cardinality(Credit) - 1
    BY <1>5, <2>3, FS_RemoveElement, Zenon
  <2>5. IsFiniteSet(Credit \ {<<q, n + 1>>}) /\ <<q, n + 2>> \in Credit \ {<<q, n + 1>>}
    BY <1>5, <2>3, FS_RemoveElement, Zenon
  <2>6. Cardinality(Credit \ {<<q, n + 1>>}) # 0
    BY <2>5, FS_EmptySet, Zenon
  <2>7. Cardinality(Credit \ {<<q, n + 1>>}) \in Nat
    BY <2>5, FS_CardinalityType, Zenon
  <2> QED BY <1>5, <2>4, <2>6, <2>7
<1> QED BY <1>1, <1>4, <1>6, Zenon DEF RInv, ReserveInv, PanicMeansSpent, Active, Panics

\* The invariant of begin_op's reservation is inductive.
LEMMA NextRoom == ASSUME Sized, RInv, IInv, IInv', [Next]_vars PROVE RInv'
<1>1. ASSUME NEW p \in Procs, begin_op_sleep(p) \/ end_op(p) \/ Commit(p) PROVE RInv'
  <2>1. mode = "up" /\ (mode' = "up" \/ mode' = "log.committing")
    BY <1>1, Zenon DEF begin_op_sleep, end_op, Commit, write_log, write_head, install_trans, erase_log, commit_done
  <2>2. mode' = "up"
    BY <2>1, Zenon DEF IInv
  <2>3. pc \in [Procs -> {"idle", "begin", "asleep", "op"} \cup Committer]
    BY Zenon DEF IInv, TypeOK
  <2>4. CASE begin_op_sleep(p)
    <3>1. Active' \subseteq Active /\ (\A q \in Procs \ Active' : q \notin Active) /\ lh' = lh /\ wrote' = wrote
      BY <2>3, <2>4, Zenon DEF begin_op_sleep, Active
    <3> QED BY <2>1, <2>2, <3>1, QuietStep, Zenon DEF RInv, ReserveInv
  <2>5. CASE end_op(p)
    <3>1. Active' = Active \ {p} /\ lh' = lh /\ wrote' = [wrote EXCEPT ![p] = {}]
      BY <2>3, <2>5, Zenon DEF end_op, Active, wakeup
    <3>2. wrote'[p] = {} /\ \A q \in Procs \ {p} : wrote'[q] = wrote[q]
      BY <3>1, Zenon DEF IInv, TypeOK
    <3> QED BY <2>1, <2>2, <3>1, <3>2, QuietStep DEF RInv, ReserveInv
  <2>6. CASE Commit(p)
    <3>1. pc[p] \in Committer /\ wrote' = wrote /\ (lh' = lh \/ lh' = <<>>)
      BY <2>6, Zenon DEF Commit, write_log, write_head, install_trans, erase_log, commit_done, Committer
    <3>2. Active = {}
      BY <3>1, Zenon DEF IInv, ControlInv
    <3>3. Active' = {}
      BY <2>3, <2>6, <3>2 DEF Commit, write_log, write_head, install_trans, erase_log, commit_done,
                              Advance, Active, wakeup
    <3> QED BY <2>1, <2>2, <3>1, <3>2, <3>3, QuietStep, Zenon DEF RInv, ReserveInv
  <2> QED BY <1>1, <2>4, <2>5, <2>6, Zenon
<1>2. CASE UNCHANGED vars \/ \E b \in Blocks : bread_miss(b) \/ bget_recycle(b)
  <2>1. UNCHANGED <<mode, lh, pc, wrote>>
    BY <1>2, Zenon DEF vars, bread_miss, bget_recycle
  <2>2. UNCHANGED <<Active, Logged, Credit>>
    BY <2>1, Zenon DEF Active, Logged, Credit
  <2> QED BY <2>1, <2>2, Zenon DEF RInv, ReserveInv, PanicMeansSpent
<1>3. CASE read_head \/ replay \/ Crash
  <2>1. mode' \in Booting
    BY <1>3, Zenon DEF read_head, replay, Crash, Booting
  <2>2. \A p \in Procs \ Active' : wrote'[p] = {}
    BY <1>3, Zenon DEF read_head, replay, Crash, Active, RInv, ReserveInv
  <2> QED BY <2>1, <2>2, Zenon DEF Booting, RInv, ReserveInv, PanicMeansSpent, Panics
<1>4. CASE recover_done
  <2>1. mode' = "up" /\ lh' = <<>> /\ wrote' = wrote /\ pc' = pc /\ pc = [p \in Procs |-> "idle"]
    BY <1>4, Zenon DEF recover_done, IInv, BootInv, Booting
  <2>2. Active' = {} /\ Active = {}
    BY <2>1, Zenon DEF Active
  <2>3. Credit' = {}
    BY <2>2, Zenon DEF Credit, CreditOf
  <2>4. Len(lh') + Cardinality(Credit') <= LOGSIZE
    <3>1. Len(lh') = 0 /\ Cardinality(Credit') = 0
      BY <2>1, <2>3, FS_EmptySet, Zenon
    <3> QED BY <3>1, LogAssumption
  <2>5. \A p \in Procs : wrote'[p] = {}
    BY <2>1, <2>2, Zenon DEF RInv, ReserveInv
  <2> QED BY <2>1, <2>2, <2>4, <2>5, Zenon DEF RInv, ReserveInv, PanicMeansSpent, Panics
<1> QED BY <1>1, <1>2, <1>3, <1>4, begin_op_Room, log_write_Room, log_write_panic_Spent, Zenon
        DEF Next, Recover

\* It holds at the start.
LEMMA InitRoom == Init => RInv
BY Zenon DEF Init, RInv, ReserveInv, PanicMeansSpent, Active, Panics

\* With the sizes of the code, log_write's panic "too big a transaction" is the
\* only one, and it means that every running operation has logged all it had
\* reserved, or all but one block (begin_op's test and log_write's).
THEOREM PanicTheorem == Sized => (Spec => []PanicMeansSpent)
<1> SUFFICES ASSUME Sized PROVE Spec => []PanicMeansSpent
  OBVIOUS
<1>1. Init => IInv /\ RInv
  BY InitInv, InitRoom, Zenon
<1>2. (IInv /\ RInv) /\ [Next]_vars => (IInv /\ RInv)'
  BY NextInv, NextRoom, Zenon
<1>3. RInv => PanicMeansSpent
  BY Zenon DEF RInv
<1> QED BY <1>1, <1>2, <1>3, PTL DEF Spec

----------------------------------------------------------------------------

PinnedBlocks == {b \in Blocks : pins[b] # 0}

\* The log never pins all buffers of the cache: NBUF equals LOGSIZE in param.h,
\* and log_write stops at log.size - 1 (bpin in log_write, bunpin in
\* install_trans).  What is left may be as little as one buffer.
THEOREM PinsLeaveRoom == NLOG <= LOGSIZE => (Spec => [](Cardinality(PinnedBlocks) < LOGSIZE))
<1> SUFFICES ASSUME NLOG <= LOGSIZE PROVE Spec => [](Cardinality(PinnedBlocks) < LOGSIZE)
  OBVIOUS
<1>1. IInv => Cardinality(PinnedBlocks) < LOGSIZE
  <2> SUFFICES ASSUME IInv PROVE Cardinality(PinnedBlocks) < LOGSIZE
    OBVIOUS
  <2>1. lh \in Seq(Blocks) /\ Len(lh) <= NLOG - 1 /\ tail \in Nat
    BY Zenon DEF IInv, TypeOK, Capacity
  <2>2. Len(lh) \in Nat
    BY <2>1
  <2>3. IsFiniteSet(1..Len(lh)) /\ Cardinality(1..Len(lh)) = Len(lh)
    <3>1. 1 \in Int /\ Len(lh) \in Int
      BY <2>2
    <3>2. /\ IsFiniteSet(1..Len(lh))
          /\ Cardinality(1..Len(lh)) = IF 1 > Len(lh) THEN 0 ELSE Len(lh) - 1 + 1
      BY <3>1, FS_Interval, Zenon
    <3> QED BY <2>2, <3>2
  <2>4. IsFiniteSet(Logged) /\ Cardinality(Logged) <= Len(lh)
    <3>1. lh \in [1..Len(lh) -> Logged] /\ \A b \in Logged : \E i \in 1..Len(lh) : lh[i] = b
      BY <2>1 DEF Logged
    <3>2. lh \in Surjection(1..Len(lh), Logged)
      BY <3>1, Zenon DEF Surjection
    <3>3. IsFiniteSet(Logged) /\ Cardinality(Logged) <= Cardinality(1..Len(lh))
      BY <2>3, <3>2, FS_Surjection, Zenon
    <3> QED BY <2>3, <3>3, Zenon
  <2>5. PinnedBlocks \subseteq Logged
    <3>1. (tail + 1)..Len(lh) \subseteq 1..Len(lh)
      BY <2>1, <2>2
    <3>2. NotInstalled \subseteq Logged
      BY <3>1, Zenon DEF NotInstalled, Logged
    <3>3. \A b \in Blocks : pins[b] # 0 => b \in NotInstalled
      BY DEF IInv, PinInv
    <3> QED BY <3>2, <3>3, Zenon DEF PinnedBlocks
  <2>6. /\ Cardinality(PinnedBlocks) \in Nat /\ Cardinality(Logged) \in Nat
        /\ Cardinality(PinnedBlocks) <= Cardinality(Logged)
    BY <2>4, <2>5, FS_Subset, FS_CardinalityType, Zenon
  <2> QED BY <2>1, <2>2, <2>4, <2>6, LogAssumption
<1> QED BY <1>1, Invariance, PTL
=============================================================================
