------------------------------- MODULE ITable -------------------------------
(***************************************************************************)
(* The in-memory inode table of kernel/fs.c: iget, ialloc, ilock, iunlock, *)
(* iupdate and iput, over the dinodes and the inode bitmap.                *)
(*                                                                         *)
(* A step is one critical section of itable.lock or of an inode's sleep    *)
(* lock.  pc[p] says where p is in ilock or iput, "run" when it is in the  *)
(* system call that called them (module Links); ip[p] is its inode, a slot *)
(* of the table.  Of an inode only type and nlink are kept: the other      *)
(* fields are read and written with them.                                  *)
(***************************************************************************)
EXTENDS Naturals, FiniteSets, FiniteSetsExt

CONSTANTS
  Procs,
  Inums,     \* inode numbers of files
  NINODE     \* entries of the table

Slots == 1..NINODE
NoSlot == 0
NoProc == "nobody"
T_FILE == 2

ASSUME ITableAssumption ==
  /\ Inums \subseteq Nat \ {0} /\ IsFiniteSet(Inums)
  /\ IsFiniteSet(Procs) /\ NoProc \notin Procs
  /\ NINODE \in Nat \ {0}

VARIABLES
  itable,    \* itable[s]: an entry's inum, ref, valid, type and nlink
  holder,    \* holder[s]: the process that has entry s locked
  dinode,    \* the inodes on disk, as the block cache shows them
  ibmap,     \* inode numbers marked in the inode bitmap
  ip,        \* the entry each process is working on
  pc,
  mode       \* "up" or the panic message

ivars == <<itable, holder, dinode, ibmap, ip, pc, mode>>

IInit ==
  /\ itable = [s \in Slots |-> [inum |-> 0, ref |-> 0, valid |-> FALSE, type |-> 0, nlink |-> 0]]
  /\ holder = [s \in Slots |-> NoProc]
  /\ dinode = [i \in Inums |-> [type |-> 0, nlink |-> 0]]
  /\ ibmap = {}
  /\ ip = [p \in Procs |-> NoSlot]
  /\ pc = [p \in Procs |-> "run"]
  /\ mode = "up"

panic(msg) == mode' = msg /\ UNCHANGED <<itable, holder, dinode, ibmap, ip, pc>>

At(p, step) == mode = "up" /\ pc[p] = step

----------------------------------------------------------------------------
(* Pieces of system calls: the caller says what pc[p] becomes.             *)

Free == {s \in Slots : itable[s].ref = 0}

\* Fault: iget takes an empty entry without looking at the rest of the table.
Hits_before_empty(i) ==
  {s \in Slots : itable[s].ref > 0 /\ itable[s].inum = i /\ \A e \in Free : s < e}

Hits(i) == {s \in Slots : itable[s].ref > 0 /\ itable[s].inum = i}

\* A recycled entry keeps the fields of the inode it held before.
iget(p, i) ==
  IF Hits(i) # {}
  THEN LET s == Min(Hits(i)) IN
       /\ itable' = [itable EXCEPT ![s].ref = @ + 1]
       /\ ip' = [ip EXCEPT ![p] = s]
       /\ UNCHANGED mode
  ELSE IF Free = {} THEN mode' = "iget: no inodes" /\ UNCHANGED <<itable, ip>>
  ELSE LET s == Min(Free) IN
       /\ itable' = [itable EXCEPT ![s].inum = i, ![s].ref = 1, ![s].valid = FALSE]
       /\ ip' = [ip EXCEPT ![p] = s]
       /\ UNCHANGED mode

\* Fault: the change is not copied to disk.
nlink_iupdate_in_memory(p, n) ==
  /\ itable' = [itable EXCEPT ![ip[p]].nlink = n]
  /\ UNCHANGED dinode

\* ip->nlink = n; iupdate(ip).
nlink_iupdate(p, n) ==
  LET e == itable[ip[p]] IN
  /\ itable' = [itable EXCEPT ![ip[p]].nlink = n]
  /\ dinode' = [dinode EXCEPT ![e.inum] = [type |-> e.type, nlink |-> n]]

iunlock(p) == holder' = [holder EXCEPT ![ip[p]] = NoProc]

----------------------------------------------------------------------------
(* ilock.                                                                  *)

\* acquiresleep(&ip->lock).
ilock(p) ==
  /\ At(p, "ilock") /\ holder[ip[p]] = NoProc
  /\ holder' = [holder EXCEPT ![ip[p]] = p]
  /\ pc' = [pc EXCEPT ![p] = IF itable[ip[p]].valid THEN "run" ELSE "read"]
  /\ UNCHANGED <<itable, dinode, ibmap, ip, mode>>

\* The rest of ilock for an entry that is not valid.
ilock_read(p) ==
  LET d == dinode[itable[ip[p]].inum] IN
  /\ At(p, "read")
  /\ itable' = [itable EXCEPT ![ip[p]].valid = TRUE, ![ip[p]].type = d.type, ![ip[p]].nlink = d.nlink]
  /\ IF d.type = 0
     THEN mode' = "ilock: no type" /\ UNCHANGED pc
     ELSE pc' = [pc EXCEPT ![p] = "run"] /\ UNCHANGED mode
  /\ UNCHANGED <<holder, dinode, ibmap, ip>>

----------------------------------------------------------------------------
(* iput.                                                                   *)

\* Fault: other references are not looked at.
Last_any_ref(s) == itable[s].valid /\ itable[s].nlink = 0

Last(s) == itable[s].ref = 1 /\ itable[s].valid /\ itable[s].nlink = 0

\* Fault: the reference is dropped twice.
Unref_twice(p) ==
  /\ itable' = [itable EXCEPT ![ip[p]].ref = @ - 2]
  /\ ip' = [ip EXCEPT ![p] = NoSlot]
  /\ pc' = [pc EXCEPT ![p] = "run"]

Unref(p) ==
  /\ itable' = [itable EXCEPT ![ip[p]].ref = @ - 1]
  /\ ip' = [ip EXCEPT ![p] = NoSlot]
  /\ pc' = [pc EXCEPT ![p] = "run"]

\* acquiresleep while itable.lock, a spin lock, is held: it must not sleep.
iput(p) ==
  /\ At(p, "iput")
  /\ IF ~Last(ip[p])
     THEN Unref(p) /\ UNCHANGED <<holder, dinode, ibmap, mode>>
     ELSE IF holder[ip[p]] # NoProc THEN panic("sched locks")
     ELSE /\ holder' = [holder EXCEPT ![ip[p]] = p]
          /\ pc' = [pc EXCEPT ![p] = "itrunc"]
          /\ UNCHANGED <<itable, dinode, ibmap, ip, mode>>

\* itrunc: the contents go (module BlockMap), iupdate writes the inode.
iput_itrunc(p) ==
  /\ At(p, "itrunc")
  /\ nlink_iupdate(p, itable[ip[p]].nlink)
  /\ pc' = [pc EXCEPT ![p] = "ifree"]
  /\ UNCHANGED <<holder, ibmap, ip, mode>>

\* ifree: from here on ialloc can hand out the number again.
iput_ifree(p) ==
  LET i == itable[ip[p]].inum IN
  /\ At(p, "ifree")
  /\ IF i \notin ibmap THEN panic("freeing free inode")
     ELSE /\ ibmap' = ibmap \ {i}
          /\ pc' = [pc EXCEPT ![p] = "release"]
          /\ UNCHANGED <<itable, holder, dinode, ip, mode>>

\* ip->valid = 0; releasesleep(&ip->lock).
iput_release(p) ==
  /\ At(p, "release")
  /\ itable' = [itable EXCEPT ![ip[p]].valid = FALSE]
  /\ iunlock(p)
  /\ pc' = [pc EXCEPT ![p] = "unref"]
  /\ UNCHANGED <<dinode, ibmap, ip, mode>>

iput_unref(p) ==
  /\ At(p, "unref")
  /\ Unref(p)
  /\ UNCHANGED <<holder, dinode, ibmap, mode>>

table_step(p) ==
  \/ ilock(p) \/ ilock_read(p)
  \/ iput(p) \/ iput_itrunc(p) \/ iput_ifree(p) \/ iput_release(p) \/ iput_unref(p)
=============================================================================
