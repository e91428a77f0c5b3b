-------------------------------- MODULE Links -------------------------------
(***************************************************************************)
(* The system calls that make and remove names and open files, as users of *)
(* the inode table: sys_open with create, sys_close, sys_unlink and        *)
(* sys_link (kernel/sysfile.c), on the files of one directory.             *)
(*                                                                         *)
(* The directory's own inode is referenced all along; only its lock        *)
(* matters.  A lookup or a change of the directory under its lock is one   *)
(* step where no other lock is taken meanwhile.  Every call runs inside a  *)
(* transaction; crashes are the subject of module Log.                     *)
(***************************************************************************)
EXTENDS ITable

CONSTANTS Names

VARIABLES
  dirent,    \* dirent[n]: the inode number name n refers to, or 0
  dlock,     \* the process that has the directory locked
  name,      \* the name a process holding dlock is working on
  num,       \* the inode number searchibmap gave it
  saved,     \* the entry sys_link is working on while dirlink uses another
  fd,        \* the entry of the file a process has open, or NoSlot
  at         \* where each process is in its system call

cvars == <<dirent, dlock, name, num, saved, fd, at>>
vars == <<ivars, cvars>>

NoName == "none"

Init ==
  /\ IInit
  /\ dirent = [n \in Names |-> 0]
  /\ dlock = NoProc
  /\ name = [p \in Procs |-> NoName] /\ num = [p \in Procs |-> 0]
  /\ saved = [p \in Procs |-> NoSlot] /\ fd = [p \in Procs |-> NoSlot]
  /\ at = [p \in Procs |-> "idle"]

In(p, place) == At(p, "run") /\ at[p] = place
Goto(p, place) == at' = [at EXCEPT ![p] = place]
Call(p, routine) == pc' = [pc EXCEPT ![p] = routine]

\* namei(n): the directory is locked, searched, and unlocked again; a call
\* whose path does not resolve returns -1 and changes nothing.
namei(p, n) ==
  /\ dlock = NoProc /\ dirent[n] # 0
  /\ iget(p, dirent[n])
  /\ Call(p, "ilock")
  /\ UNCHANGED <<holder, dinode, ibmap, dirent, dlock, name, num, fd, saved>>

----------------------------------------------------------------------------
(* sys_open, with and without O_CREATE, and sys_close.                     *)

\* An existing file: namei and ilock, or the first half of create.
sys_open(p, n) == In(p, "idle") /\ namei(p, n) /\ Goto(p, "opened")

\* create of a name that is not there: the directory stays locked.
create(p, n) ==
  /\ In(p, "idle")
  /\ dlock = NoProc /\ dirent[n] = 0
  /\ dlock' = p
  /\ name' = [name EXCEPT ![p] = n]
  /\ Goto(p, "searchibmap")
  /\ UNCHANGED <<ivars, dirent, num, fd, saved>>

\* Fault: the bit is not set.
searchibmap_unmarked(p) ==
  /\ In(p, "searchibmap") /\ Inums \ ibmap # {}
  /\ num' = [num EXCEPT ![p] = Min(Inums \ ibmap)]
  /\ Goto(p, "ialloc")
  /\ UNCHANGED <<ivars, dirent, dlock, name, fd, saved>>

searchibmap(p) ==
  /\ In(p, "searchibmap")
  /\ IF Inums \subseteq ibmap
     THEN panic("ialloc: out of free inodes") /\ UNCHANGED cvars
     ELSE /\ ibmap' = ibmap \cup {Min(Inums \ ibmap)}
          /\ num' = [num EXCEPT ![p] = Min(Inums \ ibmap)]
          /\ Goto(p, "ialloc")
          /\ UNCHANGED <<itable, holder, dinode, ip, pc, mode, dirent, dlock, name, fd, saved>>

ialloc(p) ==
  /\ In(p, "ialloc")
  /\ dinode' = [dinode EXCEPT ![num[p]] = [type |-> T_FILE, nlink |-> 0]]
  /\ Goto(p, "iget")
  /\ UNCHANGED <<itable, holder, ibmap, ip, pc, mode, dirent, dlock, name, num, fd, saved>>

ialloc_iget(p) ==
  /\ In(p, "iget")
  /\ iget(p, num[p])
  /\ Call(p, "ilock")
  /\ Goto(p, "create")
  /\ UNCHANGED <<holder, dinode, ibmap, dirent, dlock, name, num, fd, saved>>

\* The new inode is locked: nlink = 1, dirlink, and the directory is unlocked.
create_dirlink(p) ==
  /\ In(p, "create")
  /\ nlink_iupdate(p, 1)
  /\ dirent' = [dirent EXCEPT ![name[p]] = itable[ip[p]].inum]
  /\ dlock' = NoProc
  /\ name' = [name EXCEPT ![p] = NoName] /\ num' = [num EXCEPT ![p] = 0]
  /\ Goto(p, "opened")
  /\ UNCHANGED <<holder, ibmap, ip, pc, mode, fd, saved>>

\* The end of sys_open.  The inode is put back when filealloc or fdalloc fails (a
\* process here has one descriptor) and when the password is wrong: then the
\* descriptor stays taken, but it refers to no inode.
opened(p) ==
  /\ In(p, "opened")
  /\ iunlock(p)
  /\ \/ /\ fd[p] = NoSlot
        /\ fd' = [fd EXCEPT ![p] = ip[p]]
        /\ ip' = [ip EXCEPT ![p] = NoSlot]
        /\ UNCHANGED pc
     \/ Call(p, "iput") /\ UNCHANGED <<fd, ip>>
  /\ Goto(p, "idle")
  /\ UNCHANGED <<itable, dinode, ibmap, mode, dirent, dlock, name, num, saved>>

sys_close(p) ==
  /\ In(p, "idle") /\ fd[p] # NoSlot
  /\ ip' = [ip EXCEPT ![p] = fd[p]]
  /\ fd' = [fd EXCEPT ![p] = NoSlot]
  /\ Call(p, "iput")
  /\ UNCHANGED <<itable, holder, dinode, ibmap, mode, dirent, dlock, name, num, saved, at>>

----------------------------------------------------------------------------
(* sys_unlink.                                                             *)

\* The directory is locked, the name found, and its inode locked too.
sys_unlink(p, n) ==
  /\ In(p, "idle")
  /\ dlock = NoProc /\ dirent[n] # 0
  /\ dlock' = p
  /\ name' = [name EXCEPT ![p] = n]
  /\ iget(p, dirent[n])
  /\ Call(p, "ilock")
  /\ Goto(p, "unlink")
  /\ UNCHANGED <<holder, dinode, ibmap, dirent, num, fd, saved>>

\* Fault: the directory is not unlocked.
unlink_entry_keeps_lock(p) ==
  /\ In(p, "unlink") /\ itable[ip[p]].nlink >= 1
  /\ dirent' = [dirent EXCEPT ![name[p]] = 0]
  /\ name' = [name EXCEPT ![p] = NoName]
  /\ Goto(p, "uncount")
  /\ UNCHANGED <<ivars, dlock, num, fd, saved>>

\* The entry is cleared and the directory unlocked.
unlink_entry(p) ==
  /\ In(p, "unlink")
  /\ IF itable[ip[p]].nlink < 1
     THEN panic("unlink: nlink < 1") /\ UNCHANGED cvars
     ELSE /\ dirent' = [dirent EXCEPT ![name[p]] = 0]
          /\ dlock' = NoProc
          /\ name' = [name EXCEPT ![p] = NoName]
          /\ Goto(p, "uncount")
          /\ UNCHANGED <<ivars, num, fd, saved>>

\* Fault: the reference is not dropped.
uncount_no_iput(p) ==
  /\ In(p, "uncount")
  /\ nlink_iupdate(p, itable[ip[p]].nlink - 1)
  /\ iunlock(p)
  /\ ip' = [ip EXCEPT ![p] = NoSlot]
  /\ Goto(p, "idle")
  /\ UNCHANGED <<ibmap, pc, mode, dirent, dlock, name, num, fd, saved>>

\* nlink--, iupdate, iunlockput: the end of sys_unlink, and sys_link's bad.
uncount(p) ==
  /\ In(p, "uncount")
  /\ nlink_iupdate(p, itable[ip[p]].nlink - 1)
  /\ iunlock(p)
  /\ Call(p, "iput")
  /\ Goto(p, "idle")
  /\ UNCHANGED <<ibmap, ip, mode, dirent, dlock, name, num, fd, saved>>

----------------------------------------------------------------------------
(* sys_link.                                                               *)

sys_link(p, n) == In(p, "idle") /\ namei(p, n) /\ Goto(p, "link")

\* nlink++, iupdate, iunlock: the link is counted before it is made.
link_count(p) ==
  /\ In(p, "link")
  /\ nlink_iupdate(p, itable[ip[p]].nlink + 1)
  /\ iunlock(p)
  /\ Goto(p, "dirlink")
  /\ UNCHANGED <<ibmap, ip, pc, mode, dirent, dlock, name, num, fd, saved>>

\* Fault: a link that cannot be made stays counted.
link_dirlink_no_undo(p, n) ==
  /\ In(p, "dirlink") /\ dlock = NoProc
  /\ dirent' = IF dirent[n] = 0 THEN [dirent EXCEPT ![n] = itable[ip[p]].inum] ELSE dirent
  /\ Call(p, "iput") /\ Goto(p, "idle")
  /\ UNCHANGED <<itable, holder, dinode, ibmap, ip, mode, dlock, name, num, fd, saved>>

\* The directory is locked.  dirlink makes the entry, and the directory is
\* unlocked; or it finds the name taken, and puts back the inode it got for it.
link_dirlink(p, n) ==
  /\ In(p, "dirlink") /\ dlock = NoProc
  /\ Call(p, "iput")
  /\ IF dirent[n] = 0
     THEN /\ dirent' = [dirent EXCEPT ![n] = itable[ip[p]].inum]
          /\ Goto(p, "idle")
          /\ UNCHANGED <<itable, ip, mode, dlock, saved>>
     ELSE /\ dlock' = p
          /\ saved' = [saved EXCEPT ![p] = ip[p]]
          /\ iget(p, dirent[n])
          /\ Goto(p, "bad")
          /\ UNCHANGED dirent
  /\ UNCHANGED <<holder, dinode, ibmap, name, num, fd>>

\* The directory is unlocked and the link uncounted.
link_bad(p) ==
  /\ In(p, "bad")
  /\ dlock' = NoProc
  /\ ip' = [ip EXCEPT ![p] = saved[p]]
  /\ saved' = [saved EXCEPT ![p] = NoSlot]
  /\ Call(p, "ilock") /\ Goto(p, "uncount")
  /\ UNCHANGED <<itable, holder, dinode, ibmap, mode, dirent, name, num, fd>>

----------------------------------------------------------------------------
\* panic() spins forever.
halted == mode # "up" /\ UNCHANGED vars

start(p) ==
  \/ \E n \in Names : sys_open(p, n) \/ create(p, n) \/ sys_unlink(p, n) \/ sys_link(p, n)
  \/ sys_close(p)

continue(p) ==
  \/ table_step(p) /\ UNCHANGED cvars
  \/ searchibmap(p) \/ ialloc(p) \/ ialloc_iget(p) \/ create_dirlink(p) \/ opened(p)
  \/ unlink_entry(p) \/ uncount(p) \/ link_count(p) \/ link_bad(p)
  \/ \E n \in Names : link_dirlink(p, n)

Next == (\E p \in Procs : start(p) \/ continue(p)) \/ halted

Spec == Init /\ [][Next]_vars

----------------------------------------------------------------------------
(* Properties.                                                             *)

Busy(p) == at[p] # "idle" \/ pc[p] # "run"
InumOf(s) == itable[s].inum
Handles(s) == {p \in Procs : ip[p] = s}
Saves(s) == {p \in Procs : saved[p] = s}
Opens(s) == {p \in Procs : fd[p] = s}
NamesOf(i) == {n \in Names : dirent[n] = i}

TypeOK ==
  /\ itable \in [Slots -> [inum : Inums \cup {0}, ref : Nat, valid : BOOLEAN,
                           type : {0, T_FILE}, nlink : Nat]]
  /\ holder \in [Slots -> Procs \cup {NoProc}]
  /\ dinode \in [Inums -> [type : {0, T_FILE}, nlink : Nat]]
  /\ ibmap \subseteq Inums
  /\ ip \in [Procs -> Slots \cup {NoSlot}] /\ fd \in [Procs -> Slots \cup {NoSlot}]
  /\ saved \in [Procs -> Slots \cup {NoSlot}]
  /\ pc \in [Procs -> {"run", "ilock", "read", "iput", "itrunc", "ifree", "release", "unref"}]
  /\ dirent \in [Names -> Inums \cup {0}]
  /\ dlock \in Procs \cup {NoProc}

\* ref counts the references that exist, those of calls in progress and those
\* of open files: none is leaked or dropped twice (iget and iput of each call).
RefExact ==
  \A s \in Slots :
    itable[s].ref = Cardinality(Handles(s)) + Cardinality(Saves(s)) + Cardinality(Opens(s))

\* An inode has one entry of the table, so that its lock protects it (iget),
\* also while iput frees it and ialloc hands its number out again.
OneEntry ==
  \A s, t \in Slots :
    itable[s].ref > 0 /\ itable[t].ref > 0 /\ InumOf(s) = InumOf(t) => s = t

\* An entry that is valid and not locked agrees with the disk: iupdate follows
\* every change, and iput invalidates what ialloc may rewrite.
CopyFresh ==
  \A s \in Slots :
    itable[s].ref > 0 /\ itable[s].valid /\ holder[s] = NoProc
      => dinode[InumOf(s)] = [type |-> itable[s].type, nlink |-> itable[s].nlink]

\* nlink on disk is the number of names, plus the links that a sys_link has
\* counted and not made or undone yet and those a sys_unlink has removed and not
\* uncounted yet.
LinkCount ==
  \A i \in ibmap :
    dinode[i].nlink =
      Cardinality(NamesOf(i))
        + Cardinality({p \in Procs :
            \/ at[p] \in {"dirlink", "uncount"} /\ InumOf(ip[p]) = i
            \/ saved[p] # NoSlot /\ InumOf(saved[p]) = i})
    \/ \E p \in Procs : num[p] = i

\* An inode is freed only when no name and no other process refers to it: not
\* under an open file, nor under a sys_link that has counted its link.
FreedAlone ==
  [][\A i \in ibmap \ ibmap' :
       /\ NamesOf(i) = {}
       /\ Cardinality({p \in Procs : ip[p] # NoSlot /\ InumOf(ip[p]) = i}) = 1
       /\ \A p \in Procs : \A s \in {fd[p], saved[p]} \ {NoSlot} : InumOf(s) # i]_vars

\* iput: "If that was the last reference and the inode has no links to it, free
\* the inode".  So an allocated inode has a name, or somebody who will free it:
\* an open file or a call in progress.
NoOrphans ==
  \A i \in ibmap :
    \/ NamesOf(i) # {}
    \/ \E s \in Slots : InumOf(s) = i /\ Handles(s) \cup Saves(s) \cup Opens(s) # {}
    \/ \E p \in Procs : num[p] = i

\* The panics that only a broken protocol reaches.  For iput: "ip->ref == 1
\* means no other process can have ip locked, so this acquiresleep() won't
\* block (or deadlock)".
NoPanic ==
  mode \notin {"ilock: no type", "unlink: nlink < 1", "freeing free inode", "sched locks"}

\* The order of locks (the directory, then the inode) leaves no circle of
\* processes that wait for each other: one of those inside a call can go on.
SomeoneMoves ==
  mode = "up" /\ (\E p \in Procs : Busy(p)) => \E p \in Procs : Busy(p) /\ ENABLED continue(p)
=============================================================================
