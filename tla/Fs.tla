--------------------------------- MODULE Fs ---------------------------------
(***************************************************************************)
(* Inodes, directories and path names (kernel/fs.c), the file table        *)
(* (kernel/file.c) and the system calls on them (kernel/sysfile.c), made   *)
(* by several processes at once, with fork, exit and crashes.              *)
(*                                                                         *)
(* One step is one section under itable.lock or ftable.lock together with  *)
(* what is done under inode locks around it; an inode lock that the code   *)
(* holds over several such sections is held over several steps.            *)
(*                                                                         *)
(* A call is one transaction of the log.  A crash in the middle of calls   *)
(* restores what the disk held when no call was running (AtomicDisk), a    *)
(* state a crash at that moment would have left; so crashes happen then.   *)
(***************************************************************************)
EXTENDS Naturals, FiniteSets, Sequences

CONSTANTS Proc, InitProc,  \* processes; the first one, which never exits
          Name,            \* what path elements may be, "." and ".." apart
          NInum,           \* inodes on disk: 1..NInum, 1 is the root
          NINODE,          \* entries of the inode table
          NFILE, NOFILE,   \* open files in all, and for one process
          Calls            \* the system calls that take a path

Inum == 1..NInum
Slot == 1..NINODE
ROOT == 1
None == 0

VARIABLES dino,   \* the inodes on disk: type and nlink
          ent,    \* the entries of each directory: name to inum, or 0
          itab,   \* itable.inode: inum, ref, valid, and the copies
          lk,     \* the holder of each inode's lock, or None
          file,   \* ftable.file: ref and ip
          ofile,  \* p->ofile, 0 for none
          cwd,    \* p->cwd
          th,     \* what each process is doing
          stray,  \* history: an entry went into a directory without links
          lost    \* history: inodes without links that a crash left behind

disk == <<dino, ent>>
inode == <<itab, lk>>
files == <<file, ofile, cwd>>
history == <<stray, lost>>
vars == <<disk, inode, files, th, history>>

FreeInode == [type |-> "NONE", nlink |-> 0]
NoEntries == [n \in Name \cup {".", ".."} |-> 0]
FreeSlot == [inum |-> 0, ref |-> 0, valid |-> FALSE, type |-> "NONE", nlink |-> 0]
NoFile == [ref |-> 0, ip |-> None]

\* pc: where the process is; c: its call; path: the elements namex() has still
\* to walk, and at: from where; ip, dp: those of the code; put, then: the
\* argument of iput(), and where it returns to.
NoCall == [op |-> "none"]
At(l) == [pc |-> l, c |-> NoCall, path |-> <<>>, at |-> None, ip |-> None,
          dp |-> None, put |-> None, then |-> "idle"]
Idle == At("idle")
Dead == At("dead")

\* The kernel starts: only InitProc, in the root directory.
Boot ==
  /\ itab' = [s \in Slot |-> IF s = 1 THEN [FreeSlot EXCEPT !.inum = ROOT, !.ref = 1]
                             ELSE FreeSlot]
  /\ lk' = [s \in Slot |-> None]
  /\ file' = [f \in 1..NFILE |-> NoFile]
  /\ ofile' = [p \in Proc |-> [d \in 1..NOFILE |-> 0]]
  /\ cwd' = [p \in Proc |-> IF p = InitProc THEN 1 ELSE None]
  /\ th' = [p \in Proc |-> IF p = InitProc THEN Idle ELSE Dead]

Init ==
  /\ dino = [i \in Inum |-> IF i = ROOT THEN [type |-> "DIR", nlink |-> 1]
                            ELSE FreeInode]
  /\ ent = [i \in Inum |-> IF i = ROOT
                           THEN [NoEntries EXCEPT !["."] = ROOT, ![".."] = ROOT]
                           ELSE NoEntries]
  /\ itab = [s \in Slot |-> IF s = 1 THEN [FreeSlot EXCEPT !.inum = ROOT, !.ref = 1]
                            ELSE FreeSlot]
  /\ lk = [s \in Slot |-> None]
  /\ file = [f \in 1..NFILE |-> NoFile]
  /\ ofile = [p \in Proc |-> [d \in 1..NOFILE |-> 0]]
  /\ cwd = [p \in Proc |-> IF p = InitProc THEN 1 ELSE None]
  /\ th = [p \in Proc |-> IF p = InitProc THEN Idle ELSE Dead]
  /\ stray = FALSE /\ lost = {}

----------------------------------------------------------------------------
(* iget, ilock, iput *)

First(S) == CHOOSE x \in S : \A y \in S : x <= y

\* iget(): the entry of inode i, or else the first free one.
Iget(tab, i) ==
  LET hit == {s \in Slot : tab[s].ref > 0 /\ tab[s].inum = i}
      new == {s \in Slot : tab[s].ref = 0}
  IN  IF hit # {} THEN First(hit) ELSE IF new # {} THEN First(new) ELSE None

Referenced(tab, i) ==
  LET s == Iget(tab, i) IN
  IF tab[s].ref > 0 THEN [tab EXCEPT ![s].ref = @ + 1]
  ELSE [tab EXCEPT ![s] = [FreeSlot EXCEPT !.inum = i, !.ref = 1]]

Idup(tab, s) == [tab EXCEPT ![s].ref = @ + 1]

\* ilock() has read the inode into s, if it was not valid.
Loaded(s) ==
  IF itab[s].valid THEN itab
  ELSE [itab EXCEPT ![s].valid = TRUE, ![s].type = dino[itab[s].inum].type,
                    ![s].nlink = dino[itab[s].inum].nlink]

\* ilock(s) gets the lock, and does not panic with "ilock: no type".
Lockable(s) == lk[s] = None /\ Loaded(s)[s].type # "NONE"

Type(s) == Loaded(s)[s].type
Nlink(s) == Loaded(s)[s].nlink
Dir(s) == ent[itab[s].inum]

\* ip->nlink = n and iupdate(ip).
SetNlink(tab, s, n) == [tab EXCEPT ![s].nlink = n]
Iupdate(s, n) == [dino EXCEPT ![itab[s].inum].nlink = n]

Step(p, l) == th' = [th EXCEPT ![p].pc = l]

\* iput(s), then go on at l.
CallPut(p, s, l) == th' = [th EXCEPT ![p].pc = "put", ![p].put = s, ![p].then = l]

Dying(s) == itab[s].ref = 1 /\ itab[s].valid /\ itab[s].nlink = 0

\* The last reference to an inode without links: lock it, still under
\* itable.lock, then truncate and free it, then give the reference up.
IputLast(p) ==
  LET s == th[p].put IN
  /\ th[p].pc = "put" /\ Dying(s) /\ lk[s] = None
  /\ lk' = [lk EXCEPT ![s] = p]
  /\ Step(p, "free")
  /\ UNCHANGED <<disk, itab, files, history>>

IputFree(p) ==
  LET s == th[p].put IN
  /\ th[p].pc = "free"
  /\ dino' = [dino EXCEPT ![itab[s].inum] = FreeInode]
  /\ ent' = [ent EXCEPT ![itab[s].inum] = NoEntries]
  /\ itab' = [itab EXCEPT ![s].valid = FALSE]
  /\ lk' = [lk EXCEPT ![s] = None]
  /\ Step(p, "unref")
  /\ UNCHANGED <<files, history>>

\* Where a process goes when iput() returns.
After(t) ==
  CASE t.then = "idle" -> Idle
    [] t.then = "dead" -> Dead
    [] t.then = "putip" -> [t EXCEPT !.pc = "put", !.put = t.ip, !.then = "idle"]
    [] OTHER -> [t EXCEPT !.pc = t.then, !.put = None]

Unref(p) ==
  LET s == th[p].put IN
  /\ th[p].pc = "unref" \/ (th[p].pc = "put" /\ ~Dying(s))
  /\ itab' = [itab EXCEPT ![s] = IF itab[s].ref = 1 THEN FreeSlot
                                 ELSE [@ EXCEPT !.ref = @ - 1]]
  /\ th' = [th EXCEPT ![p] = After(th[p])]
  /\ UNCHANGED <<disk, lk, files, history>>

----------------------------------------------------------------------------
(* namex *)

Creates == {"creat", "mkdir", "mknod"}

\* nameiparent() is wanted; link() calls namei() first and keeps its ip.
Parent(t) == t.c.op \in Creates \cup {"unlink"} \/ (t.c.op = "link" /\ t.ip # None)

\* Where the call goes on with the result of namex(), and without one.
Found(t) == CASE t.c.op \in Creates -> "create"
              [] t.c.op = "link" /\ t.ip # None -> "dirlink"
              [] OTHER -> t.c.op
Missing(t) == IF t.c.op = "link" /\ t.ip # None THEN "linkbad" ELSE "idle"

\* Bound: a call that creates is made while there is a free inode for each
\* such call (ialloc() panics without one).
Creating == {p \in Proc : th[p].c.op \in Creates}
Room == Cardinality({i \in Inum : dino[i].type = "NONE"}) > Cardinality(Creating)

\* The inode a path is walked from, with a reference of its own.
From(p, c) == IF c.abs THEN Iget(itab, ROOT) ELSE cwd[p]

\* begin_op() and the start of namex().
Begin(p, c) ==
  /\ th[p] = Idle
  /\ c.op \in Creates => Room
  /\ itab' = IF c.abs THEN Referenced(itab, ROOT) ELSE Idup(itab, cwd[p])
  /\ th' = [th EXCEPT ![p] = [At("walk") EXCEPT !.c = c, !.path = c.path,
                                                !.at = From(p, c)]]
  /\ UNCHANGED <<disk, lk, files, history>>

\* The path is exhausted.
WalkEnd(p) ==
  LET t == th[p] IN
  /\ t.pc = "walk" /\ t.path = <<>>
  /\ IF Parent(t) THEN CallPut(p, t.at, Missing(t))
     ELSE th' = [th EXCEPT ![p].pc = Found(t), ![p].ip = t.at, ![p].at = None]
  /\ UNCHANGED <<disk, inode, files, history>>

Stops(t) == Parent(t) /\ Len(t.path) = 1

\* One element: lock the directory, look the element up, unlock.
WalkFails(p) ==
  LET t == th[p] IN
  /\ t.pc = "walk" /\ t.path # <<>> /\ Lockable(t.at)
  /\ Type(t.at) # "DIR" \/ (~Stops(t) /\ Dir(t.at)[Head(t.path)] = 0)
  /\ itab' = Loaded(t.at)
  /\ CallPut(p, t.at, Missing(t))
  /\ UNCHANGED <<disk, lk, files, history>>

WalkStops(p) ==
  LET t == th[p] IN
  /\ t.pc = "walk" /\ t.path # <<>> /\ Lockable(t.at)
  /\ Type(t.at) = "DIR" /\ Stops(t)
  /\ itab' = Loaded(t.at)
  /\ th' = [th EXCEPT ![p].pc = Found(t), ![p].dp = t.at, ![p].at = None]
  /\ UNCHANGED <<disk, lk, files, history>>

WalkOn(p) ==
  LET t == th[p]
      i == Dir(t.at)[Head(t.path)]
  IN  /\ t.pc = "walk" /\ t.path # <<>> /\ Lockable(t.at)
      /\ Type(t.at) = "DIR" /\ ~Stops(t) /\ i # 0
      /\ itab' = Referenced(Loaded(t.at), i)
      /\ th' = [th EXCEPT ![p].pc = "put", ![p].put = t.at, ![p].then = "walk",
                          ![p].at = Iget(itab, i), ![p].path = Tail(t.path)]
      /\ UNCHANGED <<disk, lk, files, history>>

----------------------------------------------------------------------------
(* sys_unlink *)

Name1(p) == Head(th[p].path)

\* Lock the directory and find the entry.
UnlinkFails(p) ==
  LET d == th[p].dp IN
  /\ th[p].pc = "unlink" /\ Lockable(d)
  /\ Name1(p) \in {".", ".."} \/ Dir(d)[Name1(p)] = 0
  /\ itab' = Loaded(d)
  /\ CallPut(p, d, "idle")
  /\ UNCHANGED <<disk, lk, files, history>>

\* Mutant: dp is unlocked before ip is locked.
UnlinkFindsUnlocked(p) ==
  LET d == th[p].dp
      i == Dir(d)[Name1(p)]
  IN  /\ th[p].pc = "unlink" /\ Lockable(d)
      /\ Name1(p) \notin {".", ".."} /\ i # 0
      /\ itab' = Referenced(Loaded(d), i)
      /\ th' = [th EXCEPT ![p].pc = "unlink2", ![p].ip = Iget(itab, i)]
      /\ UNCHANGED <<disk, lk, files, history>>

UnlinkFinds(p) ==
  LET d == th[p].dp
      i == Dir(d)[Name1(p)]
  IN  /\ th[p].pc = "unlink" /\ Lockable(d)
      /\ Name1(p) \notin {".", ".."} /\ i # 0
      /\ lk' = [lk EXCEPT ![d] = p]
      /\ itab' = Referenced(Loaded(d), i)
      /\ th' = [th EXCEPT ![p].pc = "unlink2", ![p].ip = Iget(itab, i)]
      /\ UNCHANGED <<disk, files, history>>

IsDirEmpty(s) == \A n \in Name : Dir(s)[n] = 0

\* Lock the inode too; a directory that is not empty stays.
UnlinkNotEmpty(p) ==
  LET s == th[p].ip IN
  /\ th[p].pc = "unlink2" /\ Lockable(s)
  /\ Type(s) = "DIR" /\ ~IsDirEmpty(s)
  /\ itab' = Loaded(s)
  /\ CallPut(p, s, "unlinkbad")
  /\ UNCHANGED <<disk, lk, files, history>>

UnlinkBad(p) ==
  /\ th[p].pc = "unlinkbad"
  /\ lk' = [lk EXCEPT ![th[p].dp] = None]
  /\ CallPut(p, th[p].dp, "idle")
  /\ UNCHANGED <<disk, itab, files, history>>

\* Erase the entry, with its ".." if it is a directory, and unlock dp.
UnlinkEntry(p) ==
  LET s == th[p].ip
      d == th[p].dp
      n == IF Type(s) = "DIR" THEN itab[d].nlink - 1 ELSE itab[d].nlink
  IN  /\ th[p].pc = "unlink2" /\ Lockable(s)
      /\ ~(Type(s) = "DIR" /\ ~IsDirEmpty(s))
      /\ ent' = [ent EXCEPT ![itab[d].inum][Name1(p)] = 0]
      /\ dino' = Iupdate(d, n)
      /\ itab' = SetNlink(Loaded(s), d, n)
      /\ lk' = [lk EXCEPT ![d] = None, ![s] = p]
      /\ CallPut(p, d, "unlink3")
      /\ UNCHANGED <<files, history>>

UnlinkInode(p) ==
  LET s == th[p].ip IN
  /\ th[p].pc = "unlink3"
  /\ dino' = Iupdate(s, itab[s].nlink - 1)
  /\ itab' = SetNlink(itab, s, itab[s].nlink - 1)
  /\ lk' = [lk EXCEPT ![s] = None]
  /\ CallPut(p, s, "idle")
  /\ UNCHANGED <<ent, files, history>>

----------------------------------------------------------------------------
(* sys_link *)

\* Mutant: the link is not counted yet.
LinkCountLater(p) ==
  LET s == th[p].ip IN
  /\ th[p].pc = "link" /\ Lockable(s) /\ Type(s) # "DIR"
  /\ itab' = Referenced(Loaded(s), ROOT)
  /\ th' = [th EXCEPT ![p].pc = "walk", ![p].path = th[p].c.to,
                      ![p].at = Iget(itab, ROOT)]
  /\ UNCHANGED <<disk, lk, files, history>>

\* Count the link before it exists, then look for the new name (an absolute
\* path in the calls that are made here).
LinkCount(p) ==
  LET s == th[p].ip IN
  /\ th[p].pc = "link" /\ Lockable(s) /\ Type(s) # "DIR"
  /\ dino' = Iupdate(s, Nlink(s) + 1)
  /\ itab' = Referenced(SetNlink(Loaded(s), s, Nlink(s) + 1), ROOT)
  /\ th' = [th EXCEPT ![p].pc = "walk", ![p].path = th[p].c.to,
                      ![p].at = Iget(itab, ROOT)]
  /\ UNCHANGED <<ent, lk, files, history>>

\* Mutant: a directory is refused, but its inode is not put.
LinkDirKeeps(p) ==
  LET s == th[p].ip IN
  /\ th[p].pc = "link" /\ Lockable(s) /\ Type(s) = "DIR"
  /\ itab' = Loaded(s)
  /\ th' = [th EXCEPT ![p] = Idle]
  /\ UNCHANGED <<disk, lk, files, history>>

LinkDir(p) ==
  LET s == th[p].ip IN
  /\ th[p].pc = "link" /\ Lockable(s) /\ Type(s) = "DIR"
  /\ itab' = Loaded(s)
  /\ CallPut(p, s, "idle")
  /\ UNCHANGED <<disk, lk, files, history>>

\* dirlink() in the new parent; then both are put.
LinkEntry(p) ==
  LET d == th[p].dp IN
  /\ th[p].pc = "dirlink" /\ Lockable(d) /\ Dir(d)[Name1(p)] = 0
  /\ ent' = [ent EXCEPT ![itab[d].inum][Name1(p)] = itab[th[p].ip].inum]
  /\ itab' = Loaded(d)
  /\ CallPut(p, d, "putip")
  /\ stray' = (stray \/ Nlink(d) = 0)
  /\ UNCHANGED <<dino, lk, files, lost>>

\* The reference that dirlookup() takes to the entry it finds, and iput() drops
\* again at once, is left out.
LinkExists(p) ==
  LET d == th[p].dp IN
  /\ th[p].pc = "dirlink" /\ Lockable(d) /\ Dir(d)[Name1(p)] # 0
  /\ itab' = Loaded(d)
  /\ CallPut(p, d, "linkbad")
  /\ UNCHANGED <<disk, lk, files, history>>

LinkBad(p) ==
  LET s == th[p].ip IN
  /\ th[p].pc = "linkbad" /\ Lockable(s)
  /\ dino' = Iupdate(s, Nlink(s) - 1)
  /\ itab' = SetNlink(Loaded(s), s, Nlink(s) - 1)
  /\ CallPut(p, s, "idle")
  /\ UNCHANGED <<ent, lk, files, history>>

----------------------------------------------------------------------------
(* create, for sys_open with O_CREATE, sys_mkdir and sys_mknod *)

TypeFor(op) == CASE op = "creat" -> "FILE" [] op = "mkdir" -> "DIR"
                 [] op = "mknod" -> "DEVICE"

CreateFinds(p) ==
  LET d == th[p].dp
      i == Dir(d)[Name1(p)]
  IN  /\ th[p].pc = "create" /\ Lockable(d) /\ i # 0
      /\ itab' = Referenced(Loaded(d), i)
      /\ th' = [th EXCEPT ![p].pc = "put", ![p].put = d, ![p].then = "exists",
                          ![p].ip = Iget(itab, i)]
      /\ UNCHANGED <<disk, lk, files, history>>

\* open(O_CREATE) takes a file or a device that exists; anything else fails.
CreateExists(p) ==
  LET s == th[p].ip IN
  /\ th[p].pc = "exists" /\ Lockable(s)
  /\ itab' = Loaded(s)
  /\ IF th[p].c.op = "creat" /\ Type(s) # "DIR"
     THEN Step(p, "opened") /\ lk' = [lk EXCEPT ![s] = p]
     ELSE CallPut(p, s, "idle") /\ UNCHANGED lk
  /\ UNCHANGED <<disk, files, history>>

\* ialloc(), with dp locked.
CreateAlloc(p) ==
  LET d == th[p].dp
      i == First({j \in Inum : dino[j].type = "NONE"})
  IN  /\ th[p].pc = "create" /\ Lockable(d) /\ Dir(d)[Name1(p)] = 0
      /\ lk' = [lk EXCEPT ![d] = p]
      /\ dino' = [dino EXCEPT ![i].type = TypeFor(th[p].c.op)]
      /\ itab' = Referenced(Loaded(d), i)
      /\ th' = [th EXCEPT ![p].pc = "create2", ![p].ip = Iget(itab, i)]
      /\ UNCHANGED <<ent, files, history>>

\* Lock the new inode, give it its link, its dots and its entry; unlock dp.
CreateEntry(p) ==
  LET s == th[p].ip
      d == th[p].dp
      i == itab[s].inum
      dir == th[p].c.op = "mkdir"
      n == IF dir THEN itab[d].nlink + 1 ELSE itab[d].nlink
  IN  /\ th[p].pc = "create2" /\ Lockable(s)
      /\ dino' = [Iupdate(d, n) EXCEPT ![i].nlink = 1]
      /\ itab' = SetNlink(SetNlink(Loaded(s), s, 1), d, n)
      /\ ent' = [ent EXCEPT ![itab[d].inum][Name1(p)] = i,
                            ![i]["."] = IF dir THEN i ELSE 0,
                            ![i][".."] = IF dir THEN itab[d].inum ELSE 0]
      /\ lk' = [lk EXCEPT ![d] = None, ![s] = p]
      /\ CallPut(p, d, "opened")
      /\ stray' = (stray \/ itab[d].nlink = 0)
      /\ UNCHANGED <<files, lost>>

----------------------------------------------------------------------------
(* sys_open, sys_chdir, sys_close, sys_dup *)

\* open() without O_CREATE.  A directory may only be opened for reading.
Open(p) ==
  LET s == th[p].ip IN
  /\ th[p].pc = "open" /\ Lockable(s)
  /\ itab' = Loaded(s)
  /\ IF Type(s) = "DIR" /\ th[p].c.write
     THEN CallPut(p, s, "idle") /\ UNCHANGED lk
     ELSE Step(p, "opened") /\ lk' = [lk EXCEPT ![s] = p]
  /\ UNCHANGED <<disk, files, history>>

FreeFiles == {f \in 1..NFILE : file[f].ref = 0}
FreeFds(p) == {d \in 1..NOFILE : ofile[p][d] = 0}

\* mkdir() and mknod() are done; open() fails for a device whose major number
\* is none, and when filealloc() or fdalloc() fails, and gives back what it has.
OpenedPut(p) ==
  LET s == th[p].ip IN
  /\ th[p].pc = "opened"
  /\ \/ th[p].c.op \in {"mkdir", "mknod"} \/ FreeFiles = {} \/ FreeFds(p) = {}
     \/ itab[s].type = "DEVICE"
  /\ lk' = [lk EXCEPT ![s] = None]
  /\ CallPut(p, s, "idle")
  /\ UNCHANGED <<disk, itab, files, history>>

OpenedFile(p) ==
  LET s == th[p].ip
      f == First(FreeFiles)
  IN  /\ th[p].pc = "opened" /\ th[p].c.op \in {"open", "creat"}
      /\ FreeFiles # {} /\ FreeFds(p) # {}
      /\ file' = [file EXCEPT ![f] = [ref |-> 1, ip |-> s]]
      /\ ofile' = [ofile EXCEPT ![p][First(FreeFds(p))] = f]
      /\ lk' = [lk EXCEPT ![s] = None]
      /\ th' = [th EXCEPT ![p] = Idle]
      /\ UNCHANGED <<disk, itab, cwd, history>>

Chdir(p) ==
  LET s == th[p].ip IN
  /\ th[p].pc = "chdir" /\ Lockable(s)
  /\ itab' = Loaded(s)
  /\ IF Type(s) # "DIR"
     THEN CallPut(p, s, "idle") /\ UNCHANGED cwd
     ELSE CallPut(p, cwd[p], "idle") /\ cwd' = [cwd EXCEPT ![p] = s]
  /\ UNCHANGED <<disk, lk, file, ofile, history>>

\* fileclose(f), then go on at l: the last reference puts the inode.
FileClose(p, f, l) ==
  IF file[f].ref = 1
  THEN file' = [file EXCEPT ![f] = NoFile] /\ CallPut(p, file[f].ip, l)
  ELSE /\ file' = [file EXCEPT ![f].ref = @ - 1]
       /\ th' = [th EXCEPT ![p] = At(l)]

Close(p, d) ==
  /\ th[p] = Idle /\ ofile[p][d] # 0
  /\ ofile' = [ofile EXCEPT ![p][d] = 0]
  /\ FileClose(p, ofile[p][d], "idle")
  /\ UNCHANGED <<disk, inode, cwd, history>>

Dup(p, d) ==
  /\ th[p] = Idle /\ ofile[p][d] # 0 /\ FreeFds(p) # {}
  /\ ofile' = [ofile EXCEPT ![p][First(FreeFds(p))] = ofile[p][d]]
  /\ file' = [file EXCEPT ![ofile[p][d]].ref = @ + 1]
  /\ UNCHANGED <<disk, inode, cwd, th, history>>

----------------------------------------------------------------------------
(* fork and exit, as far as files go; crashes *)

Fork(p, q) ==
  /\ th[p] = Idle /\ th[q] = Dead
  /\ ofile' = [ofile EXCEPT ![q] = ofile[p]]
  /\ file' = [f \in 1..NFILE |->
                [file[f] EXCEPT !.ref = @ + Cardinality({d \in 1..NOFILE : ofile[p][d] = f})]]
  /\ cwd' = [cwd EXCEPT ![q] = cwd[p]]
  /\ itab' = Idup(itab, cwd[p])
  /\ th' = [th EXCEPT ![q] = Idle]
  /\ UNCHANGED <<disk, lk, history>>

Exit(p) ==
  /\ p # InitProc /\ th[p] = Idle
  /\ th' = [th EXCEPT ![p] = At("exit")]
  /\ UNCHANGED <<disk, inode, files, history>>

OpenFds(p) == (1..NOFILE) \ FreeFds(p)

ExitClose(p) ==
  /\ th[p].pc = "exit" /\ OpenFds(p) # {}
  /\ ofile' = [ofile EXCEPT ![p][First(OpenFds(p))] = 0]
  /\ FileClose(p, ofile[p][First(OpenFds(p))], "exit")
  /\ UNCHANGED <<disk, inode, cwd, history>>

ExitCwd(p) ==
  /\ th[p].pc = "exit" /\ OpenFds(p) = {}
  /\ cwd' = [cwd EXCEPT ![p] = None]
  /\ CallPut(p, cwd[p], "dead")
  /\ UNCHANGED <<disk, inode, file, ofile, history>>

Quiet == \A p \in Proc : th[p] \in {Idle, Dead}

\* Only the disk survives.
Crash ==
  /\ Quiet
  /\ Boot
  /\ lost' = {i \in Inum : dino[i].type # "NONE" /\ dino[i].nlink = 0}
  /\ UNCHANGED <<disk, stray>>

----------------------------------------------------------------------------
(* The panics: "ilock: no type" and "unlink: nlink < 1" *)

\* The inode the process is about to lock.
Target(t) ==
  CASE t.pc = "walk" /\ t.path # <<>> -> t.at
    [] t.pc \in {"unlink", "create", "dirlink"} -> t.dp
    [] t.pc \in {"unlink2", "create2", "exists", "open", "chdir", "link",
                 "linkbad"} -> t.ip
    [] OTHER -> None

\* The panics "ilock: no type" and "unlink: nlink < 1".  The ones of ialloc(),
\* iget(), balloc() and dirlink() for want of room, or for a block that cannot
\* be read, are not represented.
Panics(p) ==
  LET s == Target(th[p]) IN
  /\ s # None /\ lk[s] = None
  /\ Type(s) = "NONE" \/ (th[p].pc = "unlink2" /\ Nlink(s) < 1)

PathStep(p) ==
  WalkEnd(p) \/ WalkFails(p) \/ WalkStops(p) \/ WalkOn(p)

UnlinkStep(p) ==
  \/ UnlinkFails(p) \/ UnlinkFinds(p) \/ UnlinkNotEmpty(p) \/ UnlinkBad(p)
  \/ UnlinkEntry(p) \/ UnlinkInode(p)

LinkStep(p) ==
  LinkCount(p) \/ LinkDir(p) \/ LinkEntry(p) \/ LinkExists(p) \/ LinkBad(p)

CreateStep(p) ==
  CreateFinds(p) \/ CreateExists(p) \/ CreateAlloc(p) \/ CreateEntry(p)

OpenStep(p) == Open(p) \/ OpenedPut(p) \/ OpenedFile(p) \/ Chdir(p)

Next ==
  \/ \E p \in Proc : IputLast(p) \/ IputFree(p) \/ Unref(p)
  \/ \E p \in Proc, c \in Calls : Begin(p, c)
  \/ \E p \in Proc : PathStep(p)
  \/ \E p \in Proc : UnlinkStep(p)
  \/ \E p \in Proc : LinkStep(p)
  \/ \E p \in Proc : CreateStep(p)
  \/ \E p \in Proc : OpenStep(p)
  \/ \E p \in Proc, d \in 1..NOFILE : Close(p, d) \/ Dup(p, d)
  \/ \E p, q \in Proc : Fork(p, q)
  \/ \E p \in Proc : Exit(p) \/ ExitClose(p) \/ ExitCwd(p)
  \/ Crash

Spec == Init /\ [][Next]_vars

----------------------------------------------------------------------------
(* Properties *)

\* The kernel never panics in ilock() or unlink(): whatever a directory or a
\* process still refers to is an allocated inode.
NoPanic == \A p \in Proc : ~Panics(p)

\* The comment in iput(): with the only reference to an inode in hand,
\* acquiresleep() finds the lock free, so that it may be called with
\* itable.lock held.
IputWontBlock ==
  \A p \in Proc : th[p].pc = "put" /\ Dying(th[p].put) => lk[th[p].put] = None

\* The links to inode i: entries, and the ".." of the directories in it.
HasEntry(d) == \E e \in Inum, n \in Name : ent[e][n] = d
Links(i) ==
  {x \in Inum \X Name : ent[x[1]][x[2]] = i} \cup
  {x \in (Inum \ {ROOT}) \X {".."} : ent[x[1]][".."] = i /\ HasEntry(x[1])}

\* At no instant has an inode fewer links counted than it has, and no entry
\* names a free inode: link() counts first, unlink() counts last.
LinksCovered ==
  \A i \in Inum : /\ dino[i].nlink >= Cardinality(Links(i))
                  /\ Links(i) # {} => dino[i].type # "NONE"

\* Between calls, and so after a crash, the count is exact (the root has one
\* link more), unless some call put an entry into a removed directory that
\* it still had a reference to.
LinksExact ==
  Quiet /\ ~stray =>
    \A i \in Inum : dino[i].nlink = Cardinality(Links(i)) + (IF i = ROOT THEN 1 ELSE 0)

\* Between calls nothing is left over: an inode table entry counts the open
\* files and current directories on it, an open file counts the descriptors.
RefsExact ==
  Quiet =>
    /\ \A s \in Slot : itab[s].ref = Cardinality({f \in 1..NFILE : file[f].ip = s})
                                       + Cardinality({p \in Proc : cwd[p] = s})
    /\ \A f \in 1..NFILE :
         file[f].ref = Cardinality({x \in Proc \X (1..NOFILE) : ofile[x[1]][x[2]] = f})

\* An open file keeps its inode: whoever unlinks it, it is not freed.
OpenFilesLive ==
  \A f \in 1..NFILE : file[f].ref > 0 =>
    file[f].ip # None /\ dino[itab[file[f].ip].inum].type # "NONE"

\* An inode whose references and links have both gone is freed: between calls,
\* what is allocated has a link, or is in the table, or was in the table when
\* the machine crashed.
FreedWithLastReference ==
  Quiet => \A i \in Inum \ lost :
    dino[i].type # "NONE" /\ dino[i].nlink = 0 =>
      \E s \in Slot : itab[s].ref > 0 /\ itab[s].inum = i
=============================================================================
