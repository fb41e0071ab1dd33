------------------------------ MODULE MCStorage ------------------------------
(***************************************************************************)
(* Small instances, for TLC, of the layers of the file system above and    *)
(* below the log: the buffer cache with its sleep locks (this module       *)
(* extends Bcache), names, inodes and open files (an instance of MCFs) and *)
(* the blocks of files; and of the spin locks that all of them use (this   *)
(* module extends Spin).  Each behaviour is one of one part.               *)
(***************************************************************************)
EXTENDS Bcache, Spin, FsMenus

CONSTANTS User, init, Name, NInum, NINODE, NFILE, NOFILE,            \* Fs
          Ino, i1, i2, f1, f2, NBlock, BSIZE, NDIRECT, NINDIRECT,
          MAXOPBLOCKS, UINT, BPB                                     \* FileIO

\* Two open files on different inodes.
Files == [f \in {f1, f2} |-> IF f = f1 THEN i1 ELSE i2]

VARIABLES part, ndino, nent, nitab, nlk, nfile, nofile, ncwd, nth, nstray,
          nlost, menu, ffs, ftoobig, foff, ftodo

nvars == <<ndino, nent, nitab, nlk, nfile, nofile, ncwd, nth, nstray, nlost,
  menu>>
fvars == <<ffs, ftoobig, foff, ftodo>>

N == INSTANCE MCFs WITH
  Proc <- User, InitProc <- init, Calls <- AllCalls, dino <- ndino,
  ent <- nent, itab <- nitab, lk <- nlk, file <- nfile, ofile <- nofile,
  cwd <- ncwd, th <- nth, stray <- nstray, lost <- nlost
F == INSTANCE FileIO WITH
  File <- {f1, f2}, IpOf <- Files, Lens <- {-1, 1, 5}, fs <- ffs,
  toobig <- ftoobig, off <- foff, todo <- ftodo

(* A part that does not run has 0 in its variables; the cache and the spin *)
(* locks are in their initial states.                                      *)
nOff == ndino = 0 /\ nent = 0 /\ nitab = 0 /\ nlk = 0 /\ nfile = 0 /\
  nofile = 0 /\ ncwd = 0 /\ nth = 0 /\ nstray = 0 /\ nlost = 0 /\ menu = 0
fOff == ffs = 0 /\ ftoobig = 0 /\ foff = 0 /\ ftodo = 0

MCInit ==
  /\ part \in {"cache", "spin", "name", "file"}
  /\ Init /\ SpinInit
  /\ IF part = "name" THEN N!MenuInit ELSE nOff
  /\ IF part = "file" THEN F!Init ELSE fOff

mcvars == <<part, vars, spinvars, nvars, fvars>>

MCNext ==
  /\ UNCHANGED part
  /\ \/ part = "cache" /\ Next /\ UNCHANGED <<spinvars, nvars, fvars>>
     \/ part = "spin" /\ SpinNext /\ UNCHANGED <<vars, nvars, fvars>>
     \/ part = "name" /\ N!MenuNext /\ UNCHANGED <<vars, spinvars, fvars>>
     \/ part = "file" /\ F!Next /\ UNCHANGED <<vars, spinvars, nvars>>

MCSpec == MCInit /\ [][MCNext]_mcvars
-----------------------------------------------------------------------------
(* Names, inodes and open files *)

\* Whatever calls overlap, ilock() finds an allocated inode (fs.c:311) and
\* unlink() one with a link (sysfile.c:212), and iput() takes the lock of the
\* inode it frees without waiting.  Panics for want of an inode, a table entry
\* or a block are outside: the instance has enough of them.
FsNoPanic == part = "name" => N!NoPanic /\ N!IputWontBlock

\* An inode has at least as many links as the directories have entries for
\* it, and exactly as many when no call is under way.
FsLinksExact == part = "name" => N!LinksCovered /\ N!LinksExact

\* ip->ref counts the pointers to an inode table entry, and an open file
\* keeps its inode, with or without a name.
FsRefsExact == part = "name" => N!RefsExact /\ N!OpenFilesLive

(* File contents *)

\* Every position of a file below its size holds a byte written to that file
\* at that position (of several, this does not say which); every block in use
\* belongs to one file at one place, and no other is marked.
ReadsBack == part = "file" => F!ReadsBack /\ F!BlocksOwned

\* filewrite() stays within the blocks begin_op() reserved.
FitsTransaction == part = "file" => F!FitsTransaction
=============================================================================
