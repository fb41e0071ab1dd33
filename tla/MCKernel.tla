------------------------------ MODULE MCKernel ------------------------------
(***************************************************************************)
(* Small instances, for TLC, of the parts of the kernel apart from         *)
(* processes and files, and of the user programs.  This module extends     *)
(* those of sleep() and wakeup(), and of the drivers of the disk, the      *)
(* clock, the UART and the console, so that their properties here are      *)
(* those of the proofs; memory, malloc() and the shell are instances.      *)
(* Each behaviour is one of one part: part says which.                     *)
(***************************************************************************)
EXTENDS Sleep, Virtio, Clock, Uart, Console, TLC

CONSTANT u1

\* Buffers are interchangeable.
Symmetry == Permutations(Buf)

\* The arguments of sys_sleep().
SleepArgs == {0, 2, -1}

\* Programs for exec(): one page and a half of memory; segments out of order;
\* a segment that is not aligned; more bytes in the file than in memory.
Seg(v, m, f) == [vaddr |-> v, memsz |-> m, filesz |-> f]
Programs == {<<Seg(0, 3, 2)>>, <<Seg(4, 2, 2), Seg(0, 1, 1)>>, <<Seg(1, 1, 1)>>, <<Seg(0, 1, 2)>>}

\* Command lines for the shell: x | x | x, x < g >> f, x < g | x >> f,
\* x | x &; x, (x; x) | x, x | (x; x), (x | x) | x &, ; x | x.
Word == [type |-> "EXEC", argv |-> <<"x">>]
Redir(op, f, c) == [type |-> "REDIR", op |-> op, file |-> f, cmd |-> c]
Pipe(l, r) == [type |-> "PIPE", left |-> l, right |-> r]
List(l, r) == [type |-> "LIST", left |-> l, right |-> r]
Back(c) == [type |-> "BACK", cmd |-> c]
Input(c) == Redir("<", <<"g">>, c)
Output(c) == Redir("+", <<"f">>, c)
Commands ==
  {Pipe(Word, Pipe(Word, Word)), Output(Input(Word)), Pipe(Input(Word), Output(Word)),
   List(Back(Pipe(Word, Word)), Word), Pipe(List(Word, Word), Word),
   Pipe(Word, List(Word, Word)), Pipe(Pipe(Word, Word), Back(Word)),
   List([Word EXCEPT !.argv = <<>>], Pipe(Word, Word))}

VARIABLES part, mbrk, mptr, msize, mfreep, mused, mgap, ptree, pblank,
          pparsed, rtree, rproc, rprompt, roops, anfree, atf, apt, alive,
          ath, apanicked

mvars == <<mbrk, mptr, msize, mfreep, mused, mgap>>
pvars == <<ptree, pblank, pparsed>>
rvars == <<rtree, rproc, rprompt, roops>>
avars == <<anfree, atf, apt, alive, ath, apanicked>>

UM == INSTANCE Umalloc WITH
  MaxBrk <- 9, CORE <- 3, Units <- {1, 2, 4}, brk <- mbrk, ptr <- mptr,
  size <- msize, freep <- mfreep, used <- mused, gap <- mgap
PA == INSTANCE ShParse WITH
  Depth <- 2, MAXARGS <- 10, tree <- ptree, blank <- pblank,
  parsed <- pparsed
RU == INSTANCE ShRun WITH
  Trees <- Commands, NOFILE <- 7, tree <- rtree, proc <- rproc,
  prompt <- rprompt, oops <- roops
ME == INSTANCE Mem WITH
  Proc <- User, InitProc <- u1, NPAGE <- 17, PGSIZE <- 2, RADIX <- 3,
  MAXVA <- 27, UINT <- 64, Grow <- {3, -1, -9}, MAXARG <- 1,
  Progs <- Programs, nfree <- anfree, tf <- atf, pt <- apt, live <- alive,
  th <- ath, panicked <- apanicked

(* A part that does not run is in its initial state if this module extends *)
(* it, and else has 0 in its variables.                                    *)
mOff == mbrk = 0 /\ mptr = 0 /\ msize = 0 /\ mfreep = 0 /\ mused = 0 /\
  mgap = 0
pOff == ptree = 0 /\ pblank = 0 /\ pparsed = 0
rOff == rtree = 0 /\ rproc = 0 /\ rprompt = 0 /\ roops = 0
aOff == anfree = 0 /\ atf = 0 /\ apt = 0 /\ alive = 0 /\ ath = 0 /\
  apanicked = 0

MCInit ==
  /\ part \in {"sleep", "virtio", "clock", "uart", "console", "malloc",
               "parse", "run", "memory"}
  /\ SleepInit /\ Init /\ ClockInit /\ UartInit /\ ConsoleInit
  /\ IF part = "malloc" THEN UM!Init ELSE mOff
  /\ IF part = "parse" THEN PA!Init ELSE pOff
  /\ IF part = "run" THEN RU!Init ELSE rOff
  /\ IF part = "memory" THEN ME!Init ELSE aOff

extended == <<sleepvars, vars, clockvars, uartvars, consolevars>>
instances == <<mvars, pvars, rvars, avars>>
mcvars == <<part, extended, instances>>

MCNext ==
  /\ UNCHANGED part
  /\ \/ /\ part = "sleep" /\ SleepNext
        /\ UNCHANGED <<vars, clockvars, uartvars, consolevars, instances>>
     \/ /\ part = "virtio" /\ Next
        /\ UNCHANGED <<sleepvars, clockvars, uartvars, consolevars,
             instances>>
     \/ /\ part = "clock" /\ ClockNext
        /\ UNCHANGED <<sleepvars, vars, uartvars, consolevars, instances>>
     \/ /\ part = "uart" /\ UartNext
        /\ UNCHANGED <<sleepvars, vars, clockvars, consolevars, instances>>
     \/ /\ part = "console" /\ ConsoleNext
        /\ UNCHANGED <<sleepvars, vars, clockvars, uartvars, instances>>
     \/ /\ part = "malloc" /\ UM!Next
        /\ UNCHANGED <<extended, pvars, rvars, avars>>
     \/ /\ part = "parse" /\ PA!Next
        /\ UNCHANGED <<extended, mvars, rvars, avars>>
     \/ /\ part = "run" /\ RU!Next
        /\ UNCHANGED <<extended, mvars, pvars, avars>>
     \/ /\ part = "memory" /\ ME!Next
        /\ UNCHANGED <<extended, mvars, pvars, rvars>>
     \/ part = "sleep" /\ UNCHANGED mcvars

MCSpec == MCInit /\ [][MCNext]_mcvars
-----------------------------------------------------------------------------
(* Memory *)

\* No page is lost or freed twice, wherever kalloc() fails in fork(), exec()
\* and sbrk(), and mappages(), uvmunmap(), freewalk() and loadseg() never panic.
PagesConserved == part = "memory" => ME!PagesConserved /\ ME!NoPanic

\* An address space is exactly what p->sz says, also after a failed call, and
\* copyin() and copyout() reach that memory and no other.
ImageExact == part = "memory" => ME!ImageExact /\ ME!UserCopies

(* User programs *)

\* malloc() and free(): each unit of the heap is in one block, used or free,
\* and the free list is circular, in address order, and fully coalesced.
HeapPartition == part = "malloc" => UM!HeapPartition /\ UM!ListSorted

\* The shell's parser reads back every command as it was meant.
ParsesBack == part = "parse" => PA!ParsesBack

\* runcmd() starts each program with exactly its own descriptors.
StdioExact == part = "run" => RU!StdioExact
=============================================================================
