-------------------------------- MODULE Pipe --------------------------------
(***************************************************************************)
(* One pipe of kernel/pipe.c with its two struct file of kernel/file.c:    *)
(* any number of processes that share its ends through fork(), writing,    *)
(* reading, closing, and being killed.                                     *)
(*                                                                         *)
(* One step is one turn of a loop under pi->lock, which the process that   *)
(* takes it holds from acquire() to sleep() or release(); kill() does not  *)
(* take that lock and comes between any two steps.  wakeup() is called     *)
(* with pi->lock held, and sleep() gives pi->lock up only after the        *)
(* process is marked SLEEPING under its own lock, so for the sleepers of   *)
(* this pipe wakeup() is one step.                                         *)
(***************************************************************************)
EXTENDS Naturals, Sequences, FiniteSets

CONSTANTS Proc,      \* the processes
          Creator,   \* the one that called pipe()
          Byte,      \* what user memory may hold
          Junk,      \* what kalloc() leaves in a page
          NoOne,     \* pi->lock is free
          PIPESIZE,
          UINT,      \* 2^32: nread and nwrite are unsigned ints
          MaxN,      \* longest read or write that is tried
          Victims    \* the processes that kill() may be called on

ASSUME ConstAssumption ==
  /\ Creator \in Proc /\ NoOne \notin Proc /\ Junk \notin Byte
  /\ IsFiniteSet(Proc) /\ Victims \subseteq Proc
  /\ PIPESIZE \in Nat \ {0} /\ MaxN \in Nat
  /\ UINT \in Nat /\ UINT % PIPESIZE = 0 /\ PIPESIZE < UINT

VARIABLES data, nread, nwrite, readopen, writeopen,  \* struct pipe
          lock,    \* who holds pi->lock
          freed,   \* how often the pipe's page went to kfree()
          ref,     \* f->ref of the two files
          ofile,   \* the ends each process has open
          killed,  \* p->killed
          pc, i, n,  \* where each process is in a call, its i and its n
          out      \* the byte copyout() stored last, for the refinement

pipe == <<data, nread, nwrite, readopen, writeopen, freed, out>>
files == <<ref, ofile>>
vars == <<pipe, lock, files, killed, pc, i, n>>

End == {"read", "write"}
\* "w": at pipewrite's loop, "wsleep": about to call sleep(), "wasleep":
\* SLEEPING on &pi->nwrite, "wwoken": RUNNABLE inside sleep(); the same for
\* piperead; "rcopy" is its second loop.
Writing == {"w", "wsleep", "wasleep", "wwoken"}
Reading == {"r", "rsleep", "rasleep", "rwoken", "rcopy"}
PCs == Writing \cup Reading \cup {"unborn", "user", "closeread", "closewrite", "kfree"}

\* x++ on an unsigned int.
Bump(x) == (x + 1) % UINT

\* Mutant: the sum is not cut to the width of the counters.
FullWide == nwrite = nread + PIPESIZE

Full == nwrite = (nread + PIPESIZE) % UINT
Empty == nread = nwrite

\* pipealloc() by Creator; the other processes are forked from it.
Init ==
  /\ data = [k \in 0..(PIPESIZE - 1) |-> Junk]
  /\ nread = 0 /\ nwrite = 0
  /\ readopen = TRUE /\ writeopen = TRUE
  /\ lock = NoOne
  /\ freed = 0
  /\ ref = [e \in End |-> 1]
  /\ ofile = [p \in Proc |-> IF p = Creator THEN End ELSE {}]
  /\ killed = [p \in Proc |-> FALSE]
  /\ pc = [p \in Proc |-> IF p = Creator THEN "user" ELSE "unborn"]
  /\ i = [p \in Proc |-> 0]
  /\ n = [p \in Proc |-> 0]
  /\ out = Junk

Goto(p, l) == pc' = [pc EXCEPT ![p] = l]

\* release() and return: the locals of the call are gone.
Return(p) ==
  /\ lock' = NoOne
  /\ i' = [i EXCEPT ![p] = 0]
  /\ n' = [n EXCEPT ![p] = 0]

\* p goes to l, and wakeup(chan) makes every process asleep at s RUNNABLE.
GotoWaking(p, l, s, woken) ==
  pc' = [x \in Proc |->
           IF x = p THEN l ELSE IF pc[x] = s THEN woken ELSE pc[x]]

WakeReaders(p, l) == GotoWaking(p, l, "rasleep", "rwoken")
WakeWriters(p, l) == GotoWaking(p, l, "wasleep", "wwoken")

----------------------------------------------------------------------------
(* Sharing and closing the ends *)

\* fork(): the child gets a reference to each file of its parent.
Fork(p, c) ==
  /\ pc[p] = "user" /\ ~killed[p] /\ ofile[p] # {}
  /\ pc[c] = "unborn"
  /\ Goto(c, "user")
  /\ ofile' = [ofile EXCEPT ![c] = ofile[p]]
  /\ ref' = [e \in End |-> IF e \in ofile[p] THEN ref[e] + 1 ELSE ref[e]]
  /\ UNCHANGED <<pipe, lock, killed, i, n>>

PipeClosing(e) == IF e = "read" THEN "closeread" ELSE "closewrite"

\* sys_close(), or exit() for each of its files: fileclose() of end e, under
\* ftable.lock; the last reference goes on to pipeclose().
FileClose(p, e) ==
  /\ pc[p] = "user" /\ e \in ofile[p]
  /\ ofile' = [ofile EXCEPT ![p] = @ \ {e}]
  /\ ref' = [ref EXCEPT ![e] = @ - 1]
  /\ Goto(p, IF ref[e] > 1 THEN "user" ELSE PipeClosing(e))
  /\ UNCHANGED <<pipe, lock, killed, i, n>>

\* Mutant: || for && in the test for both ends.
AfterCloseEither == IF ~readopen' \/ ~writeopen' THEN "kfree" ELSE "user"

\* Both ends are closed: the caller frees the page, after it has released
\* the lock.
AfterClose == IF ~readopen' /\ ~writeopen' THEN "kfree" ELSE "user"

PipeCloseWrite(p) ==
  /\ pc[p] = "closewrite" /\ lock = NoOne
  /\ writeopen' = FALSE
  /\ UNCHANGED readopen
  /\ WakeReaders(p, AfterClose)
  /\ UNCHANGED <<data, nread, nwrite, freed, out, lock, files, killed, i, n>>

PipeCloseRead(p) ==
  /\ pc[p] = "closeread" /\ lock = NoOne
  /\ readopen' = FALSE
  /\ UNCHANGED writeopen
  /\ WakeWriters(p, AfterClose)
  /\ UNCHANGED <<data, nread, nwrite, freed, out, lock, files, killed, i, n>>

KFree(p) ==
  /\ pc[p] = "kfree"
  /\ freed' = freed + 1
  /\ Goto(p, "user")
  /\ UNCHANGED <<data, nread, nwrite, readopen, writeopen, out, lock, files,
                 killed, i, n>>

\* kill(): wakes its victim if that is asleep, whatever it sleeps for.
Kill(p) ==
  /\ p \in Victims /\ ~killed[p] /\ pc[p] # "unborn"
  /\ killed' = [killed EXCEPT ![p] = TRUE]
  /\ Goto(p, CASE pc[p] = "wasleep" -> "wwoken"
               [] pc[p] = "rasleep" -> "rwoken"
               [] OTHER -> pc[p])
  /\ UNCHANGED <<pipe, lock, files, i, n>>

----------------------------------------------------------------------------
(* pipewrite() *)

WriteCall(p, m) ==
  /\ pc[p] = "user" /\ ~killed[p] /\ "write" \in ofile[p] /\ lock = NoOne
  /\ lock' = p
  /\ n' = [n EXCEPT ![p] = m]
  /\ Goto(p, "w")
  /\ UNCHANGED <<pipe, files, killed, i>>

\* sleep() returns with the lock.
WriteWoken(p) ==
  /\ pc[p] = "wwoken" /\ lock = NoOne
  /\ lock' = p
  /\ Goto(p, "w")
  /\ UNCHANGED <<pipe, files, killed, i, n>>

GiveUp(p) == ~readopen \/ killed[p]

\* Mutant: tries again instead of returning.
WriteFailsRetries(p) ==
  /\ pc[p] = "w" /\ i[p] < n[p] /\ GiveUp(p)
  /\ lock' = NoOne
  /\ Goto(p, "wwoken")
  /\ UNCHANGED <<pipe, files, killed, i, n>>

WriteFails(p) ==
  /\ pc[p] = "w" /\ i[p] < n[p] /\ GiveUp(p)
  /\ Return(p)
  /\ Goto(p, "user")
  /\ UNCHANGED <<pipe, files, killed>>

WriteFull(p) ==
  /\ pc[p] = "w" /\ i[p] < n[p] /\ ~GiveUp(p) /\ Full
  /\ WakeReaders(p, "wsleep")
  /\ UNCHANGED <<pipe, lock, files, killed, i, n>>

WriteSleep(p) ==
  /\ pc[p] = "wsleep"
  /\ lock' = NoOne
  /\ Goto(p, "wasleep")
  /\ UNCHANGED <<pipe, files, killed, i, n>>

WriteByte(p, b) ==
  /\ pc[p] = "w" /\ i[p] < n[p] /\ ~GiveUp(p) /\ ~Full
  /\ data' = [data EXCEPT ![nwrite % PIPESIZE] = b]
  /\ nwrite' = Bump(nwrite)
  /\ i' = [i EXCEPT ![p] = @ + 1]
  /\ UNCHANGED <<nread, readopen, writeopen, freed, out, lock, files, killed,
                 pc, n>>

\* The loop ends, or copyin() fails: wake the readers and return i.
WriteDone(p) ==
  /\ pc[p] = "w"
  /\ i[p] < n[p] => ~GiveUp(p) /\ ~Full
  /\ Return(p)
  /\ WakeReaders(p, "user")
  /\ UNCHANGED <<pipe, files, killed>>

----------------------------------------------------------------------------
(* piperead() *)

ReadCall(p, m) ==
  /\ pc[p] = "user" /\ ~killed[p] /\ "read" \in ofile[p] /\ lock = NoOne
  /\ lock' = p
  /\ n' = [n EXCEPT ![p] = m]
  /\ Goto(p, "r")
  /\ UNCHANGED <<pipe, files, killed, i>>

\* Mutant: if for while around sleep().
ReadWokenNoRecheck(p) ==
  /\ pc[p] = "rwoken" /\ lock = NoOne
  /\ lock' = p
  /\ Goto(p, "rcopy")
  /\ UNCHANGED <<pipe, files, killed, i, n>>

ReadWoken(p) ==
  /\ pc[p] = "rwoken" /\ lock = NoOne
  /\ lock' = p
  /\ Goto(p, "r")
  /\ UNCHANGED <<pipe, files, killed, i, n>>

ReadWaits == Empty /\ writeopen

ReadFails(p) ==
  /\ pc[p] = "r" /\ ReadWaits /\ killed[p]
  /\ Return(p)
  /\ Goto(p, "user")
  /\ UNCHANGED <<pipe, files, killed>>

ReadEmpty(p) ==
  /\ pc[p] = "r" /\ ReadWaits /\ ~killed[p]
  /\ Goto(p, "rsleep")
  /\ UNCHANGED <<pipe, lock, files, killed, i, n>>

ReadSleep(p) ==
  /\ pc[p] = "rsleep"
  /\ lock' = NoOne
  /\ Goto(p, "rasleep")
  /\ UNCHANGED <<pipe, files, killed, i, n>>

ReadStart(p) ==
  /\ pc[p] = "r" /\ ~ReadWaits
  /\ Goto(p, "rcopy")
  /\ UNCHANGED <<pipe, lock, files, killed, i, n>>

NextByte == data[nread % PIPESIZE]

ReadByte(p) ==
  /\ pc[p] = "rcopy" /\ i[p] < n[p] /\ ~Empty
  /\ out' = NextByte
  /\ nread' = Bump(nread)
  /\ i' = [i EXCEPT ![p] = @ + 1]
  /\ UNCHANGED <<data, nwrite, readopen, writeopen, freed, lock, files, killed,
                 pc, n>>

\* copyout() fails: the byte has left the pipe, and the loop ends.
ReadFault(p) ==
  /\ pc[p] = "rcopy" /\ i[p] < n[p] /\ ~Empty
  /\ nread' = Bump(nread)
  /\ Return(p)
  /\ WakeWriters(p, "user")
  /\ UNCHANGED <<data, nwrite, readopen, writeopen, freed, out, files, killed>>

\* Mutant: wakes the writers only if it has emptied the pipe.
ReadDoneSilent(p) ==
  /\ pc[p] = "rcopy" /\ (i[p] = n[p] \/ Empty)
  /\ Return(p)
  /\ IF Empty THEN WakeWriters(p, "user") ELSE Goto(p, "user")
  /\ UNCHANGED <<pipe, files, killed>>

ReadDone(p) ==
  /\ pc[p] = "rcopy" /\ (i[p] = n[p] \/ Empty)
  /\ Return(p)
  /\ WakeWriters(p, "user")
  /\ UNCHANGED <<pipe, files, killed>>

----------------------------------------------------------------------------
KernelStep(p) ==
  \/ PipeCloseWrite(p) \/ PipeCloseRead(p) \/ KFree(p)
  \/ WriteWoken(p) \/ WriteFails(p) \/ WriteFull(p) \/ WriteSleep(p)
  \/ (\E b \in Byte : WriteByte(p, b)) \/ WriteDone(p)
  \/ ReadWoken(p) \/ ReadFails(p) \/ ReadEmpty(p) \/ ReadSleep(p)
  \/ ReadStart(p) \/ ReadByte(p) \/ ReadFault(p) \/ ReadDone(p)

StepOf(p) ==
  \/ KernelStep(p)
  \/ \E c \in Proc : Fork(p, c)
  \/ \E e \in End : FileClose(p, e)
  \/ \E m \in 0..MaxN : WriteCall(p, m) \/ ReadCall(p, m)
  \/ Kill(p)

Next == \E p \in Proc : StepOf(p)

Spec == Init /\ [][Next]_vars

\* Calls run on, pi->lock is not withheld from a process forever, and a
\* killed process closes its files in exit().
Fairness ==
  \A p \in Proc :
    /\ SF_vars(KernelStep(p))
    /\ WF_vars(killed[p] /\ \E e \in End : FileClose(p, e))

FairSpec == Spec /\ Fairness

----------------------------------------------------------------------------
(* Properties *)

PipeTypes ==
  /\ data \in [0..(PIPESIZE - 1) -> Byte \cup {Junk}]
  /\ nread \in 0..(UINT - 1) /\ nwrite \in 0..(UINT - 1)
  /\ readopen \in BOOLEAN /\ writeopen \in BOOLEAN
  /\ freed \in Nat
  /\ out \in Byte \cup {Junk}

FileTypes == ref \in [End -> Nat] /\ ofile \in [Proc -> SUBSET End]

ProcTypes ==
  /\ lock \in Proc \cup {NoOne}
  /\ killed \in [Proc -> BOOLEAN]
  /\ pc \in [Proc -> PCs]

LocalTypes == i \in [Proc -> 0..MaxN] /\ n \in [Proc -> 0..MaxN]

\* Every variable has its type: the counters stay unsigned ints, and no
\* reference count is decremented below zero.
TypeOK == PipeTypes /\ FileTypes /\ ProcTypes /\ LocalTypes

\* The pipe is a bounded queue of bytes, across the wrap of both counters and
\* with writers and readers that give way to each other inside a call.
Count == (nwrite + UINT - nread) % UINT
Queue == [k \in 1..Count |-> data[(nread + k - 1) % PIPESIZE]]
F == INSTANCE Fifo WITH Nothing <- Junk, Capacity <- PIPESIZE, q <- Queue,
                        ropen <- readopen, wopen <- writeopen
ImplementsFifo == F!Spec

\* The page of the pipe is freed once, and never while a process is in a call
\* on it, waits for its lock, or holds a descriptor of it.
NoUseAfterFree ==
  freed > 0 =>
    /\ freed = 1
    /\ lock = NoOne
    /\ \A p \in Proc : pc[p] \in {"unborn", "user"} /\ ofile[p] = {}

\* piperead() of p returns i[p] in this step.
ReadReturns(p) == pc[p] = "rcopy" /\ pc'[p] = "user"

\* A read of at least one byte returns 0 for two reasons only.  Either the
\* write end is closed and everything sent has been read: no reader takes for
\* the end of the stream a pipe that another reader has just emptied.  Or
\* copyout() failed on the first byte, which has left the pipe and is lost;
\* then the pipe may be open and hold more bytes, and the caller cannot tell
\* this from the end of the stream.
EofMeansClosed ==
  [][\A p \in Proc :
       ReadReturns(p) /\ i[p] = 0 /\ n[p] > 0 =>
         \/ Empty /\ ~writeopen /\ UNCHANGED nread
         \/ ~Empty /\ nread' = Bump(nread) /\ UNCHANGED out]_vars

\* While nobody is inside the critical section, a process sleeps in
\* piperead() only if the pipe is empty and open for writing, and in
\* pipewrite() only if it is full and open for reading.  This ends with the
\* first kill(): a writer that finds itself killed after it has stored bytes
\* returns without the wakeup() for them.
SleeperMustWait ==
  lock = NoOne /\ (\A p \in Proc : ~killed[p]) =>
    \A p \in Proc :
      /\ pc[p] = "rasleep" => Empty /\ writeopen
      /\ pc[p] = "wasleep" => Full /\ readopen

\* A process in piperead() or pipewrite() returns once the other end is
\* closed.
CloseReleases ==
  \A p \in Proc :
    /\ (pc[p] \in Reading /\ ~writeopen) ~> (pc[p] \notin Reading)
    /\ (pc[p] \in Writing /\ ~readopen) ~> (pc[p] \notin Writing)

\* A killed process leaves the pipe.
KilledLeaves ==
  \A p \in Proc : killed[p] ~> (pc[p] \notin Reading \cup Writing)

----------------------------------------------------------------------------
(* The inductive invariant behind NoUseAfterFree *)

Holding == {"w", "wsleep", "r", "rsleep", "rcopy"}
Holders(e) == {p \in Proc : e \in ofile[p]}

LockInv == \A p \in Proc : lock = p <=> pc[p] \in Holding

\* f->ref counts the descriptors, and a call keeps its descriptor.
RefInv ==
  /\ \A e \in End : ref[e] = Cardinality(Holders(e))
  /\ \A p \in Proc :
       /\ pc[p] \in Writing => "write" \in ofile[p]
       /\ pc[p] \in Reading => "read" \in ofile[p]
       /\ pc[p] = "unborn" => ofile[p] = {}

\* An end is open until the process that dropped its last reference has been
\* through pipeclose(); there is one such process at most.
CloseInv ==
  /\ readopen <=> ref["read"] # 0 \/ \E p \in Proc : pc[p] = "closeread"
  /\ writeopen <=> ref["write"] # 0 \/ \E p \in Proc : pc[p] = "closewrite"
  /\ \A p \in Proc : pc[p] = "closeread" =>
       ref["read"] = 0 /\ \A q \in Proc : pc[q] = "closeread" => q = p
  /\ \A p \in Proc : pc[p] = "closewrite" =>
       ref["write"] = 0 /\ \A q \in Proc : pc[q] = "closewrite" => q = p

FreeInv ==
  /\ freed \in {0, 1}
  /\ \A p \in Proc : pc[p] = "kfree" =>
       /\ ~readopen /\ ~writeopen /\ freed = 0
       /\ \A q \in Proc : pc[q] = "kfree" => q = p
  /\ freed # 0 => ~readopen /\ ~writeopen

\* References, open flags and the page are given up in this order, each by
\* one process, however fork(), close() and kill() interleave.
PipeInv == TypeOK /\ LockInv /\ RefInv /\ CloseInv /\ FreeInv

(* What the calls on the pipe rely on, on top of PipeInv *)

\* The ring holds what nwrite is ahead of nread.
RingInv == Count <= PIPESIZE

\* A reader that has copied nothing yet goes on because there is a byte, or
\* because there will be none.
EofInv ==
  \A p \in Proc : pc[p] = "rcopy" /\ i[p] = 0 => ~Empty \/ ~writeopen

\* Who changes what a sleeper waits for still has the wakeup() before it.
SleepInv ==
  (\A p \in Proc : ~killed[p]) =>
    \A p \in Proc :
      /\ pc[p] = "rsleep" => Empty /\ writeopen
      /\ pc[p] = "wsleep" => Full /\ readopen
      /\ pc[p] = "rasleep" => (Empty /\ writeopen) \/ \E q \in Proc : pc[q] = "w"
      /\ pc[p] = "wasleep" => (Full /\ readopen) \/ \E q \in Proc : pc[q] = "rcopy"

CallInv == RingInv /\ EofInv /\ SleepInv
=============================================================================
