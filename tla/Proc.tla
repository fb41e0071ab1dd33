-------------------------------- MODULE Proc --------------------------------
(***************************************************************************)
(* The process table and the scheduler of kernel/proc.c: fork, exit, wait, *)
(* kill, sleep, wakeup and context switches, on several CPUs.              *)
(*                                                                         *)
(* One step is one section under a p->lock, or one acquisition or release  *)
(* of wait_lock: the table is scanned slot by slot, as the loops of the    *)
(* code do.  A p->lock outlives a step only around swtch(): the process    *)
(* that gives up its CPU acquires it and the scheduler releases it, and    *)
(* the scheduler that picks a process acquires it and the process releases *)
(* it.  Files, memory and exit statuses are left out; an allocation or a   *)
(* copyout() may fail.                                                     *)
(***************************************************************************)
EXTENDS Naturals, FiniteSets

CONSTANTS NPROC,     \* slots of the process table
          CPU,       \* processors
          MaxPid,    \* bound: no fork() begins once nextpid is beyond it
          KillArgs,  \* pids that programs pass to kill()
          InitCalls  \* calls the first process makes

Calls == {"fork", "exit", "wait", "kill"}

ASSUME ConstAssumption ==
  /\ NPROC \in Nat \ {0}
  /\ MaxPid \in Nat
  /\ KillArgs \subseteq Nat
  /\ InitCalls \subseteq Calls

VARIABLES state,    \* p->state
          chan,     \* p->chan: the slot whose address it is, or 0
          killed,   \* p->killed
          pid,      \* p->pid
          parent,   \* p->parent, or 0
          nextpid,  \* the counter of allocpid()
          plock,    \* p->lock is held across a swtch()
          wlock,    \* the process that holds wait_lock, or 0
          cpu,      \* c->proc, or 0
          pc,       \* where the kernel thread of each process is
          at,       \* the loop variable over the table
          wk,       \* the loop variable of wakeup()
          arg,      \* np in fork(), pid in kill()
          havekids  \* havekids in wait()

table == <<state, chan, killed, pid, parent, nextpid>>
locals == <<at, wk, arg, havekids>>
vars == <<table, plock, wlock, cpu, pc, locals>>

Slot == 1..NPROC
initproc == 1

PStates == {"UNUSED", "USED", "SLEEPING", "RUNNABLE", "RUNNING", "ZOMBIE"}

PCs == {"user", "ret", "fork", "fork_parent", "fork_run", "exit", "exit_lock",
        "reparent", "rewake", "exwake", "zombie", "dead", "wait", "scan",
        "wait_sleep", "asleep", "kill", "panic"}

\* userinit() has made the first process; no CPU has picked it yet.
Init ==
  /\ state = [p \in Slot |-> IF p = initproc THEN "RUNNABLE" ELSE "UNUSED"]
  /\ chan = [p \in Slot |-> 0]
  /\ killed = [p \in Slot |-> FALSE]
  /\ pid = [p \in Slot |-> IF p = initproc THEN 1 ELSE 0]
  /\ parent = [p \in Slot |-> 0]
  /\ nextpid = 2
  /\ plock = [p \in Slot |-> FALSE]
  /\ wlock = 0
  /\ cpu = [c \in CPU |-> 0]
  /\ pc = [p \in Slot |-> "user"]
  /\ at = [p \in Slot |-> 0]
  /\ wk = [p \in Slot |-> 0]
  /\ arg = [p \in Slot |-> 0]
  /\ havekids = [p \in Slot |-> FALSE]

\* A CPU executes the kernel or user code of p.
Running(p) == (\E c \in CPU : cpu[c] = p) /\ state[p] = "RUNNING" /\ ~plock[p]

At(p, l) == Running(p) /\ pc[p] = l
Goto(p, l) == pc' = [pc EXCEPT ![p] = l]
Advance(p) == at' = [at EXCEPT ![p] = @ + 1]
Start(p) == at' = [at EXCEPT ![p] = 1]

----------------------------------------------------------------------------
(* Context switches *)

\* scheduler() finds p RUNNABLE and switches to it, holding p->lock.
Dispatch(c, p) ==
  /\ cpu[c] = 0
  /\ ~plock[p]
  /\ state[p] = "RUNNABLE"
  /\ state' = [state EXCEPT ![p] = "RUNNING"]
  /\ cpu' = [cpu EXCEPT ![c] = p]
  /\ plock' = [plock EXCEPT ![p] = TRUE]
  /\ UNCHANGED <<chan, killed, pid, parent, nextpid, wlock, pc, locals>>

\* p returns from swtch() in yield() or sleep(), or starts in forkret(), and
\* releases its lock; sleep() also clears p->chan and goes on to acquire lk.
Resume(p) ==
  /\ \E c \in CPU : cpu[c] = p
  /\ state[p] = "RUNNING"
  /\ plock[p]
  /\ plock' = [plock EXCEPT ![p] = FALSE]
  /\ IF pc[p] = "asleep"
     THEN chan' = [chan EXCEPT ![p] = 0] /\ Goto(p, "wait")
     ELSE UNCHANGED <<chan, pc>>
  /\ UNCHANGED <<state, killed, pid, parent, nextpid, wlock, cpu, locals>>

\* The scheduler runs again after p called sched(), and releases p->lock.
SwitchOut(c) ==
  /\ cpu[c] # 0
  /\ state[cpu[c]] # "RUNNING"
  /\ plock' = [plock EXCEPT ![cpu[c]] = FALSE]
  /\ cpu' = [cpu EXCEPT ![c] = 0]
  /\ UNCHANGED <<table, wlock, pc, locals>>

\* Mutant: sched() is entered without p->lock.
GiveUpUnlocked(p, s) ==
  /\ ~plock[p]
  /\ state' = [state EXCEPT ![p] = s]
  /\ UNCHANGED plock

\* acquire(&p->lock), a new state, sched()
GiveUp(p, s) ==
  /\ ~plock[p]
  /\ plock' = [plock EXCEPT ![p] = TRUE]
  /\ state' = [state EXCEPT ![p] = s]

\* A timer interrupt: usertrap() lets a killed process exit and yields for
\* any other; kerneltrap() yields wherever interrupts are on, that is where
\* the process holds no spinlock.
Interruptible == {"ret", "fork", "fork_parent", "fork_run", "exit",
                  "exit_lock", "wait", "kill"}

\* Mutant: usertrap() does not look at p->killed after an interrupt.
TimerExitYields(p) ==
  /\ At(p, "user")
  /\ killed[p]
  /\ GiveUp(p, "RUNNABLE")
  /\ UNCHANGED <<chan, killed, pid, parent, nextpid, wlock, cpu, pc, locals>>

TimerExit(p) ==
  /\ At(p, "user")
  /\ killed[p]
  /\ Goto(p, "exit")
  /\ UNCHANGED <<table, plock, wlock, cpu, locals>>

TimerYield(p) ==
  /\ Running(p)
  /\ pc[p] \in Interruptible \/ (pc[p] = "user" /\ ~killed[p])
  /\ GiveUp(p, "RUNNABLE")
  /\ UNCHANGED <<chan, killed, pid, parent, nextpid, wlock, cpu, pc, locals>>

Timer(p) == TimerExit(p) \/ TimerYield(p)

----------------------------------------------------------------------------
(* Entering and leaving the kernel *)

\* usertrap(): a system call, unless the process has been killed.
Syscall(p, call, n) ==
  /\ At(p, "user")
  /\ p = initproc => call \in InitCalls
  /\ call = "fork" => nextpid <= MaxPid
  /\ IF call = "kill" THEN n \in KillArgs ELSE n = 0
  /\ Goto(p, IF killed[p] THEN "exit" ELSE call)
  /\ Start(p)
  /\ arg' = [arg EXCEPT ![p] = n]
  /\ UNCHANGED <<table, plock, wlock, cpu, wk, havekids>>

\* usertrap(): an exception the kernel cannot handle.
Fault(p) ==
  /\ At(p, "user")
  /\ p # initproc
  /\ killed' = [killed EXCEPT ![p] = TRUE]
  /\ Goto(p, "exit")
  /\ UNCHANGED <<state, chan, pid, parent, nextpid, plock, wlock, cpu, locals>>

\* The end of usertrap(), after a system call.
SyscallReturn(p) ==
  /\ At(p, "ret")
  /\ Goto(p, IF killed[p] THEN "exit" ELSE "user")
  /\ at' = [at EXCEPT ![p] = 0]
  /\ arg' = [arg EXCEPT ![p] = 0]
  /\ havekids' = [havekids EXCEPT ![p] = FALSE]
  /\ UNCHANGED <<table, plock, wlock, cpu, wk>>

----------------------------------------------------------------------------
(* fork() *)

\* Mutant: freeproc() leaves p->killed alone.
FreeprocKeepsKilled(p) ==
  /\ pid' = [pid EXCEPT ![p] = 0]
  /\ parent' = [parent EXCEPT ![p] = 0]
  /\ chan' = [chan EXCEPT ![p] = 0]
  /\ state' = [state EXCEPT ![p] = "UNUSED"]
  /\ UNCHANGED killed

freeproc(p) ==
  /\ pid' = [pid EXCEPT ![p] = 0]
  /\ parent' = [parent EXCEPT ![p] = 0]
  /\ chan' = [chan EXCEPT ![p] = 0]
  /\ killed' = [killed EXCEPT ![p] = FALSE]
  /\ state' = [state EXCEPT ![p] = "UNUSED"]

allocpid == nextpid' = nextpid + 1

\* allocproc() looks at one slot.
AllocSkip(p) ==
  /\ At(p, "fork")
  /\ at[p] \in Slot
  /\ ~plock[at[p]]
  /\ state[at[p]] # "UNUSED"
  /\ Advance(p)
  /\ UNCHANGED <<table, plock, wlock, cpu, pc, wk, arg, havekids>>

\* allocproc() finds a slot, and fork() fills it.
AllocFound(p) ==
  LET np == at[p] IN
  /\ At(p, "fork")
  /\ np \in Slot
  /\ ~plock[np]
  /\ state[np] = "UNUSED"
  /\ pid' = [pid EXCEPT ![np] = nextpid]
  /\ allocpid
  /\ state' = [state EXCEPT ![np] = "USED"]
  /\ pc' = [pc EXCEPT ![p] = "fork_parent", ![np] = "user"]
  /\ arg' = [arg EXCEPT ![p] = np]
  /\ UNCHANGED <<chan, killed, parent, plock, wlock, cpu, at, wk, havekids>>

\* The same when an allocation fails, in allocproc() or in uvmcopy().
AllocFail(p) ==
  LET np == at[p] IN
  /\ At(p, "fork")
  /\ np \in Slot
  /\ ~plock[np]
  /\ state[np] = "UNUSED"
  /\ allocpid
  /\ freeproc(np)
  /\ Goto(p, "ret")
  /\ UNCHANGED <<plock, wlock, cpu, locals>>

\* Every slot is in use: fork() returns -1.
AllocprocFull(p) ==
  /\ At(p, "fork")
  /\ at[p] \notin Slot
  /\ Goto(p, "ret")
  /\ UNCHANGED <<table, plock, wlock, cpu, locals>>

ForkParent(p) ==
  /\ At(p, "fork_parent")
  /\ wlock = 0
  /\ parent' = [parent EXCEPT ![arg[p]] = p]
  /\ Goto(p, "fork_run")
  /\ UNCHANGED <<state, chan, killed, pid, nextpid, plock, wlock, cpu, locals>>

ForkRun(p) ==
  /\ At(p, "fork_run")
  /\ ~plock[arg[p]]
  /\ state' = [state EXCEPT ![arg[p]] = "RUNNABLE"]
  /\ Goto(p, "ret")
  /\ UNCHANGED <<chan, killed, pid, parent, nextpid, plock, wlock, cpu, locals>>

----------------------------------------------------------------------------
(* exit() *)

\* The first process must not exit; any other closes its files.
ExitFiles(p) ==
  /\ At(p, "exit")
  /\ Goto(p, IF p = initproc THEN "panic" ELSE "exit_lock")
  /\ UNCHANGED <<table, plock, wlock, cpu, locals>>

\* Mutant: the children are not given away.
ExitLockNoReparent(p) ==
  /\ At(p, "exit_lock")
  /\ wlock = 0
  /\ wlock' = p
  /\ wk' = [wk EXCEPT ![p] = 1]
  /\ Goto(p, "exwake")
  /\ UNCHANGED <<table, plock, cpu, at, arg, havekids>>

ExitLock(p) ==
  /\ At(p, "exit_lock")
  /\ wlock = 0
  /\ wlock' = p
  /\ Start(p)
  /\ Goto(p, "reparent")
  /\ UNCHANGED <<table, plock, cpu, wk, arg, havekids>>

\* reparent() looks at one slot, and passes a child to the first process.
ReparentSkip(p) ==
  /\ At(p, "reparent")
  /\ at[p] \in Slot
  /\ parent[at[p]] # p
  /\ Advance(p)
  /\ UNCHANGED <<table, plock, wlock, cpu, pc, wk, arg, havekids>>

Reparent(p) ==
  /\ At(p, "reparent")
  /\ at[p] \in Slot
  /\ parent[at[p]] = p
  /\ parent' = [parent EXCEPT ![at[p]] = initproc]
  /\ wk' = [wk EXCEPT ![p] = 1]
  /\ Goto(p, "rewake")
  /\ UNCHANGED <<state, chan, killed, pid, nextpid, plock, wlock, cpu, at, arg,
                 havekids>>

ReparentDone(p) ==
  /\ At(p, "reparent")
  /\ at[p] \notin Slot
  /\ wk' = [wk EXCEPT ![p] = 1]
  /\ Goto(p, "exwake")
  /\ UNCHANGED <<table, plock, wlock, cpu, at, arg, havekids>>

\* The channel that exit() wakes: the parent's, or that of the first process.
WakeChan(p) == IF pc[p] = "rewake" THEN initproc ELSE parent[p]

\* wakeup() looks at one slot.
ToWake(p, q) == q # p /\ state[q] = "SLEEPING" /\ chan[q] = WakeChan(p)

InWakeup(p) ==
  /\ At(p, "rewake") \/ At(p, "exwake")
  /\ wk[p] \in Slot
  /\ wk[p] # p => ~plock[wk[p]]

WakeupSkip(p) ==
  /\ InWakeup(p)
  /\ ~ToWake(p, wk[p])
  /\ wk' = [wk EXCEPT ![p] = @ + 1]
  /\ UNCHANGED <<table, plock, wlock, cpu, pc, at, arg, havekids>>

Wakeup(p) ==
  /\ InWakeup(p)
  /\ ToWake(p, wk[p])
  /\ state' = [state EXCEPT ![wk[p]] = "RUNNABLE"]
  /\ wk' = [wk EXCEPT ![p] = @ + 1]
  /\ UNCHANGED <<chan, killed, pid, parent, nextpid, plock, wlock, cpu, pc, at,
                 arg, havekids>>

RewakeDone(p) ==
  /\ At(p, "rewake")
  /\ wk[p] \notin Slot
  /\ Goto(p, "reparent")
  /\ Advance(p)
  /\ wk' = [wk EXCEPT ![p] = 0]
  /\ UNCHANGED <<table, plock, wlock, cpu, arg, havekids>>

ExwakeDone(p) ==
  /\ At(p, "exwake")
  /\ wk[p] \notin Slot
  /\ Goto(p, "zombie")
  /\ wk' = [wk EXCEPT ![p] = 0]
  /\ UNCHANGED <<table, plock, wlock, cpu, at, arg, havekids>>

\* The process gives up its CPU for good.
Zombie(p) ==
  /\ At(p, "zombie")
  /\ GiveUp(p, "ZOMBIE")
  /\ wlock' = 0
  /\ Goto(p, "dead")
  /\ at' = [at EXCEPT ![p] = 0]
  /\ arg' = [arg EXCEPT ![p] = 0]
  /\ havekids' = [havekids EXCEPT ![p] = FALSE]
  /\ UNCHANGED <<chan, killed, pid, parent, nextpid, cpu, wk>>

----------------------------------------------------------------------------
(* wait() *)

WaitLock(p) ==
  /\ At(p, "wait")
  /\ wlock = 0
  /\ wlock' = p
  /\ Start(p)
  /\ havekids' = [havekids EXCEPT ![p] = FALSE]
  /\ Goto(p, "scan")
  /\ UNCHANGED <<table, plock, cpu, wk, arg>>

\* wait() looks at one slot.
ScanOther(p) ==
  /\ At(p, "scan")
  /\ at[p] \in Slot
  /\ parent[at[p]] # p
  /\ Advance(p)
  /\ UNCHANGED <<table, plock, wlock, cpu, pc, wk, arg, havekids>>

ScanChild(p) ==
  /\ At(p, "scan")
  /\ at[p] \in Slot
  /\ parent[at[p]] = p
  /\ ~plock[at[p]]

ScanAlive(p) ==
  /\ ScanChild(p)
  /\ state[at[p]] # "ZOMBIE"
  /\ havekids' = [havekids EXCEPT ![p] = TRUE]
  /\ Advance(p)
  /\ UNCHANGED <<table, plock, wlock, cpu, pc, wk, arg>>

Reap(p) ==
  /\ ScanChild(p)
  /\ state[at[p]] = "ZOMBIE"
  /\ freeproc(at[p])
  /\ wlock' = 0
  /\ Goto(p, "ret")
  /\ UNCHANGED <<nextpid, plock, cpu, locals>>

\* copyout() of the status fails; the first process passes no address.
ReapFails(p) ==
  /\ ScanChild(p)
  /\ state[at[p]] = "ZOMBIE"
  /\ p # initproc
  /\ wlock' = 0
  /\ Goto(p, "ret")
  /\ UNCHANGED <<table, plock, cpu, locals>>

\* Mutant: wait_lock is released before sleep() holds p->lock.
ScanDoneUnlocks(p) ==
  /\ At(p, "scan")
  /\ at[p] \notin Slot
  /\ wlock' = 0
  /\ Goto(p, IF ~havekids[p] \/ killed[p] THEN "ret" ELSE "wait_sleep")
  /\ UNCHANGED <<table, plock, cpu, locals>>

\* No child has exited: give up, or go on to sleep.
ScanDone(p) ==
  /\ At(p, "scan")
  /\ at[p] \notin Slot
  /\ IF ~havekids[p] \/ killed[p]
     THEN wlock' = 0 /\ Goto(p, "ret")
     ELSE UNCHANGED wlock /\ Goto(p, "wait_sleep")
  /\ UNCHANGED <<table, plock, cpu, locals>>

\* sleep(p, &wait_lock), up to sched()
WaitSleep(p) ==
  /\ At(p, "wait_sleep")
  /\ GiveUp(p, "SLEEPING")
  /\ wlock' = 0
  /\ chan' = [chan EXCEPT ![p] = p]
  /\ Goto(p, "asleep")
  /\ at' = [at EXCEPT ![p] = 0]
  /\ UNCHANGED <<killed, pid, parent, nextpid, cpu, wk, arg, havekids>>

----------------------------------------------------------------------------
(* kill() *)

KillSkip(p) ==
  /\ At(p, "kill")
  /\ at[p] \in Slot
  /\ ~plock[at[p]]
  /\ pid[at[p]] # arg[p]
  /\ Advance(p)
  /\ UNCHANGED <<table, plock, wlock, cpu, pc, wk, arg, havekids>>

Kill(p) ==
  /\ At(p, "kill")
  /\ at[p] \in Slot
  /\ ~plock[at[p]]
  /\ pid[at[p]] = arg[p]
  /\ killed' = [killed EXCEPT ![at[p]] = TRUE]
  /\ state' = [state EXCEPT ![at[p]] =
                 IF @ = "SLEEPING" THEN "RUNNABLE" ELSE @]
  /\ Goto(p, "ret")
  /\ UNCHANGED <<chan, pid, parent, nextpid, plock, wlock, cpu, locals>>

KillNobody(p) ==
  /\ At(p, "kill")
  /\ at[p] \notin Slot
  /\ Goto(p, "ret")
  /\ UNCHANGED <<table, plock, wlock, cpu, locals>>

----------------------------------------------------------------------------
ForkStep(p) ==
  \/ AllocSkip(p)
  \/ AllocFound(p)
  \/ AllocFail(p)
  \/ AllocprocFull(p)
  \/ ForkParent(p)
  \/ ForkRun(p)

ExitStep(p) ==
  \/ ExitFiles(p)
  \/ ExitLock(p)
  \/ ReparentSkip(p)
  \/ Reparent(p)
  \/ ReparentDone(p)
  \/ WakeupSkip(p)
  \/ Wakeup(p)
  \/ RewakeDone(p)
  \/ ExwakeDone(p)
  \/ Zombie(p)

WaitStep(p) ==
  \/ WaitLock(p)
  \/ ScanOther(p)
  \/ ScanAlive(p)
  \/ Reap(p)
  \/ ReapFails(p)
  \/ ScanDone(p)
  \/ WaitSleep(p)

KillStep(p) == KillSkip(p) \/ Kill(p) \/ KillNobody(p)

KernelStep(p) ==
  ForkStep(p) \/ ExitStep(p) \/ WaitStep(p) \/ KillStep(p) \/ SyscallReturn(p)

Next ==
  \/ \E c \in CPU, p \in Slot : Dispatch(c, p)
  \/ \E c \in CPU : SwitchOut(c)
  \/ \E p \in Slot : Resume(p)
  \/ \E p \in Slot : Timer(p)
  \/ \E p \in Slot : Fault(p)
  \/ \E p \in Slot, call \in Calls, n \in KillArgs \cup {0} :
       Syscall(p, call, n)
  \/ \E p \in Slot : KernelStep(p)

Spec == Init /\ [][Next]_vars

\* A CPU completes every swtch() and is interrupted by its timer again and
\* again; the loop of scheduler() comes to every slot; a process that keeps
\* getting the CPU, and keeps finding a lock free, goes on in the kernel; and
\* the first process calls wait() again and again, as user/init.c does.
\* Nothing is assumed of the calls of other programs.
Switch(c) == SwitchOut(c) \/ \E p \in Slot : cpu[c] = p /\ Resume(p)
Tick(c) == \E p \in Slot : cpu[c] = p /\ Timer(p)

Fairness ==
  /\ \A c \in CPU : WF_vars(Switch(c)) /\ SF_vars(Tick(c))
  /\ \A p \in Slot :
       /\ SF_vars(\E c \in CPU : Dispatch(c, p))
       /\ SF_vars(KernelStep(p) \/ (p = initproc /\ Syscall(p, "wait", 0)))

FairSpec == Spec /\ Fairness

----------------------------------------------------------------------------
(* Properties *)

\* Every field keeps its type and every loop stays within the table.
TypeOK ==
  /\ state \in [Slot -> PStates]
  /\ chan \in [Slot -> Slot \cup {0}]
  /\ killed \in [Slot -> BOOLEAN]
  /\ pid \in [Slot -> Nat]
  /\ parent \in [Slot -> Slot \cup {0}]
  /\ nextpid \in Nat
  /\ plock \in [Slot -> BOOLEAN]
  /\ wlock \in Slot \cup {0}
  /\ cpu \in [CPU -> Slot \cup {0}]
  /\ pc \in [Slot -> PCs]
  /\ at \in [Slot -> 0..(NPROC + 1)]
  /\ wk \in [Slot -> 0..(NPROC + 1)]
  /\ arg \in [Slot -> Nat]
  /\ havekids \in [Slot -> BOOLEAN]

\* A kernel stack belongs to one CPU at a time and is never freed under it:
\* no process is on two CPUs, and one that a CPU has not left yet is neither
\* picked by another CPU (its state may already say RUNNABLE) nor reaped by
\* its parent (it may already be a ZOMBIE), because sched() is entered with
\* p->lock held.
StackExclusive ==
  /\ \A c, d \in CPU : cpu[c] = cpu[d] /\ cpu[c] # 0 => c = d
  /\ \A c \in CPU : cpu[c] # 0 =>
       /\ state[cpu[c]] \notin {"UNUSED", "USED"}
       /\ state[cpu[c]] # "RUNNING" => plock[cpu[c]]
  /\ \A p \in Slot : state[p] = "RUNNING" => \E c \in CPU : cpu[c] = p

\* Every process but the first has a parent that can still wait() for it:
\* exit() gives its children away before it becomes a zombie.
ParentAlive ==
  \A p \in Slot \ {initproc} :
    state[p] \notin {"UNUSED", "USED"} =>
      /\ parent[p] \in Slot \ {p}
      /\ state[parent[p]] \notin {"UNUSED", "USED", "ZOMBIE"}

\* No exit is missed: a process asleep in wait() has no zombie child, except
\* the first process, while an exiting one that is handing it a zombie still
\* holds wait_lock and has not come to it in wakeup().
NoLostExit ==
  \A p, q \in Slot :
    state[p] = "SLEEPING" /\ chan[p] = p /\ parent[q] = p /\ state[q] = "ZOMBIE"
      => p = initproc /\ wlock # 0 /\ pc[wlock] = "rewake" /\ wk[wlock] <= p

\* Living processes have different pids, so kill() cannot hit a namesake.
PidsUnique ==
  \A p, q \in Slot : pid[p] = pid[q] /\ pid[p] # 0 => p = q

\* kill() is for the process with the given pid: no process is born killed.
NewbornAlive ==
  [][\A p \in Slot : state[p] = "UNUSED" /\ state'[p] = "USED" => ~killed'[p]]_vars

\* The places of exit() once it has gone past its own checks.
ExitPCs == {"exit_lock", "reparent", "rewake", "exwake", "zombie", "dead"}

\* p has exited, or is bound to: it was killed while it runs user code.
Leaving(p) ==
  \/ state[p] = "ZOMBIE"
  \/ state[p] # "UNUSED" /\ pc[p] \in ExitPCs \cup {"exit"}
  \/ killed[p] /\ pc[p] = "user" /\ state[p] \in {"RUNNABLE", "RUNNING"}

\* A child that init has forked or adopted is reaped once it has exited, and
\* also when it is killed while it runs user code, whether or not it makes
\* another system call: no child of init is leaving for ever.
ChildReaped ==
  \A p \in Slot \ {initproc} : []<>~(parent[p] = initproc /\ Leaving(p))

----------------------------------------------------------------------------
(* The inductive invariant behind these properties *)

\* The places where a process holds wait_lock.
WaitLocked == {"reparent", "rewake", "exwake", "zombie", "scan", "wait_sleep"}

Dead(p) == state[p] \in {"UNUSED", "USED", "ZOMBIE"}

\* Who is on which CPU, and what a state says of where the process is.
RunInv ==
  /\ StackExclusive
  /\ \A p \in Slot :
       /\ plock[p] => \E c \in CPU : cpu[c] = p
       /\ state[p] = "UNUSED" => pc[p] \in {"user", "dead"}
       /\ state[p] = "USED" => pc[p] = "user"
       /\ state[p] = "SLEEPING" => pc[p] = "asleep"
       /\ pc[p] = "asleep" => chan[p] = p
       /\ state[p] \notin {"UNUSED", "ZOMBIE"} => pc[p] # "dead"
       /\ state[p] = "ZOMBIE" => pc[p] = "dead"
       /\ pc[p] \in ExitPCs => p # initproc

\* wait_lock has one holder, which is running: nobody is preempted or asleep
\* with it.
LockInv ==
  \A p \in Slot :
    /\ pc[p] \in WaitLocked <=> wlock = p
    /\ wlock = p => state[p] = "RUNNING" /\ ~plock[p]

\* fork() has its child to itself until the child is RUNNABLE.
ForkInv ==
  \A p \in Slot : pc[p] \in {"fork_parent", "fork_run"} =>
    /\ arg[p] \in Slot \ {p}
    /\ ~Dead(p)
    /\ state[arg[p]] = "USED"
    /\ parent[arg[p]] = IF pc[p] = "fork_run" THEN p ELSE 0
    /\ \A q \in Slot : pc[q] \in {"fork_parent", "fork_run"} /\ arg[q] = arg[p]
                       => p = q

\* Parents are alive.
ParentInv ==
  /\ ~Dead(initproc) /\ parent[initproc] = 0
  /\ \A q \in Slot :
       /\ parent[q] # 0 => ~Dead(parent[q]) /\ parent[q] # q /\ state[q] # "UNUSED"
       /\ ~Dead(q) \/ state[q] = "ZOMBIE" => q = initproc \/ parent[q] # 0

\* How far exit() has come in giving its children away.
ReparentInv ==
  /\ \A p \in Slot :
       /\ pc[p] = "reparent" => at[p] # 0
       /\ pc[p] = "rewake" => at[p] \in Slot
  /\ \A p, q \in Slot :
       /\ pc[p] = "reparent" /\ q < at[p] => parent[q] # p
       /\ pc[p] = "rewake" /\ q <= at[p] => parent[q] # p
       /\ pc[p] \in {"exwake", "zombie"} => parent[q] # p

\* What wait() has seen of the children it has looked at.
ScanInv ==
  /\ \A p \in Slot : pc[p] = "scan" => at[p] # 0
  /\ \A p, q \in Slot : parent[q] = p =>
       /\ pc[p] = "scan" /\ q < at[p] => state[q] # "ZOMBIE"
       /\ pc[p] = "wait_sleep" => state[q] # "ZOMBIE"

\* The parent that exit() has woken is awake until it can get wait_lock.
WokenInv ==
  /\ \A p \in Slot : pc[p] \in {"rewake", "exwake"} => wk[p] # 0
  /\ \A p, q \in Slot : parent[p] = q =>
       /\ pc[p] = "exwake" /\ q < wk[p] => state[q] # "SLEEPING"
       /\ pc[p] = "zombie" => state[q] # "SLEEPING"

\* Together: stacks, locks, families and sleepers agree at every switch.
ProcInv ==
  /\ TypeOK
  /\ RunInv
  /\ LockInv
  /\ ForkInv
  /\ ParentInv
  /\ ReparentInv
  /\ ScanInv
  /\ WokenInv
  /\ NoLostExit
=============================================================================
