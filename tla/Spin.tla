-------------------------------- MODULE Spin --------------------------------
(***************************************************************************)
(* Spinlocks and the interrupt enable bit (spinlock.c), across interrupts  *)
(* taken in the kernel, returns to user space (trap.c) and switches from   *)
(* CPU to CPU (sched(), scheduler(), forkret() of proc.c).                 *)
(*                                                                         *)
(* A CPU executes a context: the kernel side of a process or its own       *)
(* scheduler.  The kernel code that a context runs is left open: it takes  *)
(* and gives up locks in the order the kernel keeps (Dev, a lock that      *)
(* interrupt handlers use too, before a p->lock; the kernel nests deeper,  *)
(* with wait_lock above and the locks of tables below), and a process that *)
(* holds its own lock alone may call sched().  What is modelled exactly is *)
(* the book-keeping: push_off() reads the enable bit before it clears it,  *)
(* and an interrupt between the two may move the process to another CPU.   *)
(***************************************************************************)
EXTENDS Integers, FiniteSets, Null

CONSTANTS CPU, Thread,
          Dev     \* a lock that interrupt handlers take

Ctx == Thread \cup CPU
Lock == Thread \cup {Dev}     \* Thread: the p->lock of each

VARIABLES sie,        \* sstatus.SIE of each CPU
          noff, intena,
          at,         \* the context each CPU executes
          owner,      \* lk->cpu while locked, else Nil
          ctx,        \* each context: pc, lock wanted, old, locks held,
                      \* on (has interrupts enabled outside any lock),
                      \* outer (what kerneltrap() interrupted)
          saved,      \* intena in the frame of sched()
          panicked

spinvars == <<sie, noff, intena, at, owner, ctx, saved, panicked>>

Run(on) == [pc |-> "run", want |-> Nil, old |-> FALSE, held |-> {}, on |-> on, outer |-> {}]

SpinInit ==
  /\ sie = [c \in CPU |-> FALSE]
  /\ noff = [c \in CPU |-> 0]
  /\ intena = [c \in CPU |-> FALSE]
  /\ at = [c \in CPU |-> c]
  /\ owner = [l \in Lock |-> Nil]
  /\ ctx = [x \in Ctx |-> IF x \in CPU THEN Run(TRUE) ELSE [Run(FALSE) EXCEPT !.pc = "fork"]]
  /\ saved = [t \in Thread |-> FALSE]
  /\ panicked = FALSE

X(c) == ctx[at[c]]
SetX(c, r) == ctx' = [ctx EXCEPT ![at[c]] = r]
Panic(cond) == panicked' = (panicked \/ cond)
-----------------------------------------------------------------------------
(* acquire(): the first line of push_off().  Two locks at most are nested, *)
(* Dev and then a p->lock.                                                 *)
MayTake(c, l) ==
  /\ X(c).held \subseteq {Dev} /\ l \notin X(c).held
  /\ at[c] \in CPU /\ X(c).outer = {} => l \in Thread   \* scheduler() itself
  /\ l = at[c] => X(c).held = {}                       \* yield(); wakeup() skips itself

AcquireRead(c, l) ==
  /\ X(c).pc = "run" /\ MayTake(c, l)
  /\ SetX(c, [X(c) EXCEPT !.pc = "off", !.want = l, !.old = sie[c]])
  /\ UNCHANGED <<sie, noff, intena, at, owner, saved, panicked>>

(* mycpu()->intena = old in push_off(). *)
NewIntena(c) == IF noff[c] = 0 THEN X(c).old ELSE intena[c]

(* the rest of it, with the test of holding(); *)
AcquireOff(c) ==
  /\ X(c).pc = "off"
  /\ sie' = [sie EXCEPT ![c] = FALSE]
  /\ intena' = [intena EXCEPT ![c] = NewIntena(c)]
  /\ noff' = [noff EXCEPT ![c] = @ + 1]
  /\ Panic(owner[X(c).want] = c)
  /\ SetX(c, [X(c) EXCEPT !.pc = "spin", !.old = FALSE])
  /\ UNCHANGED <<at, owner, saved>>

(* the atomic swap. *)
AcquireSwap(c) ==
  LET l == X(c).want IN
  /\ X(c).pc = "spin" /\ owner[l] = Nil
  /\ owner' = [owner EXCEPT ![l] = c]
  /\ SetX(c, [X(c) EXCEPT !.pc = "run", !.want = Nil, !.held = @ \cup {l}])
  /\ UNCHANGED <<sie, noff, intena, at, saved, panicked>>

(* pop_off() turns interrupts on after the last lock. *)
PopOn(c) == noff[c] = 1 /\ intena[c]

(* release(), in any order.  intena means nothing while noff is 0 and is   *)
(* cleared then.                                                           *)
Release(c, l) ==
  /\ X(c).pc \in {"run", "fork"} /\ l \in X(c).held
  /\ Panic(owner[l] # c \/ sie[c] \/ noff[c] < 1)
  /\ owner' = [owner EXCEPT ![l] = Nil]
  /\ noff' = [noff EXCEPT ![c] = @ - 1]
  /\ sie' = [sie EXCEPT ![c] = @ \/ PopOn(c)]
  /\ intena' = [intena EXCEPT ![c] = @ /\ noff[c] > 1]
  /\ SetX(c, [X(c) EXCEPT !.held = @ \ {l}])
  /\ UNCHANGED <<at, saved>>
-----------------------------------------------------------------------------
(* An interrupt taken in the kernel: the hardware clears SIE, kerneltrap() *)
(* runs on the stack of the context; its end restores sstatus.             *)
Interrupt(c) ==
  /\ sie[c]
  /\ SetX(c, [Run(FALSE) EXCEPT !.held = X(c).held, !.outer = {X(c)}])
  /\ sie' = [sie EXCEPT ![c] = FALSE]
  /\ Panic(X(c).outer # {})
  /\ UNCHANGED <<noff, intena, at, owner, saved>>

TrapReturn(c) ==
  /\ X(c).pc = "run" /\ X(c).held = {} /\ X(c).outer # {}
  /\ SetX(c, CHOOSE o \in X(c).outer : TRUE)
  /\ sie' = [sie EXCEPT ![c] = TRUE]
  /\ UNCHANGED <<noff, intena, at, owner, saved, panicked>>

(* usertrapret() turns interrupts off and leaves for user space; usertrap()*)
(* comes back for a system call, with intr_on(), or for an interrupt.      *)
UserReturn(c) ==
  /\ at[c] \in Thread /\ X(c).pc \in {"run", "fork"}
  /\ X(c).held = {} /\ X(c).outer = {}
  /\ SetX(c, [Run(FALSE) EXCEPT !.pc = "user"])
  /\ sie' = [sie EXCEPT ![c] = FALSE]
  /\ UNCHANGED <<noff, intena, at, owner, saved, panicked>>

UserTrap(c) ==
  /\ X(c).pc = "user"
  /\ \E syscall \in BOOLEAN :
       SetX(c, Run(syscall)) /\ sie' = [sie EXCEPT ![c] = syscall]
  /\ UNCHANGED <<noff, intena, at, owner, saved, panicked>>
-----------------------------------------------------------------------------
(* Mutant: sched() does not restore intena. *)
IntenaOfScheduler(c, t) == intena[c]

(* intena after the switch to t: the line after swtch() in sched(), which  *)
(* a process that starts in forkret() does not execute.                    *)
IntenaOf(c, t) == IF ctx[t].pc = "fork" THEN intena[c] ELSE saved[t]

(* sched(), with its tests; the scheduler goes on holding the lock.        *)
Sched(c) ==
  LET t == at[c] IN
  /\ t \in Thread /\ X(c).pc = "run" /\ X(c).held = {t}
  /\ Panic(owner[t] # c \/ noff[c] # 1 \/ sie[c])
  /\ saved' = [saved EXCEPT ![t] = intena[c]]
  /\ at' = [at EXCEPT ![c] = c]
  /\ ctx' = [ctx EXCEPT ![t].held = {}, ![c].held = {t}]
  /\ UNCHANGED <<sie, noff, intena, owner>>

(* The top of the loop of scheduler(): intr_on().                          *)
IntrOn(c) ==
  /\ at[c] = c /\ X(c).pc = "run" /\ X(c).held = {} /\ X(c).outer = {}
  /\ sie' = [sie EXCEPT ![c] = TRUE]
  /\ UNCHANGED <<noff, intena, at, owner, ctx, saved, panicked>>

(* It has found t RUNNABLE and switches to it.                             *)
Switch(c, t) ==
  /\ at[c] = c /\ X(c).pc = "run" /\ X(c).held = {t} /\ X(c).outer = {}
  /\ t \in Thread /\ \A d \in CPU : at[d] # t
  /\ at' = [at EXCEPT ![c] = t]
  /\ ctx' = [ctx EXCEPT ![c].held = {}, ![t].held = {t}]
  /\ intena' = [intena EXCEPT ![c] = IntenaOf(c, t)]
  /\ saved' = [saved EXCEPT ![t] = FALSE]
  /\ UNCHANGED <<sie, noff, owner, panicked>>

StepOf(c) ==
  \/ \E l \in Lock : AcquireRead(c, l) \/ Release(c, l)
  \/ AcquireOff(c) \/ AcquireSwap(c)
  \/ Interrupt(c) \/ TrapReturn(c) \/ UserReturn(c) \/ UserTrap(c)
  \/ Sched(c) \/ IntrOn(c) \/ \E t \in Thread : Switch(c, t)

SpinNext == \E c \in CPU : StepOf(c)

SpinSpec == SpinInit /\ [][SpinNext]_spinvars
-----------------------------------------------------------------------------
(* While a CPU holds a spinlock it takes no interrupt, whose handler might *)
(* spin for that lock; and noff counts its locks.                          *)
OffWhileLocked ==
  \A c \in CPU :
    LET n == Cardinality({l \in Lock : owner[l] = c}) IN
    /\ n > 0 => ~sie[c]
    /\ noff[c] = n + (IF X(c).pc = "spin" THEN 1 ELSE 0)

(* Outside any lock a process has interrupts as its own code left them, on *)
(* in a system call and off in a trap handler, on whatever CPU it runs by  *)
(* now and in whatever order the locks were released.                      *)
EnableRestored ==
  \A c \in CPU :
    (at[c] \in Thread /\ X(c).held = {} /\ X(c).pc \in {"run", "off"}) => sie[c] = X(c).on

(* acquire() never finds its own CPU the holder, release() and pop_off()   *)
(* always do, sched() finds exactly one lock held and interrupts off, and  *)
(* no interrupt handler is interrupted.                                    *)
NoLockPanic == ~panicked

(* acquire(), release() and sched(): interrupts are off on a CPU while the *)
(* thread it runs holds a spin lock, so a handler cannot spin on it;       *)
(* pop_off() restores what push_off() found, across sched() to another     *)
(* CPU; and none of their panics is reached.                               *)
LockDiscipline == OffWhileLocked /\ EnableRestored /\ NoLockPanic
-----------------------------------------------------------------------------
(* The inductive invariant *)

SpinPCs == {"run", "off", "spin", "fork", "user"}

Frame(O) == [pc : SpinPCs, want : Lock \cup {Nil}, old : BOOLEAN, held : SUBSET Lock,
             on : BOOLEAN, outer : O]
Outers == {{}} \cup {{f} : f \in Frame({{}})}
Context == Frame(Outers)

SpinTypeOK ==
  /\ sie \in [CPU -> BOOLEAN] /\ noff \in [CPU -> Nat] /\ intena \in [CPU -> BOOLEAN]
  /\ at \in [CPU -> Ctx] /\ owner \in [Lock -> CPU \cup {Nil}]
  /\ ctx \in [Ctx -> Context] /\ saved \in [Thread -> BOOLEAN]

(* A CPU executes its own scheduler or a process, and a process is         *)
(* executed by one CPU; what is not executed holds no lock and is in       *)
(* swtch(), or has not begun.                                              *)
Away(x) == \A c \in CPU : at[c] # x
AtInv ==
  /\ \A c \in CPU : at[c] \in Thread \cup {c}
  /\ \A c, d \in CPU : at[c] = at[d] => c = d
  /\ \A x \in Ctx : Away(x) => /\ ctx[x].held = {} /\ ctx[x].pc \in {"run", "fork"}
                              /\ (x \in CPU => ctx[x].outer = {})

(* lk->cpu is the CPU of the context that took the lock, after a switch    *)
(* too, and noff counts the locks and the one that acquire() spins for.    *)
HeldAt(c) ==
  /\ \A l \in Lock : owner[l] = c <=> l \in X(c).held
  /\ IsFiniteSet(X(c).held)
  /\ X(c).pc \in {"off", "spin"} => X(c).want \in Lock \ X(c).held
NoffAt(c) == noff[c] = Cardinality(X(c).held) + (IF X(c).pc = "spin" THEN 1 ELSE 0)

(* Interrupts are off where push_off() or usertrapret() has turned them    *)
(* off, and push_off() has the right old value when it goes on.            *)
OffAt(c) ==
  /\ X(c).held # {} \/ X(c).pc \in {"spin", "user"} => ~sie[c]
  /\ X(c).pc = "off" => X(c).old = sie[c]

(* What kerneltrap() has interrupted: interrupts were on, no lock held.    *)
OuterOf(x) ==
  /\ ctx[x].pc = "user" => ctx[x].held = {}
  /\ ctx[x].outer # {} => ~ctx[x].on /\ ctx[x].pc \in {"run", "off", "spin"}
  /\ \A o \in ctx[x].outer :
       /\ o.held = {} /\ o.pc \in {"run", "off", "fork"}
       /\ o.pc = "off" => o.old /\ o.want \in Lock
       /\ x \in Thread /\ o.pc # "fork" => o.on

(* The enable bit that the code left is in sie, in intena or in saved; the *)
(* scheduler's own, outside a handler, follows no rule.                    *)
Tracked(c) == (at[c] \in Thread \/ X(c).outer # {}) /\ X(c).pc \in {"run", "off", "spin"}
OnAt(c) == Tracked(c) => X(c).on = (IF noff[c] = 0 THEN sie[c] ELSE intena[c])
SavedInv == \A t \in Thread : Away(t) /\ ctx[t].pc = "run" => saved[t] = ctx[t].on

CpuInv == \A c \in CPU : HeldAt(c) /\ NoffAt(c) /\ OffAt(c) /\ OnAt(c)
OuterInv == \A x \in Ctx : OuterOf(x)

SpinInv == SpinTypeOK /\ AtInv /\ CpuInv /\ OuterInv /\ SavedInv /\ NoLockPanic

=============================================================================
