------------------------------- MODULE Sleep -------------------------------
(***************************************************************************)
(* sleep(), wakeup(), kill() and the scheduler of kernel/proc.c, for the   *)
(* processes that share one spinlock lk and the channels it guards (the    *)
(* two of a pipe with pi->lock, &log with log.lock, &ticks with tickslock, *)
(* ...), at the granularity of lk and of the lock of each process.         *)
(*                                                                         *)
(* A section under p->lock alone is one step.  sleep() is several, because *)
(* it holds p->lock while it gives up lk; wakeup() is a loop of one step   *)
(* for each process, run with lk held.                                     *)
(***************************************************************************)
EXTENDS Naturals

CONSTANTS NPROC,   \* the process table is proc[1..NPROC]
          Chan     \* the channels

Slot == 1..NPROC

ASSUME ConstAssumption ==
  /\ NPROC \in Nat
  /\ Chan \cap {"out", "in", "woken", "none"} = {}

VARIABLES state,   \* p->state: "RUNNING", "SLEEPING" or "RUNNABLE"
          chan,    \* p->chan, "none" for 0
          killed,  \* p->killed
          stage,      \* where each process is
          asked,     \* the channel given to sleep() or wakeup()
          nth,      \* the loop variable of wakeup()
          woke,    \* history: whom the running wakeup() has made RUNNABLE
          tick     \* history: changes when a wakeup() returns

sleepvars == <<state, chan, killed, stage, asked, nth, woke, tick>>

\* "in": holds lk; "locked": in sleep(), holds lk and its p->lock;
\* "unlocked": has released lk, still holds p->lock; "asleep": has called
\* sched(); "back": has released p->lock, wants lk; "wakeup": in wakeup()'s
\* loop, holds lk.
Stages == {"out", "in", "locked", "unlocked", "asleep", "back", "wakeup"}

HoldsLk(p) == stage[p] \in {"in", "locked", "wakeup"}
LkFree == \A p \in Slot : ~HoldsLk(p)

\* Mutant: sleep() gives p->lock up before it marks itself SLEEPING.
PlockFreeEarly(p) == stage[p] # "locked"

\* p->lock is held across steps only inside sleep().
PlockFree(p) == stage[p] \notin {"locked", "unlocked"}

SleepInit ==
  /\ state = [p \in Slot |-> "RUNNING"]
  /\ chan = [p \in Slot |-> "none"]
  /\ killed = [p \in Slot |-> FALSE]
  /\ stage = [p \in Slot |-> "out"]
  /\ asked = [p \in Slot |-> "none"]
  /\ nth = [p \in Slot |-> 0]
  /\ woke = {}
  /\ tick = FALSE

GoTo(p, l) == stage' = [stage EXCEPT ![p] = l]

\* acquire(lk) by a caller, and by sleep() before it returns.
AcquireLk(p) ==
  /\ stage[p] \in {"out", "back"} /\ LkFree
  /\ GoTo(p, "in")
  /\ UNCHANGED <<state, chan, killed, asked, nth, woke, tick>>

ReleaseLk(p) ==
  /\ stage[p] = "in"
  /\ GoTo(p, "out")
  /\ UNCHANGED <<state, chan, killed, asked, nth, woke, tick>>

----------------------------------------------------------------------------
(* sleep(c, lk) *)

SleepLock(p, c) ==
  /\ stage[p] = "in"
  /\ asked' = [asked EXCEPT ![p] = c]
  /\ GoTo(p, "locked")
  /\ UNCHANGED <<state, chan, killed, nth, woke, tick>>

SleepRelease(p) ==
  /\ stage[p] = "locked"
  /\ GoTo(p, "unlocked")
  /\ UNCHANGED <<state, chan, killed, asked, nth, woke, tick>>

\* The process marks itself and calls sched(); the scheduler of its CPU
\* releases p->lock.
SleepSched(p) ==
  /\ stage[p] = "unlocked"
  /\ chan' = [chan EXCEPT ![p] = asked[p]]
  /\ state' = [state EXCEPT ![p] = "SLEEPING"]
  /\ GoTo(p, "asleep")
  /\ UNCHANGED <<killed, asked, nth, woke, tick>>

\* The scheduler picks p; sched() returns, p tidies up and releases p->lock.
Resume(p) ==
  /\ stage[p] = "asleep" /\ state[p] = "RUNNABLE"
  /\ state' = [state EXCEPT ![p] = "RUNNING"]
  /\ chan' = [chan EXCEPT ![p] = "none"]
  /\ GoTo(p, "back")
  /\ UNCHANGED <<killed, asked, nth, woke, tick>>

----------------------------------------------------------------------------
(* wakeup(c), called with lk held *)

WakeupCall(p, c) ==
  /\ stage[p] = "in"
  /\ asked' = [asked EXCEPT ![p] = c]
  /\ nth' = [nth EXCEPT ![p] = 1]
  /\ GoTo(p, "wakeup")
  /\ UNCHANGED <<state, chan, killed, woke, tick>>

Sleeps(q, c) == state[q] = "SLEEPING" /\ chan[q] = c

\* The loop passes over the caller and over those who do not sleep on c.
WakeupSkip(p) ==
  LET q == nth[p] IN
  /\ stage[p] = "wakeup" /\ q <= NPROC
  /\ q = p \/ (PlockFree(q) /\ ~Sleeps(q, asked[p]))
  /\ nth' = [nth EXCEPT ![p] = q + 1]
  /\ UNCHANGED <<state, chan, killed, stage, asked, woke, tick>>

WakeupOne(p) ==
  LET q == nth[p] IN
  /\ stage[p] = "wakeup" /\ q <= NPROC
  /\ q # p /\ PlockFree(q) /\ Sleeps(q, asked[p])
  /\ state' = [state EXCEPT ![q] = "RUNNABLE"]
  /\ woke' = woke \cup {q}
  /\ nth' = [nth EXCEPT ![p] = q + 1]
  /\ UNCHANGED <<chan, killed, stage, asked, tick>>

WakeupReturn(p) ==
  /\ stage[p] = "wakeup" /\ nth[p] > NPROC
  /\ woke' = {}
  /\ tick' = ~tick
  /\ GoTo(p, "in")
  /\ UNCHANGED <<state, chan, killed, asked, nth>>

----------------------------------------------------------------------------
\* kill() by some process, which takes the lock of its victim only.
Kill(q) ==
  /\ PlockFree(q) /\ ~killed[q]
  /\ killed' = [killed EXCEPT ![q] = TRUE]
  /\ state' = [state EXCEPT ![q] = IF @ = "SLEEPING" THEN "RUNNABLE" ELSE @]
  /\ UNCHANGED <<chan, stage, asked, nth, woke, tick>>

SleepNext ==
  \E p \in Slot :
    \/ AcquireLk(p) \/ ReleaseLk(p)
    \/ SleepRelease(p) \/ SleepSched(p) \/ Resume(p)
    \/ WakeupSkip(p) \/ WakeupOne(p) \/ WakeupReturn(p)
    \/ Kill(p)
    \/ \E c \in Chan : SleepLock(p, c) \/ WakeupCall(p, c)

SleepSpec == SleepInit /\ [][SleepNext]_sleepvars

----------------------------------------------------------------------------
(* Properties *)

\* Every variable has its type, and a process is SLEEPING or RUNNABLE only
\* between its two visits to sched().
SleepTypeOK ==
  /\ state \in [Slot -> {"RUNNING", "SLEEPING", "RUNNABLE"}]
  /\ chan \in [Slot -> Chan \cup {"none"}]
  /\ killed \in [Slot -> BOOLEAN]
  /\ stage \in [Slot -> Stages]
  /\ asked \in [Slot -> Chan \cup {"none"}]
  /\ nth \in [Slot -> 0..(NPROC + 1)]
  /\ woke \subseteq Slot
  /\ tick \in BOOLEAN
  /\ \A p \in Slot : stage[p] # "asleep" => state[p] = "RUNNING"

\* q has released lk and has not been woken.
Waits(q) == stage[q] = "unlocked" \/ (stage[q] = "asleep" /\ state[q] = "SLEEPING")

\* What a user of sleep() and wakeup() sees.  To wait is to release lk, and a
\* broadcast happens when wakeup() returns: a process it has made RUNNABLE
\* may run, but not get lk, before that.
Status(p) ==
  IF HoldsLk(p) THEN "in"
  ELSE IF stage[p] = "out" THEN "out"
  ELSE IF p \in woke \/ Waits(p) THEN asked[p] ELSE "woken"

St == [p \in Slot |-> Status(p)]
M == INSTANCE Monitor WITH Proc <- Slot, st <- St

\* sleep() "atomically release[s] lock and sleep[s] on chan", and wakeup()
\* reaches all who sleep on it: no wakeup is lost, whatever the scheduler,
\* kill() and the other channels do.
ImplementsMonitor == M!Spec

----------------------------------------------------------------------------
(* The inductive invariant *)

\* lk is held by one process; whoever sleeps, sleeps on the channel it asked
\* for.
LksInv ==
  /\ \A p, q \in Slot : HoldsLk(p) /\ HoldsLk(q) => p = q
  /\ \A p \in Slot : stage[p] \in {"locked", "unlocked", "asleep", "wakeup"} =>
       asked[p] \in Chan
  /\ \A p \in Slot : stage[p] = "asleep" => chan[p] = asked[p]
  /\ \A p \in Slot : stage[p] = "wakeup" => nth[p] # 0

\* Those a running wakeup() has woken are still inside sleep().
WokeInv ==
  /\ woke # {} => \E p \in Slot : stage[p] = "wakeup"
  /\ \A p \in Slot : stage[p] = "wakeup" =>
       \A q \in woke :
         /\ asked[q] = asked[p]
         /\ stage[q] = "back" \/ (stage[q] = "asleep" /\ state[q] # "SLEEPING")

\* A running wakeup() has left behind nobody who waits on its channel.
PassedInv ==
  \A p, q \in Slot :
    stage[p] = "wakeup" /\ q < nth[p] /\ Waits(q) => asked[q] # asked[p]

\* No wakeup is lost while wakeup() walks the table: the state behind its
\* loop variable stays free of sleepers of its channel.
SleepInv == SleepTypeOK /\ LksInv /\ WokeInv /\ PassedInv
=============================================================================
