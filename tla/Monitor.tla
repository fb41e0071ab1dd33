------------------------------ MODULE Monitor ------------------------------
(***************************************************************************)
(* What sleep() and wakeup() of kernel/proc.c promise to the code that     *)
(* uses them: a lock with condition variables.  To wait is to give up the  *)
(* lock and to become a waiter in one step, and a broadcast reaches every  *)
(* waiter of that channel, so none is lost.  A waiter may also be          *)
(* interrupted, by kill().                                                 *)
(***************************************************************************)
CONSTANTS Proc,   \* the processes
          Chan    \* the channels they wait on

VARIABLES st,   \* where each process is: "out", "in" (it holds the lock),
                \* "woken" (it wants the lock back), or the channel it waits on
          tick  \* changes with every broadcast, so that none goes unseen

vars == <<st, tick>>

Free == \A p \in Proc : st[p] # "in"

Init == st = [p \in Proc |-> "out"] /\ tick = FALSE

Enter(p) ==
  /\ st[p] \in {"out", "woken"} /\ Free
  /\ st' = [st EXCEPT ![p] = "in"]
  /\ UNCHANGED tick

Leave(p) ==
  /\ st[p] = "in"
  /\ st' = [st EXCEPT ![p] = "out"]
  /\ UNCHANGED tick

Wait(p, c) ==
  /\ st[p] = "in"
  /\ st' = [st EXCEPT ![p] = c]
  /\ UNCHANGED tick

Broadcast(p, c) ==
  /\ st[p] = "in"
  /\ st' = [q \in Proc |-> IF st[q] = c THEN "woken" ELSE st[q]]
  /\ tick' = ~tick

Interrupt(p) ==
  /\ st[p] \in Chan
  /\ st' = [st EXCEPT ![p] = "woken"]
  /\ UNCHANGED tick

Next ==
  \E p \in Proc :
    \/ Enter(p) \/ Leave(p) \/ Interrupt(p)
    \/ \E c \in Chan : Wait(p, c) \/ Broadcast(p, c)

Spec == Init /\ [][Next]_vars
=============================================================================
