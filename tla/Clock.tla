------------------------------- MODULE Clock -------------------------------
(***************************************************************************)
(* The clock: clockintr() of trap.c counts ticks, sys_sleep() of           *)
(* sysproc.c waits for them.  ticks and ticks0 are uints of UINT values,   *)
(* and so becomes the int n when it is compared with their difference.     *)
(***************************************************************************)
EXTENDS Integers, Null

CONSTANTS User,
          UINT,     \* 2^32
          Arg       \* arguments of sys_sleep(), ints: from -2^31 to 2^31 - 1

ASSUME ClockAssumption ==
  /\ Nil \notin User
  /\ UINT \in Nat \ {0} /\ Arg \subseteq Int
  /\ \A n \in Arg : -UINT <= n /\ n < UINT

VARIABLES ticks,
          tickslock,\* the process that holds it, or Nil
          th,       \* each process: pc, ticks0, n
          real,     \* history: ticks since the call, UINT - 1 for more
          victims   \* the users that are killed

clockvars == <<ticks, tickslock, th, real, victims>>

Idle == [pc |-> "idle", ticks0 |-> 0, n |-> 0]

ClockInit ==
  /\ ticks = 0 /\ tickslock = Nil
  /\ th = [p \in User |-> Idle]
  /\ real = [p \in User |-> 0]
  /\ victims = {}

(* A process that is awake makes its test before UINT ticks have passed.   *)
(* Nothing in the code ensures that; with 2^32 ticks and a scheduler that  *)
(* goes round it does not fail.                                            *)
TickMayCome == tickslock = Nil /\ \A p \in User : th[p].pc = "test" => real[p] < UINT - 1

Count ==
  /\ ticks' = (ticks + 1) % UINT
  /\ real' = [p \in User |-> IF th[p] = Idle THEN 0
                             ELSE IF real[p] = UINT - 1 THEN real[p] ELSE real[p] + 1]

(* clockintr(): ticks++ and wakeup(&ticks).                                *)
Tick ==
  /\ TickMayCome /\ Count
  /\ th' = [p \in User |-> IF th[p].pc = "asleep" THEN [th[p] EXCEPT !.pc = "test"]
                                                  ELSE th[p]]
  /\ UNCHANGED <<tickslock, victims>>

Call(p, n) ==
  /\ th[p] = Idle /\ p \notin victims /\ tickslock = Nil
  /\ th' = [th EXCEPT ![p] = [pc |-> "test", ticks0 |-> ticks, n |-> n]]
  /\ tickslock' = p
  /\ UNCHANGED <<ticks, real, victims>>

(* Mutant: the deadline is computed first, and wraps. *)
OverDeadline(p) == ticks >= (th[p].ticks0 + th[p].n) % UINT

(* The loop's condition, in unsigned arithmetic. *)
Over(p) == (ticks - th[p].ticks0) % UINT >= th[p].n % UINT

Test(p) ==
  /\ th[p].pc = "test" /\ tickslock \in {Nil, p}
  /\ IF Over(p) \/ p \in victims
     THEN /\ th' = [th EXCEPT ![p] = Idle] /\ tickslock' = Nil
          /\ real' = [real EXCEPT ![p] = 0]
     ELSE /\ th' = [th EXCEPT ![p].pc = "sleep"] /\ tickslock' = p
          /\ UNCHANGED real
  /\ UNCHANGED <<ticks, victims>>

Sleep(p) ==
  /\ th[p].pc = "sleep"
  /\ th' = [th EXCEPT ![p].pc = "asleep"] /\ tickslock' = Nil
  /\ UNCHANGED <<ticks, real, victims>>

KillUser(p) ==
  /\ th[p] # Idle /\ p \notin victims
  /\ victims' = victims \cup {p}
  /\ th' = [th EXCEPT ![p].pc = IF @ = "asleep" THEN "test" ELSE @]
  /\ UNCHANGED <<ticks, tickslock, real>>

ClockNext ==
  \/ Tick
  \/ \E p \in User : Test(p) \/ Sleep(p) \/ KillUser(p) \/ \E n \in Arg : Call(p, n)

ClockSpec == ClockInit /\ [][ClockNext]_clockvars

(* The timer of CPU 0 does not stop, and who keeps finding tickslock free  *)
(* gets it.                                                                *)
ClockFairness ==
  /\ SF_clockvars(Tick)
  /\ \A p \in User : SF_clockvars(Test(p)) /\ WF_clockvars(Sleep(p))
-----------------------------------------------------------------------------
(* How many ticks sleep(n) is to last: the comparison makes a negative n   *)
(* the large number that it is as a uint.                                  *)
Duration(n) == IF n >= 0 THEN n ELSE UINT + n

(* sleep(n) returns 0 only then, also when ticks wraps meanwhile.          *)
SleptEnoughStep ==
  \A p \in User :
    (th[p].pc = "test" /\ th'[p] = Idle /\ p \notin victims) => real[p] >= Duration(th[p].n)

(* Nobody is asleep whose time is over.                                    *)
AsleepInTime == \A p \in User : th[p].pc = "asleep" => real[p] < Duration(th[p].n)

(* sys_sleep(n) returns after n ticks or more, or to a killed process,     *)
(* though ticks wraps around; for a negative n it waits 2^32 + n ticks and *)
(* does not return at once.  A process asleep in it has time to wait.      *)
SleptEnough == [][SleptEnoughStep]_clockvars /\ []AsleepInTime

(* Types, and where tickslock is held across steps.                        *)
ClockTypeOK ==
  /\ ticks \in 0..(UINT - 1) /\ tickslock \in User \cup {Nil} /\ victims \subseteq User
  /\ th \in [User -> [pc : {"idle", "test", "sleep", "asleep"}, ticks0 : 0..(UINT - 1),
                      n : Arg \cup {0}]]
  /\ real \in [User -> 0..(UINT - 1)]

(* Inside a call ticks - ticks0 is the number of ticks that have passed;   *)
(* who goes to sleep had time left when it looked, and no tick can come    *)
(* before it sleeps.                                                       *)
ClockInv ==
  /\ ClockTypeOK
  /\ \A p \in User :
       \/ th[p] = Idle /\ real[p] = 0
       \/ /\ th[p].pc # "idle" /\ real[p] = (ticks - th[p].ticks0) % UINT
          /\ th[p].pc = "sleep" => tickslock = p
          /\ th[p].pc \in {"sleep", "asleep"} => real[p] < th[p].n % UINT

(* Every sleep() ends, a negative one after it has gone round.             *)
SleepEnds == \A p \in User : []<>(th[p] = Idle)
=============================================================================
