---------------------------- MODULE ConsoleProofs ----------------------------
(***************************************************************************)
(* Proofs about sleep() and wakeup() (Sleep), for every NPROC and every    *)
(* set of channels, and about two drivers built on them, output to the     *)
(* UART (Uart) and input from the console (Console), for every set of      *)
(* writers, of readers and of CPUs that print, and for every size of the   *)
(* two rings and of the FIFO.                                              *)
(***************************************************************************)
EXTENDS Sleep, Uart, Console, Modular, TLAPS

-----------------------------------------------------------------------------
(* sleep() and wakeup() *)

\* The arithmetic of the loop of wakeup().
LEMMA SlotFacts ==
  /\ \A p \in Slot : p \in Nat /\ p # 0 /\ p <= NPROC
  /\ 1 \in 0..(NPROC + 1) /\ 0 \in 0..(NPROC + 1)
  /\ \A k \in 0..(NPROC + 1) : k # 0 /\ k <= NPROC => k \in Slot /\ k + 1 \in 0..(NPROC + 1) /\ k + 1 # 0
  /\ \A k \in 0..(NPROC + 1) : \A q \in Slot : q < k + 1 => q < k \/ q = k
  /\ \A k \in 0..(NPROC + 1) : \A q \in Slot : k > NPROC => q < k
  /\ \A q \in Slot : ~(q < 1)
  BY ConstAssumption DEF Slot

\* The initial state.
LEMMA SleepInitInv == SleepInit => SleepInv
  <1> SUFFICES ASSUME SleepInit PROVE SleepInv
    OBVIOUS
  <1>1. SleepTypeOK
    BY SlotFacts, Zenon DEF SleepInit, SleepTypeOK, Stages
  <1>2. LksInv /\ WokeInv /\ PassedInv
    BY DEF SleepInit, LksInv, WokeInv, PassedInv, HoldsLk
  <1> QED
    BY <1>1, <1>2 DEF SleepInv

\* A step of process p preserves the types.
LEMMA SleepTypeStep ==
  ASSUME SleepInv, NEW p \in Slot,
         \/ AcquireLk(p) \/ ReleaseLk(p)
         \/ SleepRelease(p) \/ SleepSched(p) \/ Resume(p)
         \/ WakeupSkip(p) \/ WakeupOne(p) \/ WakeupReturn(p)
         \/ Kill(p)
         \/ \E c \in Chan : SleepLock(p, c) \/ WakeupCall(p, c)
  PROVE  SleepTypeOK'
  <1> USE DEF GoTo
  <1>0. SleepTypeOK /\ LksInv /\ WokeInv /\ PassedInv
    BY DEF SleepInv

  <1>1. CASE AcquireLk(p)
    BY <1>0, <1>1, SlotFacts DEF AcquireLk, LkFree, SleepTypeOK, Stages

  <1>2. CASE ReleaseLk(p)
    BY <1>0, <1>2, SlotFacts DEF ReleaseLk, SleepTypeOK, Stages

  <1>3. CASE SleepRelease(p)
    BY <1>0, <1>3, SlotFacts DEF SleepRelease, SleepTypeOK, Stages

  <1>4. CASE SleepSched(p)
    BY <1>0, <1>4, SlotFacts DEF SleepSched, SleepTypeOK, Stages

  <1>5. CASE Resume(p)
    BY <1>0, <1>5, SlotFacts DEF Resume, SleepTypeOK, Stages

  <1>6. CASE WakeupSkip(p)
    BY <1>0, <1>6, SlotFacts DEF WakeupSkip, Sleeps, PlockFree, SleepTypeOK, Stages

  <1>7. CASE WakeupOne(p)
    BY <1>0, <1>7, SlotFacts DEF WakeupOne, Sleeps, PlockFree, SleepTypeOK, Stages, LksInv

  <1>8. CASE WakeupReturn(p)
    BY <1>0, <1>8, SlotFacts DEF WakeupReturn, SleepTypeOK, Stages

  <1>9. CASE Kill(p)
    BY <1>0, <1>9, SlotFacts DEF Kill, PlockFree, SleepTypeOK, Stages

  <1>10. ASSUME NEW c \in Chan, SleepLock(p, c) PROVE SleepTypeOK'
    BY <1>0, <1>10, SlotFacts DEF SleepLock, SleepTypeOK, Stages

  <1>11. ASSUME NEW c \in Chan, WakeupCall(p, c) PROVE SleepTypeOK'
    BY <1>0, <1>11, SlotFacts DEF WakeupCall, SleepTypeOK, Stages

  <1> QED
    BY <1>1, <1>2, <1>3, <1>4, <1>5, <1>6, <1>7, <1>8, <1>9, <1>10, <1>11

\* A step of process p preserves the exclusion of the holders of lk.
LEMMA LksStep ==
  ASSUME SleepInv, NEW p \in Slot,
         \/ AcquireLk(p) \/ ReleaseLk(p)
         \/ SleepRelease(p) \/ SleepSched(p) \/ Resume(p)
         \/ WakeupSkip(p) \/ WakeupOne(p) \/ WakeupReturn(p)
         \/ Kill(p)
         \/ \E c \in Chan : SleepLock(p, c) \/ WakeupCall(p, c)
  PROVE  LksInv'
  <1> USE DEF GoTo
  <1>0. SleepTypeOK /\ LksInv /\ WokeInv /\ PassedInv
    BY DEF SleepInv

  <1>1. CASE AcquireLk(p)
    BY <1>0, <1>1, SlotFacts DEF AcquireLk, LkFree, SleepTypeOK, LksInv, HoldsLk

  <1>2. CASE ReleaseLk(p)
    BY <1>0, <1>2, SlotFacts DEF ReleaseLk, SleepTypeOK, LksInv, HoldsLk

  <1>3. CASE SleepRelease(p)
    BY <1>0, <1>3, SlotFacts DEF SleepRelease, SleepTypeOK, LksInv, HoldsLk

  <1>4. CASE SleepSched(p)
    BY <1>0, <1>4, SlotFacts DEF SleepSched, SleepTypeOK, LksInv, HoldsLk

  <1>5. CASE Resume(p)
    BY <1>0, <1>5, SlotFacts DEF Resume, SleepTypeOK, LksInv, HoldsLk

  <1>6. CASE WakeupSkip(p)
    BY <1>0, <1>6, SlotFacts DEF WakeupSkip, Sleeps, PlockFree, SleepTypeOK, LksInv, HoldsLk

  <1>7. CASE WakeupOne(p)
    BY <1>0, <1>7, SlotFacts DEF WakeupOne, Sleeps, PlockFree, SleepTypeOK, LksInv, HoldsLk

  <1>8. CASE WakeupReturn(p)
    BY <1>0, <1>8, SlotFacts DEF WakeupReturn, SleepTypeOK, LksInv, HoldsLk

  <1>9. CASE Kill(p)
    BY <1>0, <1>9, SlotFacts DEF Kill, PlockFree, SleepTypeOK, LksInv, HoldsLk

  <1>10. ASSUME NEW c \in Chan, SleepLock(p, c) PROVE LksInv'
    BY <1>0, <1>10, SlotFacts DEF SleepLock, SleepTypeOK, LksInv, HoldsLk

  <1>11. ASSUME NEW c \in Chan, WakeupCall(p, c) PROVE LksInv'
    BY <1>0, <1>11, SlotFacts DEF WakeupCall, SleepTypeOK, LksInv, HoldsLk

  <1> QED
    BY <1>1, <1>2, <1>3, <1>4, <1>5, <1>6, <1>7, <1>8, <1>9, <1>10, <1>11

\* A step of process p preserves what is known of those just woken.
LEMMA WokeStep ==
  ASSUME SleepInv, NEW p \in Slot,
         \/ AcquireLk(p) \/ ReleaseLk(p)
         \/ SleepRelease(p) \/ SleepSched(p) \/ Resume(p)
         \/ WakeupSkip(p) \/ WakeupOne(p) \/ WakeupReturn(p)
         \/ Kill(p)
         \/ \E c \in Chan : SleepLock(p, c) \/ WakeupCall(p, c)
  PROVE  WokeInv'
  <1> USE DEF GoTo
  <1>0. SleepTypeOK /\ LksInv /\ WokeInv /\ PassedInv
    BY DEF SleepInv

  <1>1. CASE AcquireLk(p)
    BY <1>0, <1>1, SlotFacts DEF AcquireLk, LkFree, SleepTypeOK, LksInv, WokeInv, HoldsLk

  <1>2. CASE ReleaseLk(p)
    BY <1>0, <1>2, SlotFacts DEF ReleaseLk, SleepTypeOK, LksInv, WokeInv, HoldsLk

  <1>3. CASE SleepRelease(p)
    BY <1>0, <1>3, SlotFacts DEF SleepRelease, SleepTypeOK, LksInv, WokeInv, HoldsLk

  <1>4. CASE SleepSched(p)
    BY <1>0, <1>4, SlotFacts DEF SleepSched, SleepTypeOK, LksInv, WokeInv, HoldsLk

  <1>5. CASE Resume(p)
    BY <1>0, <1>5, SlotFacts DEF Resume, SleepTypeOK, LksInv, WokeInv, HoldsLk

  <1>6. CASE WakeupSkip(p)
    BY <1>0, <1>6, SlotFacts DEF WakeupSkip, Sleeps, PlockFree, SleepTypeOK,
        LksInv, WokeInv, HoldsLk

  <1>7. CASE WakeupOne(p)
    BY <1>0, <1>7, SlotFacts DEF WakeupOne, Sleeps, PlockFree, SleepTypeOK, LksInv,
        WokeInv, HoldsLk

  <1>8. CASE WakeupReturn(p)
    BY <1>0, <1>8, SlotFacts DEF WakeupReturn, SleepTypeOK, LksInv, WokeInv, HoldsLk

  <1>9. CASE Kill(p)
    BY <1>0, <1>9, SlotFacts DEF Kill, PlockFree, SleepTypeOK, LksInv, WokeInv, HoldsLk

  <1>10. ASSUME NEW c \in Chan, SleepLock(p, c) PROVE WokeInv'
    BY <1>0, <1>10, SlotFacts DEF SleepLock, SleepTypeOK, LksInv, WokeInv, HoldsLk

  <1>11. ASSUME NEW c \in Chan, WakeupCall(p, c) PROVE WokeInv'
    BY <1>0, <1>11, SlotFacts DEF WakeupCall, SleepTypeOK, LksInv, WokeInv, HoldsLk

  <1> QED
    BY <1>1, <1>2, <1>3, <1>4, <1>5, <1>6, <1>7, <1>8, <1>9, <1>10, <1>11

\* A step of process p preserves that wakeup() leaves nobody behind.
LEMMA PassedStep ==
  ASSUME SleepInv, NEW p \in Slot,
         \/ AcquireLk(p) \/ ReleaseLk(p)
         \/ SleepRelease(p) \/ SleepSched(p) \/ Resume(p)
         \/ WakeupSkip(p) \/ WakeupOne(p) \/ WakeupReturn(p)
         \/ Kill(p)
         \/ \E c \in Chan : SleepLock(p, c) \/ WakeupCall(p, c)
  PROVE  PassedInv'
  <1> USE DEF GoTo
  <1>0. SleepTypeOK /\ LksInv /\ WokeInv /\ PassedInv
    BY DEF SleepInv

  <1>1. CASE AcquireLk(p)
    BY <1>0, <1>1, SlotFacts DEF AcquireLk, LkFree, SleepTypeOK, LksInv, PassedInv,
        Waits, HoldsLk

  <1>2. CASE ReleaseLk(p)
    BY <1>0, <1>2, SlotFacts DEF ReleaseLk, SleepTypeOK, LksInv, PassedInv, Waits, HoldsLk

  <1>3. CASE SleepRelease(p)
    BY <1>0, <1>3, SlotFacts DEF SleepRelease, SleepTypeOK, LksInv, PassedInv,
        Waits, HoldsLk

  <1>4. CASE SleepSched(p)
    BY <1>0, <1>4, SlotFacts DEF SleepSched, SleepTypeOK, LksInv, PassedInv, Waits, HoldsLk

  <1>5. CASE Resume(p)
    BY <1>0, <1>5, SlotFacts DEF Resume, SleepTypeOK, LksInv, PassedInv, Waits, HoldsLk

  <1>6. CASE WakeupSkip(p)
    BY <1>0, <1>6, SlotFacts DEF WakeupSkip, Sleeps, PlockFree, SleepTypeOK,
        LksInv, PassedInv, Waits, HoldsLk

  <1>7. CASE WakeupOne(p)
    BY <1>0, <1>7, SlotFacts DEF WakeupOne, Sleeps, PlockFree, SleepTypeOK, LksInv,
        PassedInv, Waits, HoldsLk

  <1>8. CASE WakeupReturn(p)
    BY <1>0, <1>8, SlotFacts DEF WakeupReturn, SleepTypeOK, LksInv, PassedInv,
        Waits, HoldsLk

  <1>9. CASE Kill(p)
    BY <1>0, <1>9, SlotFacts DEF Kill, PlockFree, SleepTypeOK, LksInv, PassedInv,
        Waits, HoldsLk

  <1>10. ASSUME NEW c \in Chan, SleepLock(p, c) PROVE PassedInv'
    BY <1>0, <1>10, SlotFacts DEF SleepLock, SleepTypeOK, LksInv, PassedInv, Waits, HoldsLk

  <1>11. ASSUME NEW c \in Chan, WakeupCall(p, c) PROVE PassedInv'
    BY <1>0, <1>11, SlotFacts DEF WakeupCall, SleepTypeOK, LksInv, PassedInv, Waits, HoldsLk

  <1> QED
    BY <1>1, <1>2, <1>3, <1>4, <1>5, <1>6, <1>7, <1>8, <1>9, <1>10, <1>11

\* The invariant of sleep() and wakeup(): it is inductive.
THEOREM SleepInvariant == SleepSpec => []SleepInv
  <1>1. SleepInv /\ [SleepNext]_sleepvars => SleepInv'
    <2> SUFFICES ASSUME SleepInv, [SleepNext]_sleepvars PROVE SleepInv'
      OBVIOUS
    <2>1. CASE UNCHANGED sleepvars
      BY <2>1 DEF sleepvars, SleepInv, SleepTypeOK, LksInv, WokeInv, PassedInv, Waits, HoldsLk
    <2>2. CASE SleepNext
      BY <2>2, SleepTypeStep, LksStep, WokeStep, PassedStep DEF SleepNext, SleepInv
    <2> QED
      BY <2>1, <2>2
  <1> QED
    BY SleepInitInv, <1>1, PTL DEF SleepSpec

\* Whoever holds lk has not just been woken.
LEMMA HolderNotWoke ==
  ASSUME SleepInv, NEW p \in Slot, HoldsLk(p) \/ stage[p] = "unlocked" \/ Waits(p)
  PROVE  p \notin woke
  BY DEF SleepInv, WokeInv, HoldsLk, Waits

\* Status tells the three words of Monitor from the channels.
LEMMA StatusFacts ==
  ASSUME SleepInv, NEW p \in Slot
  PROVE  /\ Status(p) = "in" <=> HoldsLk(p)
         /\ Status(p) = "out" <=> stage[p] = "out"
         /\ Status(p) \in Chan => p \in woke \/ Waits(p)
         /\ p \in woke => Status(p) = asked[p] /\ asked[p] \in Chan
         /\ Waits(p) => Status(p) = asked[p] /\ asked[p] \in Chan
         /\ ~HoldsLk(p) /\ stage[p] # "out" /\ p \notin woke /\ ~Waits(p) => Status(p) = "woken"
  <1>1. PICK w \in Slot : woke # {} => stage[w] = "wakeup"
    BY DEF SleepInv, WokeInv
  <1>2. p \in woke => asked[p] \in Chan /\ stage[p] \in {"asleep", "back"}
    BY <1>1 DEF SleepInv, WokeInv, LksInv
  <1>3. Waits(p) => asked[p] \in Chan /\ p \notin woke
    BY HolderNotWoke, ZenonT(20) DEF SleepInv, LksInv, Waits
  <1> QED
    BY <1>2, <1>3, ConstAssumption, ZenonT(20) DEF Status, HoldsLk, Waits

\* St changes only at p.
LEMMA OnlyAt ==
  ASSUME NEW p \in Slot, NEW v, \A q \in Slot : q # p => Status(q)' = Status(q),
         Status(p)' = v
  PROVE  St' = [St EXCEPT ![p] = v]
  BY Zenon DEF St

\* Nobody's status changes.
LEMMA Same ==
  ASSUME \A q \in Slot : Status(q)' = Status(q)
  PROVE  St' = St
  BY DEF St

\* The steps of p inside sleep() and wakeup() that only p's own pc shows.
LEMMA RefLock ==
  ASSUME SleepInv, SleepInv', NEW p \in Slot, AcquireLk(p) \/ ReleaseLk(p) \/ SleepRelease(p)
  PROVE  M!Next
  <1> USE DEF GoTo
  <1>0. tick' = tick /\ \A q \in Slot : q # p => Status(q)' = Status(q)
    BY DEF AcquireLk, ReleaseLk, SleepRelease, Status, Waits, HoldsLk, SleepInv, SleepTypeOK
  <1>1. CASE AcquireLk(p)
    <2>1. woke = {}
      BY <1>1 DEF AcquireLk, LkFree, HoldsLk, SleepInv, WokeInv
    <2>2. Status(p) \in {"out", "woken"}
      BY <1>1, <2>1 DEF AcquireLk, Status, Waits, HoldsLk
    <2>3. M!Free
      BY <1>1, StatusFacts DEF AcquireLk, LkFree, M!Free, St
    <2>4. Status(p)' = "in"
      BY <1>1, ZenonT(20) DEF AcquireLk, Status, Waits, HoldsLk, SleepInv, SleepTypeOK
    <2> QED
      BY <1>0, <2>2, <2>3, <2>4, OnlyAt, Zenon DEF M!Next, M!Enter, St
  <1>2. CASE ReleaseLk(p)
    <2>1. Status(p) = "in" /\ Status(p)' = "out"
      BY <1>2, ZenonT(20) DEF ReleaseLk, Status, Waits, HoldsLk, SleepInv, SleepTypeOK
    <2> QED
      BY <1>0, <2>1, OnlyAt, Zenon DEF M!Next, M!Leave, St
  <1>3. CASE SleepRelease(p)
    <2>1. Status(p) = "in" /\ asked[p] \in Chan
      BY <1>3, ZenonT(20) DEF SleepRelease, Status, Waits, HoldsLk, SleepInv, LksInv
    <2>2. Status(p)' = asked[p]
      <3>1. stage'[p] = "unlocked" /\ asked' = asked
        BY <1>3 DEF SleepRelease, SleepInv, SleepTypeOK, GoTo
      <3> QED
        BY <3>1, ZenonT(20) DEF Status, Waits, HoldsLk
    <2> QED
      BY <1>0, <2>1, <2>2, OnlyAt DEF M!Next, M!Wait, St
  <1> QED
    BY <1>1, <1>2, <1>3

\* The steps inside sleep() and wakeup() that a user does not see.
LEMMA RefInside ==
  ASSUME SleepInv, NEW p \in Slot,
         \/ SleepSched(p) \/ Resume(p) \/ WakeupSkip(p) \/ WakeupOne(p)
         \/ \E c \in Chan : SleepLock(p, c) \/ WakeupCall(p, c)
  PROVE  St' = St /\ tick' = tick
  <1> USE DEF GoTo
  <1>0. tick' = tick
    BY DEF SleepSched, Resume, WakeupSkip, WakeupOne, SleepLock, WakeupCall
  <1>1. CASE SleepSched(p) \/ Resume(p)
    BY <1>1, Same, HolderNotWoke DEF SleepSched, Resume, Status, Waits, HoldsLk,
        SleepInv, SleepTypeOK
  <1>2. CASE WakeupSkip(p)
    BY <1>2, Same DEF WakeupSkip, Status, Waits, HoldsLk
  <1>3. CASE WakeupOne(p)
    <2>1. PICK r \in Slot : r = nth[p]
      BY <1>3, SlotFacts DEF WakeupOne, SleepInv, SleepTypeOK, LksInv
    <2>2. r # p /\ state[r] = "SLEEPING" /\ stage[r] = "asleep"
      BY <1>3, <2>1 DEF WakeupOne, Sleeps, SleepInv, SleepTypeOK
    <2>3. Status(r) = asked[r] /\ Status(r)' = asked[r]
      BY <1>3, <2>1, <2>2 DEF WakeupOne, Status, Waits, HoldsLk
    <2>4. \A q \in Slot : q # r => Status(q)' = Status(q)
      BY <1>3, <2>1 DEF WakeupOne, Status, Waits, HoldsLk, SleepInv, SleepTypeOK
    <2>5. \A q \in Slot : Status(q)' = Status(q)
      <3>1. asked' = asked
        BY <1>3 DEF WakeupOne
      <3> QED
        BY <2>3, <2>4, <3>1
    <2> QED
      BY <1>0, <2>5, Same
  <1>4. ASSUME NEW c \in Chan, SleepLock(p, c) \/ WakeupCall(p, c) PROVE St' = St
    BY <1>4, Same DEF SleepLock, WakeupCall, Status, Waits, HoldsLk, SleepInv, SleepTypeOK
  <1> QED
    BY <1>0, <1>1, <1>2, <1>3, <1>4

\* The return of wakeup(p) is the broadcast: everybody who waits on its
\* channel has been woken.
LEMMA RefReturn ==
  ASSUME SleepInv, SleepInv', NEW p \in Slot, WakeupReturn(p)
  PROVE  M!Next
  <1> USE DEF GoTo
  <1>1. Status(p) = "in" /\ Status(p)' = "in" /\ asked[p] \in Chan /\ stage[p] = "wakeup"
    BY ZenonT(20) DEF WakeupReturn, Status, Waits, HoldsLk, SleepInv, SleepTypeOK, LksInv
  <1>2. ASSUME NEW q \in Slot
        PROVE  Status(q)' = IF Status(q) = asked[p] THEN "woken" ELSE Status(q)
    <2>1. CASE q \in woke
      <3>1. asked[q] = asked[p] /\ (stage[q] = "back" \/ (stage[q] = "asleep" /\ state[q] # "SLEEPING"))
        BY <1>1, <2>1 DEF SleepInv, WokeInv
      <3>2. Status(q) = asked[p]
        BY <2>1, <3>1, StatusFacts
      <3>3. Status(q)' = "woken"
        BY <3>1, <1>1 DEF WakeupReturn, Status, Waits, HoldsLk, SleepInv, SleepTypeOK
      <3> QED
        BY <3>2, <3>3
    <2>2. CASE q \notin woke
      <3>1. Status(q)' = Status(q)
        BY <1>1, <2>2, ZenonT(20) DEF WakeupReturn, Status, Waits, HoldsLk, SleepInv, SleepTypeOK
      <3>2. q < nth[p]
        BY SlotFacts DEF WakeupReturn, SleepInv, SleepTypeOK
      <3>3. Waits(q) => asked[q] # asked[p]
        BY <1>1, <3>2 DEF SleepInv, PassedInv
      <3>4. Status(q) # asked[p]
        BY <1>1, <2>2, <3>3, StatusFacts
      <3> QED
        BY <3>1, <3>4
    <2> QED
      BY <2>1, <2>2
  <1>3. M!Broadcast(p, asked[p])
    BY <1>1, <1>2 DEF M!Broadcast, St, WakeupReturn
  <1> QED
    BY <1>1, <1>3, ZenonT(20) DEF M!Next

\* kill() interrupts a waiter, and changes nothing for anybody else.
LEMMA RefKill ==
  ASSUME SleepInv, SleepInv', NEW p \in Slot, Kill(p)
  PROVE  M!Next \/ (St' = St /\ tick' = tick)
  <1>0. tick' = tick /\ \A q \in Slot : q # p => Status(q)' = Status(q)
    BY ZenonT(20) DEF Kill, Status, Waits, HoldsLk, SleepInv, SleepTypeOK
  <1>1. CASE state[p] = "SLEEPING"
    <2>1. stage[p] = "asleep" /\ Waits(p) /\ p \notin woke
      BY <1>1, HolderNotWoke DEF SleepInv, SleepTypeOK, Waits
    <2>2. Status(p) \in Chan
      BY <2>1, StatusFacts, ZenonT(20)
    <2>3. Status(p)' = "woken"
      BY <1>1, <2>1, ZenonT(20) DEF Kill, Status, Waits, HoldsLk, SleepInv, SleepTypeOK
    <2> QED
      BY <1>0, <2>2, <2>3, OnlyAt, ZenonT(20) DEF M!Next, M!Interrupt, St
  <1>2. CASE state[p] # "SLEEPING"
    <2>1. state' = state
      BY <1>2, SMTT(30) DEF Kill, SleepInv, SleepTypeOK
    <2>2. \A q \in Slot : Status(q)' = Status(q)
      BY <2>1, ZenonT(20) DEF Kill, Status, Waits, HoldsLk
    <2> QED
      BY <1>0, <2>2, Same, ZenonT(20)
  <1> QED
    BY <1>1, <1>2

\* sleep() and wakeup() implement the monitor: waiting is atomic with the
\* release of lk, and a broadcast reaches every waiter.
THEOREM Refinement == SleepSpec => ImplementsMonitor
  <1>1. SleepInit => M!Init
    BY DEF SleepInit, M!Init, St, Status, Waits, HoldsLk
  <1>2. SleepInv /\ SleepInv' /\ [SleepNext]_sleepvars => [M!Next]_(M!vars)
    <2> SUFFICES ASSUME SleepInv, SleepInv', [SleepNext]_sleepvars PROVE M!Next \/ (St' = St /\ tick' = tick)
      BY DEF M!vars
    <2>1. CASE UNCHANGED sleepvars
      BY <2>1 DEF sleepvars, St, Status, Waits, HoldsLk
    <2>2. CASE SleepNext
      BY <2>2, RefLock, RefInside, RefReturn, RefKill DEF SleepNext
    <2> QED
      BY <2>1, <2>2
  <1> QED
    BY <1>1, <1>2, SleepInvariant, PTL DEF SleepSpec, ImplementsMonitor, M!Spec

-----------------------------------------------------------------------------
(* The ring of the UART and its FIFO *)

\* The assumptions in the words of Modular.
LEMMA RingConstants ==
  /\ Divides(UART_TX_BUF_SIZE, UINT64)
  /\ UINT64 \in Nat \ {0} /\ UART_TX_BUF_SIZE \in Nat \ {0} /\ UART_TX_BUF_SIZE < UINT64
  BY UartAssumption DEF Divides

\* The index of a byte is one of the ring.
LEMMA SlotType ==
  ASSUME NEW x \in 0..(UINT64 - 1)
  PROVE  x % UART_TX_BUF_SIZE \in 0..(UART_TX_BUF_SIZE - 1)
  <1>1. x \in Int /\ UART_TX_BUF_SIZE \in Nat \ {0}
    BY RingConstants
  <1> QED
    BY <1>1, DivMod, Zenon

\* How many bytes the ring holds.
InUse == (tx_w - tx_r) % UINT64

\* Full and empty, without the remainder.
LEMMA InUseIs ==
  ASSUME tx_w \in 0..(UINT64 - 1), tx_r \in 0..(UINT64 - 1)
  PROVE  /\ InUse \in 0..(UINT64 - 1) /\ InUse = Ahead(tx_r, tx_w, UINT64)
         /\ RingEmpty <=> InUse = 0
         /\ RingFull <=> InUse = UART_TX_BUF_SIZE
  <1>1. UINT64 \in Nat \ {0} /\ UART_TX_BUF_SIZE \in 0..(UINT64 - 1)
    BY RingConstants
  <1>2. InUse = Ahead(tx_r, tx_w, UINT64) /\ InUse \in 0..(UINT64 - 1)
    BY <1>1, AheadIs DEF InUse, Ahead
  <1> QED
    BY <1>1, <1>2, AheadTest DEF RingFull, RingEmpty

\* The set of CPUs about to write THR is finite and no larger than Sync.
LEMMA WritingFits ==
  ASSUME NEW S, S \subseteq Sync
  PROVE  /\ IsFiniteSet(S) /\ Cardinality(S) \in Nat
         /\ Cardinality(Sync) \in Nat /\ Cardinality(S) <= Cardinality(Sync)
  <1>1. IsFiniteSet(Sync)
    BY UartAssumption
  <1> QED
    BY <1>1, FS_Subset, FS_CardinalityType

\* The initial state of the UART.
LEMMA UartInitInv == UartInit => UartInv
  <1> SUFFICES ASSUME UartInit PROVE UartInv
    OBVIOUS
  <1>1. UartTypeOK
    <2>1. 0 \in 0..(UINT64 - 1) /\ 0 \in 0..MaxN /\ 0 \in Nat
      BY UartAssumption
    <2> QED
      BY <2>1, Zenon DEF UartInit, UartTypeOK
  <1>2. Writing = {} /\ ~Sending /\ Writing \subseteq Sync
    BY DEF UartInit, Writing, Sending
  <1>3. fifo + Cardinality(Writing) + (IF Sending THEN 1 ELSE 0) <= Cardinality(Sync) + 1
    <2>1. Cardinality(Writing) = 0
      BY <1>2, FS_EmptySet
    <2> QED
      BY <1>2, <2>1, WritingFits DEF UartInit
  <1>4. (tx_w - tx_r) % UINT64 <= UART_TX_BUF_SIZE
    BY UartAssumption DEF UartInit
  <1>5. \A t \in Starter \cup Sync : where[t] = "idle"
    BY DEF UartInit
  <1> QED
    BY <1>1, <1>3, <1>4, <1>5 DEF UartInit, UartInv, WriterMustWait, Starter

\* The actions of UartNext, with what each does to the threads, the ring and
\* the FIFO.
LEMMA UartSteps ==
  ASSUME UartInv, UartNext
  PROVE  \/ \E p \in Writer : Putc(p)
         \/ \E p \in Writer, n \in 1..MaxN : Write(p, n)
         \/ Uartintr
         \/ \E t \in Starter : StartDone(t) \/ StartReady(t)
         \/ \E t \in Starter : StartSend(t)
         \/ \E s \in Sync : SyncTest(s)
         \/ \E s \in Sync : SyncWrite(s)
         \/ Drain
  BY Zenon DEF UartNext

\* Types.
LEMMA UartTypeStep ==
  ASSUME UartInv, UartNext
  PROVE  UartTypeOK'
  <1>0. UartTypeOK
    BY DEF UartInv
  <1>00. Writer \subseteq Starter \cup Sync /\ Starter \subseteq Starter \cup Sync
         /\ Sync \subseteq Starter \cup Sync /\ Handler \in Starter \cup Sync /\ Handler \in Starter
         /\ Writer \subseteq Starter
    BY Zenon DEF Starter
  <1>1. ASSUME NEW p \in Writer, Putc(p) PROVE UartTypeOK'
    <2>1. CASE RingFull
      BY <1>0, <1>00, <1>1, <2>1 DEF Putc, Move, UartTypeOK
    <2>2. CASE ~RingFull
      <3>1. tx_w % UART_TX_BUF_SIZE \in 0..(UART_TX_BUF_SIZE - 1)
        BY <1>0, SlotType DEF UartTypeOK
      <3>2. tx_w' \in 0..(UINT64 - 1)
        BY <1>0, <1>1, <2>2, RingConstants, BumpedIs DEF UartTypeOK, Putc, Bumped
      <3>3. left[p] - 1 \in 0..MaxN
        BY <1>0, <1>1, UartAssumption DEF UartTypeOK, UartInv, Putc
      <3>4. left' \in [Writer -> 0..MaxN]
        BY <1>0, <1>1, <2>2, <3>3 DEF UartTypeOK, Putc
      <3>5. tx_buf' \in [0..(UART_TX_BUF_SIZE - 1) -> Writer \cup {Nil}]
        BY <1>0, <1>1, <2>2, <3>1 DEF UartTypeOK, Putc
      <3>6. where' \in [Starter \cup Sync -> {"idle", "putc", "asleep", "start", "send", "write"}]
        BY <1>0, <1>00, <1>1, <2>2 DEF UartTypeOK, Putc, Move
      <3> QED
        BY <1>0, <1>00, <1>1, <2>2, <3>2, <3>4, <3>5, <3>6, Zenon DEF UartTypeOK, Putc
    <2> QED
      BY <2>1, <2>2
  <1>2. ASSUME NEW p \in Writer, NEW n \in 1..MaxN, Write(p, n) PROVE UartTypeOK'
    <2>1. n \in 0..MaxN
      BY UartAssumption
    <2> QED
      BY <1>0, <1>00, <1>2, <2>1 DEF Write, Move, UartTypeOK
  <1>3. CASE Uartintr
    BY <1>0, <1>00, <1>3 DEF Uartintr, Move, UartTypeOK
  <1>4. ASSUME NEW t \in Starter, StartDone(t) \/ StartReady(t) PROVE UartTypeOK'
    <2>1. AfterStart(t) \in {"idle", "putc"}
      BY Zenon DEF AfterStart
    <2> QED
      BY <1>0, <1>00, <1>4, <2>1 DEF StartDone, StartReady, Move, UartTypeOK
  <1>5. ASSUME NEW t \in Starter, StartSend(t) PROVE UartTypeOK'
    <2>1. tx_r % UART_TX_BUF_SIZE \in 0..(UART_TX_BUF_SIZE - 1)
      BY <1>0, SlotType DEF UartTypeOK
    <2>2. tx_r' \in 0..(UINT64 - 1)
      BY <1>0, <1>5, RingConstants, BumpedIs DEF UartTypeOK, StartSend, Bumped
    <2>3. fifo' \in Nat /\ overrun' \in BOOLEAN
      BY <1>0, <1>5 DEF UartTypeOK, StartSend, WriteTHR
    <2>4. where' \in [Starter \cup Sync -> {"idle", "putc", "asleep", "start", "send", "write"}]
      BY <1>0, <1>00, <1>5 DEF UartTypeOK, StartSend, StartWakes
    <2>5. tx_buf' \in [0..(UART_TX_BUF_SIZE - 1) -> Writer \cup {Nil}] /\ sent' \in Writer \cup {Nil}
      BY <1>0, <1>5, <2>1 DEF UartTypeOK, StartSend
    <2> QED
      BY <1>0, <1>5, <2>2, <2>3, <2>4, <2>5, Zenon DEF UartTypeOK, StartSend
  <1>6. ASSUME NEW s \in Sync, SyncTest(s) PROVE UartTypeOK'
    BY <1>0, <1>00, <1>6 DEF SyncTest, Move, UartTypeOK
  <1>7. ASSUME NEW s \in Sync, SyncWrite(s) PROVE UartTypeOK'
    <2>3. fifo' \in Nat /\ overrun' \in BOOLEAN
      BY <1>0, <1>7 DEF UartTypeOK, SyncWrite, WriteTHR
    <2> QED
      BY <1>0, <1>00, <1>7, <2>3 DEF SyncWrite, Move, UartTypeOK
  <1>8. CASE Drain
    BY <1>0, <1>8 DEF Drain, UartTypeOK
  <1> QED
    BY <1>1, <1>2, <1>3, <1>4, <1>5, <1>6, <1>7, <1>8, UartSteps, Zenon

\* uart_tx_lock is held throughout uartstart(), a byte is there when one is
\* taken, and a writer goes on while it has bytes left.
LEMMA UartLockStep ==
  ASSUME UartInv, UartNext
  PROVE  /\ \A t \in Starter : where'[t] \in {"start", "send"} => uart_tx_lock' = t
         /\ \A t \in Starter : where'[t] = "send" => ~RingEmpty'
         /\ \A p \in Writer : where'[p] \in {"putc", "asleep"} => left'[p] > 0
  <1> DEFINE I == /\ \A t \in Starter : where[t] \in {"start", "send"} => uart_tx_lock = t
                  /\ \A t \in Starter : where[t] = "send" => ~RingEmpty
                  /\ \A p \in Writer : where[p] \in {"putc", "asleep"} => left[p] > 0
  <1>0. UartTypeOK /\ I
    BY DEF UartInv
  <1>00. /\ Writer \subseteq Starter /\ Handler \in Starter /\ Nil \notin Starter
         /\ Handler \notin Writer /\ Sync \cap Starter = {}
    BY UartAssumption DEF Starter
  <1>1. ASSUME NEW p \in Writer, Putc(p) PROVE I'
    <2>1. CASE RingFull
      BY <1>0, <1>00, <1>1, <2>1 DEF Putc, Move, UartTypeOK, RingEmpty
    <2>2. CASE ~RingFull
      BY <1>0, <1>00, <1>1, <2>2 DEF Putc, Move, UartTypeOK, RingEmpty
    <2> QED
      BY <2>1, <2>2
  <1>2. ASSUME NEW p \in Writer, NEW n \in 1..MaxN, Write(p, n) PROVE I'
    BY <1>0, <1>00, <1>2, UartAssumption DEF Write, Move, UartTypeOK, RingEmpty
  <1>3. CASE Uartintr
    BY <1>0, <1>00, <1>3 DEF Uartintr, Move, UartTypeOK, RingEmpty
  <1>4. ASSUME NEW t \in Starter, StartDone(t) \/ StartReady(t) PROVE I'
    BY <1>0, <1>00, <1>4 DEF StartDone, StartReady, AfterStart, Move, UartTypeOK, RingEmpty
  <1>5. ASSUME NEW t \in Starter, StartSend(t) PROVE I'
    BY <1>0, <1>00, <1>5 DEF StartSend, StartWakes, UartTypeOK, RingEmpty
  <1>6. ASSUME NEW s \in Sync, SyncTest(s) \/ SyncWrite(s) PROVE I'
    BY <1>0, <1>00, <1>6 DEF SyncTest, SyncWrite, Move, UartTypeOK, RingEmpty
  <1>7. CASE Drain
    BY <1>0, <1>7 DEF Drain, RingEmpty
  <1>8. I'
    BY <1>1, <1>2, <1>3, <1>4, <1>5, <1>6, <1>7, UartSteps, Zenon
  <1> QED
    BY <1>8

\* The ring never holds more than its size, and a writer that sleeps waits
\* for a full ring: uartputc() adds to a ring with room, uartstart() takes
\* from one with bytes and wakes everyone.
LEMMA UartRingStep ==
  ASSUME UartInv, UartNext
  PROVE  InUse' <= UART_TX_BUF_SIZE /\ WriterMustWait'
  <1>0. /\ UartTypeOK /\ UartTypeOK' /\ WriterMustWait /\ InUse <= UART_TX_BUF_SIZE
        /\ tx_w \in 0..(UINT64 - 1) /\ tx_r \in 0..(UINT64 - 1)
    BY UartTypeStep DEF UartInv, UartTypeOK, InUse
  <1>00. Writer \subseteq Starter /\ Sync \cap Starter = {} /\ Handler \notin Writer
    BY UartAssumption DEF Starter
  <1>1. ASSUME NEW p \in Writer, Putc(p), ~RingFull
        PROVE  InUse' <= UART_TX_BUF_SIZE /\ WriterMustWait'
    <2>1. InUse < UART_TX_BUF_SIZE /\ InUse < UINT64 - 1
      BY <1>0, <1>1, InUseIs, RingConstants
    <2>2. tx_w' = Bumped(tx_w, UINT64) /\ tx_r' = tx_r
      BY <1>1 DEF Putc, Bumped
    <2>3. Ahead(tx_r, tx_w', UINT64) = InUse + 1
      BY <1>0, <2>1, <2>2, InUseIs, RingConstants, AheadPut
    <2>4. InUse' = InUse + 1
      BY <2>2, <2>3 DEF InUse, Ahead
    <2>5. \A q \in Writer : where'[q] # "asleep"
      BY <1>0, <1>00, <1>1 DEF Putc, Move, WriterMustWait, UartTypeOK
    <2> QED
      BY <1>0, <2>1, <2>4, <2>5, InUseIs, RingConstants DEF WriterMustWait
  <1>2. ASSUME NEW t \in Starter, StartSend(t)
        PROVE  InUse' <= UART_TX_BUF_SIZE /\ WriterMustWait'
    <2>1. tx_r' = Bumped(tx_r, UINT64) /\ tx_w' = tx_w /\ tx_r # tx_w
      BY <1>2 DEF StartSend, Bumped, UartInv, RingEmpty
    <2>2. Ahead(tx_r', tx_w, UINT64) = InUse - 1
      BY <1>0, <2>1, InUseIs, RingConstants, AheadTake
    <2>3. InUse' = InUse - 1
      BY <2>1, <2>2 DEF InUse, Ahead
    <2>4. \A q \in Writer : where'[q] # "asleep"
      BY <1>0, <1>00, <1>2 DEF StartSend, StartWakes, UartTypeOK
    <2> QED
      BY <1>0, <2>3, <2>4, InUseIs, RingConstants DEF WriterMustWait
  <1>3. ASSUME UNCHANGED <<tx_w, tx_r>>,
               \A q \in Writer : where'[q] = "asleep" => where[q] = "asleep" \/ RingFull
        PROVE  InUse' <= UART_TX_BUF_SIZE /\ WriterMustWait'
    BY <1>0, <1>3 DEF InUse, WriterMustWait, RingFull
  <1>4. ASSUME NEW p \in Writer, Putc(p), RingFull
        PROVE  InUse' <= UART_TX_BUF_SIZE /\ WriterMustWait'
    BY <1>0, <1>3, <1>4 DEF Putc, Move, UartTypeOK
  <1>5. ASSUME NEW p \in Writer, NEW n \in 1..MaxN, Write(p, n)
        PROVE  InUse' <= UART_TX_BUF_SIZE /\ WriterMustWait'
    BY <1>0, <1>00, <1>3, <1>5 DEF Write, Move, UartTypeOK
  <1>6. ASSUME Uartintr PROVE InUse' <= UART_TX_BUF_SIZE /\ WriterMustWait'
    BY <1>0, <1>00, <1>3, <1>6 DEF Uartintr, Move, UartTypeOK
  <1>7. ASSUME NEW t \in Starter, StartDone(t) \/ StartReady(t)
        PROVE  InUse' <= UART_TX_BUF_SIZE /\ WriterMustWait'
    BY <1>0, <1>00, <1>3, <1>7 DEF StartDone, StartReady, AfterStart, Move, UartTypeOK
  <1>8. ASSUME NEW s \in Sync, SyncTest(s) \/ SyncWrite(s)
        PROVE  InUse' <= UART_TX_BUF_SIZE /\ WriterMustWait'
    BY <1>0, <1>00, <1>3, <1>8 DEF SyncTest, SyncWrite, Move, UartTypeOK
  <1>9. ASSUME Drain PROVE InUse' <= UART_TX_BUF_SIZE /\ WriterMustWait'
    BY <1>3, <1>9 DEF Drain
  <1> QED
    BY <1>1, <1>2, <1>4, <1>5, <1>6, <1>7, <1>8, <1>9, UartSteps, Zenon

\* The bytes in the FIFO and those that are on their way to it.
OnTheWay == IF Sending THEN 1 ELSE 0
Claims == fifo + Cardinality(Writing) + OnTheWay

\* The claims are numbers, and all of Sync and one uartstart() fit.
LEMMA ClaimsType ==
  ASSUME UartInv
  PROVE  /\ fifo \in Nat /\ Cardinality(Writing) \in Nat /\ OnTheWay \in 0..1
         /\ IsFiniteSet(Writing) /\ Cardinality(Writing) <= Cardinality(Sync)
         /\ Cardinality(Sync) \in Nat /\ Cardinality(Sync) < FIFO /\ FIFO \in Nat
         /\ fifo + Cardinality(Writing) + OnTheWay <= Cardinality(Sync) + 1
  <1>1. Writing \subseteq Sync
    BY DEF Writing
  <1>2. OnTheWay \in 0..1
    BY DEF OnTheWay
  <1>3. fifo + Cardinality(Writing) + OnTheWay <= Cardinality(Sync) + 1
    BY Zenon DEF UartInv, OnTheWay
  <1> QED
    BY <1>1, <1>2, <1>3, WritingFits, UartAssumption DEF UartInv, UartTypeOK

\* Nothing is written to a full FIFO: who has seen it empty has a claim, and
\* the claims never exceed its depth.
LEMMA UartFifoStep ==
  ASSUME UartInv, UartNext
  PROVE  ~overrun' /\ Claims' <= Cardinality(Sync) + 1
  <1>0. /\ UartTypeOK /\ ~overrun
        /\ \A t \in Starter : where[t] \in {"start", "send"} => uart_tx_lock = t
    BY DEF UartInv
  <1>00. Writer \subseteq Starter /\ Sync \cap Starter = {} /\ Handler \in Starter
    BY UartAssumption DEF Starter
  <1>1. ASSUME overrun' = overrun, fifo' = fifo, Writing' = Writing, Sending' = Sending
        PROVE  ~overrun' /\ Claims' <= Cardinality(Sync) + 1
    BY <1>0, <1>1, ClaimsType DEF Claims, OnTheWay
  <1>2. ASSUME NEW t \in Starter, NEW l, where' = [where EXCEPT ![t] = l],
               l # "send", where[t] # "send"
        PROVE  Writing' = Writing /\ Sending' = Sending
    BY <1>0, <1>00, <1>2 DEF UartTypeOK, Writing, Sending
  <1>3. ASSUME NEW p \in Writer, Putc(p) \/ \E n \in 1..MaxN : Write(p, n)
        PROVE  ~overrun' /\ Claims' <= Cardinality(Sync) + 1
    <2>1. PICK l \in {"asleep", "start", "putc"} : where' = [where EXCEPT ![p] = l]
      BY <1>3 DEF Putc, Write, Move
    <2>2. where[p] # "send" /\ overrun' = overrun /\ fifo' = fifo
      BY <1>3 DEF Putc, Write
    <2> QED
      BY <1>00, <1>1, <1>2, <2>1, <2>2, Zenon
  <1>4. ASSUME Uartintr PROVE ~overrun' /\ Claims' <= Cardinality(Sync) + 1
    BY <1>00, <1>1, <1>2, <1>4, Zenon DEF Uartintr, Move
  <1>5. ASSUME NEW t \in Starter, StartDone(t)
        PROVE  ~overrun' /\ Claims' <= Cardinality(Sync) + 1
    BY <1>1, <1>2, <1>5, Zenon DEF StartDone, AfterStart, Move
  <1>6. ASSUME NEW t \in Starter, StartReady(t)
        PROVE  ~overrun' /\ Claims' <= Cardinality(Sync) + 1
    <2>1. Writing' = Writing /\ fifo' = 0 /\ overrun' = overrun
      BY <1>0, <1>00, <1>6 DEF StartReady, Move, UartTypeOK, Writing, TX_IDLE
    <2>2. OnTheWay' \in 0..1
      BY DEF OnTheWay
    <2> QED
      BY <1>0, <2>1, <2>2, ClaimsType DEF Claims
  <1>7. ASSUME NEW t \in Starter, StartSend(t)
        PROVE  ~overrun' /\ Claims' <= Cardinality(Sync) + 1
    <2>1. OnTheWay = 1
      BY <1>7 DEF StartSend, OnTheWay, Sending
    <2>2. ~Sending' /\ Writing' = Writing
      BY <1>0, <1>00, <1>7, Zenon DEF StartSend, StartWakes, UartTypeOK, Sending, Writing
    <2>3. fifo < FIFO
      BY <2>1, ClaimsType
    <2>4. fifo' = fifo + 1 /\ ~overrun'
      <3>1. fifo # FIFO
        BY <2>3, ClaimsType
      <3> QED
        BY <1>0, <1>7, <3>1, Zenon DEF StartSend, WriteTHR, FifoDepth
    <2>5. OnTheWay' = 0
      BY <2>2 DEF OnTheWay
    <2> QED
      BY <2>1, <2>2, <2>4, <2>5, ClaimsType DEF Claims
  <1>8. ASSUME NEW s \in Sync, SyncTest(s)
        PROVE  ~overrun' /\ Claims' <= Cardinality(Sync) + 1
    <2>1. fifo' = 0 /\ overrun' = overrun /\ Writing' \subseteq Sync
      BY <1>8 DEF SyncTest, TX_IDLE, Writing
    <2>2. OnTheWay' \in 0..1
      BY DEF OnTheWay
    <2>3. Cardinality(Writing') \in Nat /\ Cardinality(Writing') <= Cardinality(Sync)
      BY <2>1, WritingFits
    <2> QED
      BY <1>0, <2>1, <2>2, <2>3, ClaimsType DEF Claims
  <1>9. ASSUME NEW s \in Sync, SyncWrite(s)
        PROVE  ~overrun' /\ Claims' <= Cardinality(Sync) + 1
    <2>1. s \in Writing /\ Writing' = Writing \ {s} /\ Sending' = Sending
      BY <1>0, <1>00, <1>9 DEF SyncWrite, Move, UartTypeOK, Sending, Writing
    <2>2. Cardinality(Writing') = Cardinality(Writing) - 1
      BY <2>1, ClaimsType, FS_RemoveElement
    <2>3. Cardinality(Writing) > 0
      <3>1. Cardinality(Writing) # 0
        BY <2>1, ClaimsType, FS_EmptySet
      <3> QED
        BY <3>1, ClaimsType
    <2>4. fifo < FIFO
      BY <2>3, ClaimsType
    <2>5. fifo' = fifo + 1 /\ ~overrun'
      <3>1. fifo # FIFO
        BY <2>4, ClaimsType
      <3> QED
        BY <1>0, <1>9, <3>1, Zenon DEF SyncWrite, WriteTHR, FifoDepth
    <2>6. OnTheWay' = OnTheWay
      BY <2>1 DEF OnTheWay
    <2> QED
      BY <2>2, <2>5, <2>6, ClaimsType DEF Claims
  <1>10. ASSUME Drain PROVE ~overrun' /\ Claims' <= Cardinality(Sync) + 1
    <2>1. fifo' = fifo - 1 /\ overrun' = overrun /\ Writing' = Writing /\ OnTheWay' = OnTheWay
      BY <1>10 DEF Drain, Writing, OnTheWay, Sending
    <2> QED
      BY <1>0, <2>1, ClaimsType DEF Claims
  <1> QED
    BY <1>3, <1>4, <1>5, <1>6, <1>7, <1>8, <1>9, <1>10, UartSteps, Zenon

\* The threads that passed the test of LSR_TX_IDLE, the lock and the ring.
THEOREM UartInvariant == UartSpec => []UartInv
  <1>1. ASSUME UartInv, UNCHANGED uartvars PROVE UartInv'
    BY <1>1, Zenon DEF uartvars, UartInv, UartTypeOK, RingEmpty, RingFull, WriterMustWait, Writing, Sending
  <1>2. ASSUME UartInv, UartNext PROVE UartInv'
    <2>1. Claims' <= Cardinality(Sync) + 1 /\ ~overrun' /\ InUse' <= UART_TX_BUF_SIZE
      BY <1>2, UartFifoStep, UartRingStep
    <2> QED
      BY <1>2, <2>1, UartTypeStep, UartLockStep, UartRingStep, Zenon DEF UartInv, Claims, OnTheWay, InUse
  <1>3. UartInv /\ [UartNext]_uartvars => UartInv'
    BY <1>1, <1>2, Zenon
  <1> QED
    BY <1>3, UartInitInv, PTL DEF UartSpec

\* No byte is lost in the device, although printf() and the echo write to it
\* without uart_tx_lock, and a writer is stopped by a full ring only.
THEOREM OutputIsSafe == UartSpec => []OutputFits
  <1>1. UartInv => OutputFits
    BY Zenon DEF UartInv, OutputFits, NoOverrun
  <1> QED
    BY <1>1, UartInvariant, PTL

-----------------------------------------------------------------------------
(* The ring is a queue *)

\* What Append and Tail do to a sequence, and when two sequences are equal.
LEMMA SeqAppend ==
  ASSUME NEW S, NEW s \in Seq(S), NEW b \in S
  PROVE  /\ Append(s, b) \in Seq(S) /\ Len(Append(s, b)) = Len(s) + 1
         /\ \A k \in 1..Len(s) : Append(s, b)[k] = s[k]
         /\ Append(s, b)[Len(s) + 1] = b
  OBVIOUS

\* See SeqAppend.
LEMMA SeqTail ==
  ASSUME NEW S, NEW s \in Seq(S), s # <<>>
  PROVE  /\ Tail(s) \in Seq(S) /\ Len(Tail(s)) = Len(s) - 1 /\ Head(s) = s[1]
         /\ \A k \in 1..(Len(s) - 1) : Tail(s)[k] = s[k + 1]
  OBVIOUS

\* See SeqAppend.
LEMMA SeqSame ==
  ASSUME NEW S, NEW s \in Seq(S), NEW t \in Seq(S), Len(s) = Len(t),
         \A k \in 1..Len(s) : s[k] = t[k]
  PROVE  s = t
  OBVIOUS

\* A function on 1..m is a sequence.
LEMMA SeqOf ==
  ASSUME NEW S, NEW m \in Nat, NEW s \in [1..m -> S]
  PROVE  s \in Seq(S) /\ Len(s) = m
  OBVIOUS

\* Where the k-th byte of the ring is.
Place(k) == (tx_r + k - 1) % UART_TX_BUF_SIZE

\* The ring as a sequence.
RingIs ==
  /\ InRing \in Seq(Writer \cup {Nil}) /\ Len(InRing) = InUse /\ InUse \in Nat
  /\ \A k \in 1..InUse : InRing[k] = tx_buf[Place(k)]

\* The bytes between uart_tx_r and uart_tx_w are a sequence.
LEMMA RingIsSeq == UartTypeOK => RingIs
  <1> SUFFICES ASSUME UartTypeOK PROVE RingIs
    OBVIOUS
  <1>1. InUse \in Nat /\ tx_r \in 0..(UINT64 - 1)
    BY InUseIs DEF UartTypeOK
  <1>2. ASSUME NEW k \in 1..InUse PROVE tx_buf[Place(k)] \in Writer \cup {Nil}
    <2>1. tx_r + k - 1 \in Int /\ UART_TX_BUF_SIZE \in Nat \ {0}
      BY <1>1, RingConstants
    <2>2. Place(k) \in 0..(UART_TX_BUF_SIZE - 1)
      BY <2>1, DivMod, Zenon DEF Place
    <2> QED
      BY <2>2 DEF UartTypeOK
  <1>3. /\ InRing \in [1..InUse -> Writer \cup {Nil}]
        /\ \A k \in 1..InUse : InRing[k] = tx_buf[Place(k)]
    BY <1>2, Zenon DEF InRing, Place, InUse
  <1>4. InRing \in Seq(Writer \cup {Nil}) /\ Len(InRing) = InUse
    BY <1>1, <1>3, SeqOf
  <1> QED
    BY <1>1, <1>3, <1>4 DEF RingIs

\* The same after a step.
LEMMA RingIsLater == UartTypeOK' => RingIs'
  BY RingIsSeq, PTL

\* The places of the bytes in the ring differ, and the next one is at tx_w.
LEMMA PlaceFacts ==
  ASSUME UartInv
  PROVE  /\ Place(InUse + 1) = tx_w % UART_TX_BUF_SIZE
         /\ Place(1) = tx_r % UART_TX_BUF_SIZE
         /\ InUse < UART_TX_BUF_SIZE => \A k \in 1..InUse : Place(k) # tx_w % UART_TX_BUF_SIZE
         /\ \A k \in 2..InUse : Place(k) # tx_r % UART_TX_BUF_SIZE
  <1> DEFINE N == UART_TX_BUF_SIZE
  <1>1. /\ tx_r \in 0..(UINT64 - 1) /\ tx_w \in 0..(UINT64 - 1) /\ InUse <= N
        /\ N \in Nat \ {0} /\ UINT64 \in Nat \ {0} /\ Divides(N, UINT64)
    BY RingConstants DEF UartInv, UartTypeOK, InUse
  <1>2. InUse \in Nat /\ InUse = Ahead(tx_r, tx_w, UINT64)
    BY <1>1, InUseIs
  <1>3. (tx_r + InUse) % N = tx_w % N
    BY <1>1, <1>2, SlotOfHigh, Zenon
  <1>4. ASSUME NEW k \in Int PROVE Place(k) = (tx_r + (k - 1)) % N
    <2>1. tx_r + k - 1 = tx_r + (k - 1)
      BY <1>1
    <2> QED
      BY <2>1 DEF Place
  <1>5. Place(InUse + 1) = tx_w % N
    <2>1. InUse + 1 \in Int /\ (InUse + 1) - 1 = InUse
      BY <1>2
    <2> QED
      BY <1>3, <1>4, <2>1
  <1>6. Place(1) = tx_r % N
    <2>1. tx_r + (1 - 1) = tx_r
      BY <1>1
    <2> QED
      BY <1>4, <2>1
  <1>7. ASSUME InUse < N, NEW k \in 1..InUse PROVE Place(k) # tx_w % N
    <2>1. k \in Int /\ k - 1 \in 0..(N - 1) /\ InUse \in 0..(N - 1) /\ k - 1 # InUse /\ tx_r \in Int
      BY <1>1, <1>2, <1>7
    <2>2. (tx_r + (k - 1)) % N # (tx_r + InUse) % N
      BY <1>1, <2>1, SlotsDiffer, Zenon
    <2> QED
      BY <1>3, <1>4, <2>1, <2>2, Zenon
  <1>8. ASSUME NEW k \in 2..InUse PROVE Place(k) # tx_r % N
    <2>1. /\ k \in Int /\ k - 1 \in 0..(N - 1) /\ 0 \in 0..(N - 1) /\ k - 1 # 0
          /\ tx_r \in Int /\ tx_r + 0 = tx_r
      BY <1>1, <1>2, <1>8
    <2>2. (tx_r + (k - 1)) % N # (tx_r + 0) % N
      BY <1>1, <2>1, SlotsDiffer, Zenon
    <2> QED
      BY <1>4, <2>1, <2>2
  <1> QED
    BY <1>5, <1>6, <1>7, <1>8

\* uartputc() appends its byte.
LEMMA PutcRefines ==
  ASSUME UartInv, UartTypeOK', NEW p \in Writer, Putc(p), ~RingFull
  PROVE  Q!Put(p)
  <1>0. UartTypeOK /\ InUse <= UART_TX_BUF_SIZE
    BY DEF UartInv, InUse
  <1>1. /\ InRing \in Seq(Writer \cup {Nil}) /\ Len(InRing) = InUse /\ InUse \in Nat
        /\ \A k \in 1..InUse : InRing[k] = tx_buf[Place(k)]
    BY <1>0, RingIsSeq, Zenon DEF RingIs
  <1>2. /\ InRing' \in Seq(Writer \cup {Nil}) /\ Len(InRing') = InUse'
        /\ \A k \in 1..InUse' : InRing'[k] = tx_buf'[Place(k)']
    BY RingIsLater, Zenon DEF RingIs
  <1>3. InUse < UART_TX_BUF_SIZE /\ InUse' = InUse + 1
    <2>1. InUse < UART_TX_BUF_SIZE /\ InUse < UINT64 - 1
      BY <1>0, InUseIs, RingConstants DEF UartTypeOK
    <2>2. tx_w' = Bumped(tx_w, UINT64) /\ tx_r' = tx_r
      BY DEF Putc, Bumped
    <2>3. Ahead(tx_r, tx_w', UINT64) = InUse + 1
      BY <1>0, <2>1, <2>2, InUseIs, RingConstants, AheadPut DEF UartTypeOK
    <2> QED
      BY <2>1, <2>2, <2>3 DEF InUse, Ahead
  <1>4. /\ tx_w % UART_TX_BUF_SIZE = Place(InUse + 1)
        /\ \A k \in 1..InUse : Place(k) # tx_w % UART_TX_BUF_SIZE
        /\ tx_w % UART_TX_BUF_SIZE \in 0..(UART_TX_BUF_SIZE - 1)
    BY <1>0, <1>3, PlaceFacts, SlotType DEF UartTypeOK
  <1>5. \A k \in 1..InUse' : Place(k)' = Place(k)
    BY Zenon DEF Place, Putc
  <1>6. /\ tx_buf' = [tx_buf EXCEPT ![tx_w % UART_TX_BUF_SIZE] = p]
        /\ DOMAIN tx_buf = 0..(UART_TX_BUF_SIZE - 1)
    BY <1>0 DEF Putc, UartTypeOK
  <1>7. InRing'[InUse + 1] = p
    <2>1. InUse + 1 \in 1..InUse'
      BY <1>1, <1>3
    <2>2. InRing'[InUse + 1] = tx_buf'[tx_w % UART_TX_BUF_SIZE]
      BY <1>2, <1>4, <1>5, <2>1, Zenon
    <2> QED
      BY <1>4, <1>6, <2>2, Zenon
  <1>8. ASSUME NEW k \in 1..InUse PROVE InRing'[k] = InRing[k]
    <2>1. k \in 1..InUse'
      BY <1>1, <1>3
    <2>2. InRing'[k] = tx_buf'[Place(k)]
      BY <1>2, <1>5, <2>1, Zenon
    <2>3. tx_buf'[Place(k)] = tx_buf[Place(k)]
      <3>1. Place(k) \in 0..(UART_TX_BUF_SIZE - 1)
        <4>1. tx_r + k - 1 \in Int /\ UART_TX_BUF_SIZE \in Nat \ {0}
          BY <1>0, RingConstants DEF UartTypeOK
        <4> QED
          BY <4>1, DivMod, Zenon DEF Place
      <3> QED
        BY <1>4, <1>6, <3>1, Zenon
    <2> QED
      BY <1>1, <2>2, <2>3, Zenon
  <1> DEFINE a == Append(InRing, p)
  <1>9. /\ a \in Seq(Writer \cup {Nil}) /\ Len(a) = InUse + 1
        /\ \A k \in 1..InUse : a[k] = InRing[k]
        /\ a[InUse + 1] = p
    <2>1. p \in Writer \cup {Nil}
      OBVIOUS
    <2>2. /\ a \in Seq(Writer \cup {Nil}) /\ Len(a) = Len(InRing) + 1
          /\ \A k \in 1..Len(InRing) : a[k] = InRing[k]
          /\ a[Len(InRing) + 1] = p
      BY <1>1, <2>1, SeqAppend, Zenon
    <2> QED
      BY <1>1, <2>2, ZenonT(20)
  <1> HIDE DEF a
  <1>10. InRing' = a
    <2>1. \A k \in 1..(InUse + 1) : k \in 1..InUse \/ k = InUse + 1
      BY <1>1
    <2>2. \A k \in 1..(InUse + 1) : InRing'[k] = a[k]
      BY <1>7, <1>8, <1>9, <2>1, Zenon
    <2> QED
      BY <1>2, <1>3, <1>9, <2>2, SeqSame, ZenonT(30)
  <1> QED
    BY <1>1, <1>3, <1>10, ZenonT(30) DEF a, Q!Put, Putc

\* uartstart() takes the head.
LEMMA SendRefines ==
  ASSUME UartInv, UartTypeOK', NEW t \in Starter, StartSend(t)
  PROVE  Q!Take
  <1>0. UartTypeOK /\ tx_r # tx_w
    BY DEF UartInv, StartSend, RingEmpty
  <1>1. /\ InRing \in Seq(Writer \cup {Nil}) /\ Len(InRing) = InUse /\ InUse \in Nat
        /\ \A k \in 1..InUse : InRing[k] = tx_buf[Place(k)]
    BY <1>0, RingIsSeq, Zenon DEF RingIs
  <1>2. /\ InRing' \in Seq(Writer \cup {Nil}) /\ Len(InRing') = InUse'
        /\ \A k \in 1..InUse' : InRing'[k] = tx_buf'[Place(k)']
    BY RingIsLater, Zenon DEF RingIs
  <1>3. tx_r' = Bumped(tx_r, UINT64) /\ tx_w' = tx_w
    BY Zenon DEF StartSend, Bumped
  <1>4. InUse' = InUse - 1 /\ InUse > 0
    <2>1. InUse # 0
      BY <1>0, InUseIs DEF UartTypeOK, RingEmpty
    <2>2. Ahead(tx_r', tx_w, UINT64) = InUse - 1
      BY <1>0, <1>3, InUseIs, RingConstants, AheadTake DEF UartTypeOK
    <2> QED
      BY <1>1, <1>3, <2>1, <2>2 DEF InUse, Ahead
  <1>5. ASSUME NEW k \in 1..(InUse - 1) PROVE Place(k)' = Place(k + 1)
    <2>1. /\ k - 1 \in Int /\ tx_r' + k - 1 = tx_r' + (k - 1)
          /\ tx_r + (k + 1) - 1 = tx_r + ((k - 1) + 1)
      BY <1>0 DEF UartTypeOK
    <2>2. (Bumped(tx_r, UINT64) + (k - 1)) % UART_TX_BUF_SIZE = (tx_r + ((k - 1) + 1)) % UART_TX_BUF_SIZE
      <3>1. tx_r \in 0..(UINT64 - 1) /\ Divides(UART_TX_BUF_SIZE, UINT64)
        BY <1>0, RingConstants, Zenon DEF UartTypeOK
      <3> QED
        BY <2>1, <3>1, SlotOfNext
    <2> QED
      BY <1>3, <2>1, <2>2, Zenon DEF Place
  <1>6. ASSUME NEW k \in 1..(InUse - 1) PROVE InRing'[k] = InRing[k + 1]
    <2>1. k \in 1..InUse' /\ k + 1 \in 1..InUse /\ k + 1 \in 2..InUse
      BY <1>1, <1>4
    <2>2. InRing'[k] = tx_buf'[Place(k + 1)]
      BY <1>2, <1>5, <2>1, Zenon
    <2>3. Place(k + 1) # tx_r % UART_TX_BUF_SIZE
      BY <2>1, PlaceFacts, Zenon
    <2>4. Place(k + 1) \in 0..(UART_TX_BUF_SIZE - 1)
      <3>1. tx_r + (k + 1) - 1 \in Int /\ UART_TX_BUF_SIZE \in Nat \ {0}
        BY <1>0, RingConstants DEF UartTypeOK
      <3> QED
        BY <3>1, DivMod, Zenon DEF Place
    <2>5. tx_buf'[Place(k + 1)] = tx_buf[Place(k + 1)]
      BY <1>0, <2>3, <2>4 DEF UartTypeOK, StartSend
    <2> QED
      BY <1>1, <2>1, <2>2, <2>5, Zenon
  <1>7. InRing # <<>>
    BY <1>1, <1>4
  <1> DEFINE r == Tail(InRing)
  <1>8. /\ r \in Seq(Writer \cup {Nil}) /\ Len(r) = InUse - 1 /\ Head(InRing) = InRing[1]
        /\ \A k \in 1..(InUse - 1) : r[k] = InRing[k + 1]
    BY <1>1, <1>7, SeqTail, ZenonT(30)
  <1> HIDE DEF r
  <1>9. InRing' = r
    <2>1. \A k \in 1..(InUse - 1) : InRing'[k] = r[k]
      BY <1>6, <1>8, Zenon
    <2> QED
      BY <1>2, <1>4, <1>8, <2>1, SeqSame, ZenonT(30)
  <1>10. sent' = Head(InRing)
    <2>1. 1 \in 1..InUse
      BY <1>1, <1>4
    <2>2. Place(1) = tx_r % UART_TX_BUF_SIZE
      BY PlaceFacts, Zenon
    <2> QED
      BY <1>1, <1>8, <2>1, <2>2, Zenon DEF StartSend
  <1> QED
    BY <1>7, <1>9, <1>10, Zenon DEF r, Q!Take

\* Bytes written to the console leave in the order in which uartputc() took
\* them, each once, for any number of writers, whoever runs uartstart() and
\* however often uart_tx_w and uart_tx_r wrap.
THEOREM OutputRefinement == UartSpec => OutputInOrder
  <1>1. UartInit => Q!Init
    <2> SUFFICES ASSUME UartInit PROVE Q!Init
      OBVIOUS
    <2>1. RingIs /\ InUse = 0
      BY UartInitInv, RingIsSeq, InUseIs DEF UartInv, UartTypeOK, UartInit, RingEmpty
    <2>2. InRing = <<>>
      BY <2>1 DEF RingIs
    <2> QED
      BY <2>2 DEF UartInit, Q!Init
  <1>2. UartInv /\ UartInv' /\ [UartNext]_uartvars => [Q!Next]_(Q!vars)
    <2> SUFFICES ASSUME UartInv, UartInv', [UartNext]_uartvars
                 PROVE  Q!Next \/ UNCHANGED <<InRing, sent>>
      BY Zenon DEF Q!vars
    <2>0. UartTypeOK'
      BY DEF UartInv
    <2>1. ASSUME UNCHANGED <<tx_buf, tx_w, tx_r, sent>> PROVE UNCHANGED <<InRing, sent>>
      BY <2>1, Zenon DEF InRing
    <2>2. ASSUME NEW p \in Writer, Putc(p) PROVE Q!Next \/ UNCHANGED <<InRing, sent>>
      <3>1. CASE RingFull
        BY <2>1, <2>2, <3>1, Zenon DEF Putc
      <3>2. CASE ~RingFull
        BY <2>0, <2>2, <3>2, PutcRefines, Zenon DEF Q!Next
      <3> QED
        BY <3>1, <3>2, Zenon
    <2>3. ASSUME NEW t \in Starter, StartSend(t) PROVE Q!Next
      BY <2>0, <2>3, SendRefines, Zenon DEF Q!Next
    <2>4. ASSUME \/ \E p \in Writer, n \in 1..MaxN : Write(p, n)
                 \/ Uartintr \/ Drain
                 \/ \E t \in Starter : StartDone(t) \/ StartReady(t)
                 \/ \E s \in Sync : SyncTest(s)
                 \/ \E s \in Sync : SyncWrite(s)
          PROVE  UNCHANGED <<tx_buf, tx_w, tx_r, sent>>
      BY <2>4, Zenon DEF Write, Uartintr, Drain, StartDone, StartReady, SyncTest, SyncWrite
    <2>5. CASE UNCHANGED uartvars
      BY <2>1, <2>5, Zenon DEF uartvars
    <2>6. CASE UartNext
      BY <2>1, <2>2, <2>3, <2>4, <2>6, UartSteps, Zenon
    <2> QED
      BY <2>5, <2>6, Zenon
  <1> QED
    BY <1>1, <1>2, UartInvariant, PTL DEF UartSpec, OutputInOrder, Q!Spec

-----------------------------------------------------------------------------
(* The console's input buffer *)

\* The assumptions in the words of Modular.
LEMMA ConsConstants ==
  /\ Divides(INPUT_BUF, UINT32) /\ UINT32 \in Nat \ {0}
  /\ INPUT_BUF \in Nat \ {0} /\ INPUT_BUF \in 0..(UINT32 - 1)
  BY ConsoleAssumption DEF Divides

\* The indices are uints.
IndexType ==
  cons_r \in 0..(UINT32 - 1) /\ cons_w \in 0..(UINT32 - 1) /\ cons_e \in 0..(UINT32 - 1)

\* The three distances, in the words of Modular.
LEMMA Distances ==
  ASSUME IndexType
  PROVE  /\ Ready = Ahead(cons_r, cons_w, UINT32) /\ Ready \in 0..(UINT32 - 1)
         /\ Edited = Ahead(cons_w, cons_e, UINT32) /\ Edited \in 0..(UINT32 - 1)
         /\ InCons = Ahead(cons_r, cons_e, UINT32) /\ InCons \in 0..(UINT32 - 1)
         /\ cons_r = cons_w <=> Ready = 0
         /\ cons_w = cons_e <=> Edited = 0
         /\ cons_r = cons_e <=> InCons = 0
  <1>1. /\ Ready = Ahead(cons_r, cons_w, UINT32) /\ Edited = Ahead(cons_w, cons_e, UINT32)
        /\ InCons = Ahead(cons_r, cons_e, UINT32)
    BY Zenon DEF Ready, Edited, InCons, Ahead
  <1>2. UINT32 \in Nat \ {0} /\ 0 \in 0..(UINT32 - 1)
    BY ConsConstants
  <1>3. /\ Ready \in 0..(UINT32 - 1) /\ Edited \in 0..(UINT32 - 1) /\ InCons \in 0..(UINT32 - 1)
    BY <1>1, <1>2, AheadIs, Zenon DEF IndexType
  <1>4. /\ cons_r = cons_w <=> Ready = 0
        /\ cons_w = cons_e <=> Edited = 0
        /\ cons_r = cons_e <=> InCons = 0
    <2>1. \A x, y \in 0..(UINT32 - 1) : y = x <=> Ahead(x, y, UINT32) = 0
      BY <1>2, AheadTest, Zenon
    <2> QED
      BY <1>1, <2>1, Zenon DEF IndexType
  <1> QED
    BY <1>1, <1>3, <1>4, Zenon

\* The same after a step.
LEMMA DistancesLater ==
  ASSUME IndexType'
  PROVE  /\ Ready' = Ahead(cons_r', cons_w', UINT32) /\ Ready' \in 0..(UINT32 - 1)
         /\ Edited' = Ahead(cons_w', cons_e', UINT32) /\ Edited' \in 0..(UINT32 - 1)
         /\ InCons' = Ahead(cons_r', cons_e', UINT32) /\ InCons' \in 0..(UINT32 - 1)
  <1>1. /\ Ready' = Ahead(cons_r', cons_w', UINT32) /\ Edited' = Ahead(cons_w', cons_e', UINT32)
        /\ InCons' = Ahead(cons_r', cons_e', UINT32)
    BY Zenon DEF Ready, Edited, InCons, Ahead
  <1> QED
    BY <1>1, ConsConstants, AheadIs, Zenon DEF IndexType

\* The k-th character in the ring, and where it is.
Spot(k) == (cons_r + k) % INPUT_BUF
Nth(k) == cons_buf[Spot(k)]

\* What the ring is about: ConsoleInv without the readers.
ConsRing ==
  /\ IndexType /\ cons_buf \in [0..(INPUT_BUF - 1) -> Char \cup {Nil}]
  /\ InCons = Ready + Edited /\ InCons <= INPUT_BUF
  /\ \A k \in 0..(Edited - 1) : Nth(Ready + k) \notin {"\n", "^D"}
  /\ FullIsCommitted

\* Positions from cons.r and from cons.w.
LEMMA NthIs ==
  ASSUME IndexType
  PROVE  /\ \A k \in Int : Spot(k) \in 0..(INPUT_BUF - 1)
         /\ \A k \in Int : CharAt(cons_w + k) = Nth(Ready + k)
         /\ CharAt(cons_r) = Nth(0)
         /\ Spot(InCons) = cons_e % INPUT_BUF
  <1>1. /\ cons_r \in Int /\ Ready \in Int /\ cons_r + 0 = cons_r
        /\ INPUT_BUF \in Nat \ {0} /\ Divides(INPUT_BUF, UINT32)
    BY ConsConstants, Distances DEF IndexType
  <1>2. ASSUME NEW k \in Int PROVE Spot(k) \in 0..(INPUT_BUF - 1)
    <2>1. cons_r + k \in Int
      BY <1>1
    <2> QED
      BY <1>1, <2>1, DivMod, Zenon DEF Spot
  <1>3. ASSUME NEW k \in Int PROVE CharAt(cons_w + k) = Nth(Ready + k)
    <2>1. (cons_r + (Ahead(cons_r, cons_w, UINT32) + k)) % INPUT_BUF = (cons_w + k) % INPUT_BUF
      BY <1>1, SlotsFromHigh, Zenon DEF IndexType
    <2> QED
      BY <2>1, Distances, Zenon DEF CharAt, Nth, Spot
  <1>4. CharAt(cons_r) = Nth(0)
    BY <1>1 DEF CharAt, Nth, Spot
  <1>5. Spot(InCons) = cons_e % INPUT_BUF
    <2>1. (cons_r + Ahead(cons_r, cons_e, UINT32)) % INPUT_BUF = cons_e % INPUT_BUF
      BY <1>1, SlotOfHigh, Zenon DEF IndexType
    <2> QED
      BY <2>1, Distances, Zenon DEF Spot
  <1> QED
    BY <1>2, <1>3, <1>4, <1>5, Zenon

\* The same, in the words of ConsoleInv.
ConsOrder ==
  /\ InCons = Ready + Edited /\ InCons <= INPUT_BUF
  /\ \A k \in 0..(Edited - 1) : CharAt(cons_w + k) \notin {"\n", "^D"}
  /\ FullIsCommitted

\* ConsoleInv says this of the ring.
LEMMA ConsRingIs == ConsoleTypeOK => (ConsRing <=> ConsOrder)
  <1> SUFFICES ASSUME ConsoleTypeOK PROVE ConsRing <=> ConsOrder
    OBVIOUS
  <1>1. IndexType /\ cons_buf \in [0..(INPUT_BUF - 1) -> Char \cup {Nil}]
    BY Zenon DEF ConsoleTypeOK, IndexType
  <1>2. \A k \in 0..(Edited - 1) : k \in Int
    OBVIOUS
  <1>3. \A k \in 0..(Edited - 1) : CharAt(cons_w + k) = Nth(Ready + k)
    BY <1>1, <1>2, NthIs, Zenon
  <1> QED
    BY <1>1, <1>3, Zenon DEF ConsRing, ConsOrder

\* The same after a step.
LEMMA ConsRingLater == ConsoleTypeOK' => (ConsRing' <=> ConsOrder')
  BY ConsRingIs, PTL

\* What the steps do to the ring: a character is stored, and committed when
\* it ends the line or fills the ring; one is erased; the line is; one is
\* taken.
Same4 == UNCHANGED <<cons_buf, cons_r, cons_w, cons_e>>
Stored(c) ==
  /\ InCons < INPUT_BUF /\ cons_r' = cons_r
  /\ cons_buf' = [cons_buf EXCEPT ![cons_e % INPUT_BUF] = c]
  /\ cons_e' = Bumped(cons_e, UINT32)
  /\ cons_w' = IF Commits(c, Bumped(cons_e, UINT32)) THEN cons_e' ELSE cons_w
Erased ==
  /\ cons_e # cons_w /\ cons_e' = (cons_e - 1) % UINT32
  /\ UNCHANGED <<cons_buf, cons_r, cons_w>>
LineKilled == cons_e' = cons_w /\ UNCHANGED <<cons_buf, cons_r, cons_w>>
Taken ==
  /\ cons_r # cons_w /\ cons_r' = Bumped(cons_r, UINT32)
  /\ UNCHANGED <<cons_buf, cons_w, cons_e>>

\* ^U reaches cons.w, because there is no end of a line before it.
LEMMA KillLineIs ==
  ASSUME ConsRing, KillLine
  PROVE  cons_e' = cons_w
  <1> DEFINE stop(k) == k = Edited \/ CharAt(cons_e - k - 1) = "\n"
             P(n) == stop(n) /\ \A j \in 0..(n - 1) : ~stop(j)
             m == CHOOSE n \in 0..Edited : P(n)
  <1>0. /\ IndexType /\ Edited \in 0..(UINT32 - 1) /\ Edited = Ahead(cons_w, cons_e, UINT32)
        /\ UINT32 \in Nat \ {0} /\ Divides(INPUT_BUF, UINT32) /\ INPUT_BUF \in Nat \ {0}
    BY Distances, ConsConstants, Zenon DEF ConsRing
  <1>1. ASSUME NEW k \in 0..(Edited - 1) PROVE CharAt(cons_e - k - 1) # "\n"
    <2>1. /\ Edited - 1 - k \in 0..(Edited - 1) /\ Edited - 1 - k \in Int
          /\ cons_e - k - 1 \in Int
      BY <1>0 DEF IndexType
    <2>2. CharAt(cons_w + (Edited - 1 - k)) # "\n"
      BY <1>0, <2>1, NthIs, Zenon DEF ConsRing
    <2>3. (cons_w + (Edited - 1 - k)) % INPUT_BUF = (cons_e - k - 1) % INPUT_BUF
      <3>1. Edited = IF cons_w <= cons_e THEN cons_e - cons_w ELSE cons_e - cons_w + UINT32
        BY <1>0, AheadIs, Zenon DEF IndexType
      <3>2. \/ cons_w + (Edited - 1 - k) = cons_e - k - 1
            \/ cons_w + (Edited - 1 - k) = (cons_e - k - 1) + UINT32
        BY <1>0, <3>1 DEF IndexType
      <3>3. ((cons_e - k - 1) + UINT32) % INPUT_BUF = (cons_e - k - 1) % INPUT_BUF
        BY <1>0, <2>1, SlotWraps, Zenon
      <3> QED
        BY <3>2, <3>3, Zenon
    <2> QED
      BY <2>2, <2>3, Zenon DEF CharAt
  <1>2. ~(\E k \in 0..(Edited - 1) : k = Edited)
    BY <1>0
  <1>3. Edited \in 0..Edited /\ P(Edited)
    BY <1>0, <1>1, <1>2
  <1>4. m \in 0..Edited /\ P(m)
    BY <1>3, Zenon
  <1>5. m = Edited
    <2> HIDE DEF m
    <2>1. m = Edited \/ m \in 0..(Edited - 1)
      BY <1>0, <1>4
    <2> QED
      BY <1>1, <1>4, <2>1, Zenon
  <1>6. cons_e' = (cons_e - m) % UINT32
    BY Zenon DEF KillLine, Edited
  <1>7. (cons_e - Ahead(cons_w, cons_e, UINT32)) % UINT32 = cons_w
    BY <1>0, AheadUndo, Zenon DEF IndexType
  <1> HIDE DEF m
  <1> QED
    BY <1>0, <1>5, <1>6, <1>7, Zenon

\* Each step is one of those.
LEMMA ConsSteps ==
  ASSUME ConsoleTypeOK, ConsRing, ConsoleNext
  PROVE  \/ \E c \in Char : Stored(c)
         \/ Erased \/ LineKilled \/ Taken \/ Same4
  <1>1. ASSUME NEW key \in Keys, Consoleintr(key)
        PROVE  (\E c \in Char : Stored(c)) \/ Erased \/ LineKilled
    <2>1. CASE key = "^U" /\ KillLine /\ UNCHANGED <<cons_buf, cons_w, rd>>
      BY <1>1, <2>1, KillLineIs, Zenon DEF LineKilled, Consoleintr
    <2>2. CASE key = "^H" /\ Backspace /\ UNCHANGED <<cons_buf, cons_w, rd>>
      BY <1>1, <2>2, Zenon DEF Erased, Backspace, Consoleintr
    <2>3. CASE key \notin {"^U", "^H"} /\ Store(key)
      <3> DEFINE c == IF key = "\r" THEN "\n" ELSE key
      <3>1. c \in Char
        BY <1>1, <2>3, Zenon DEF Keys, Char
      <3>2. Stored(c)
        BY <1>1, <2>3, Zenon DEF Consoleintr, Store, Stored, Bumped
      <3> QED
        BY <3>1, <3>2, Zenon
    <2> QED
      BY <1>1, <2>1, <2>2, <2>3, Zenon DEF Consoleintr
  <1>2. ASSUME NEW p \in Reader, ReadTake(p) PROVE Taken \/ Same4
    BY <1>2, Zenon DEF ReadTake, PastEof, Taken, Same4, Bumped
  <1>3. ASSUME NEW p \in Reader,
               \/ ReadEmpty(p) \/ ReadSleep(p) \/ KillReader(p)
               \/ \E n \in 1..MaxRead : ReadBegin(p, n)
        PROVE  Same4
    BY <1>3, Zenon DEF ReadEmpty, ReadSleep, KillReader, ReadBegin, Same4
  <1> QED
    BY <1>1, <1>2, <1>3, Zenon DEF ConsoleNext

\* Storing a character: the ring is one longer and ends in it.
LEMMA StoredIs ==
  ASSUME ConsRing, NEW c \in Char, Stored(c)
  PROVE  /\ IndexType' /\ cons_buf' \in [0..(INPUT_BUF - 1) -> Char \cup {Nil}]
         /\ InCons' = InCons + 1 /\ InCons \in Nat
         /\ \A k \in 0..(InCons - 1) : Nth(k)' = Nth(k)
         /\ \A k \in Int : k = InCons => Nth(k)' = c
         /\ IF c \in {"\n", "^D"} \/ InCons + 1 = INPUT_BUF
            THEN Ready' = InCons + 1 /\ Edited' = 0
            ELSE Ready' = Ready /\ Edited' = Edited + 1
  <1> DEFINE N == INPUT_BUF
             e1 == Bumped(cons_e, UINT32)
  <1>0. /\ IndexType /\ cons_buf \in [0..(N - 1) -> Char \cup {Nil}] /\ InCons = Ready + Edited
        /\ UINT32 \in Nat \ {0} /\ N \in Nat \ {0} /\ N \in 0..(UINT32 - 1)
    BY ConsConstants, Zenon DEF ConsRing
  <1>1. /\ Ready \in Nat /\ Edited \in Nat /\ InCons \in Nat /\ InCons < N
        /\ InCons = Ahead(cons_r, cons_e, UINT32) /\ InCons < UINT32 - 1
        /\ Edited = Ahead(cons_w, cons_e, UINT32) /\ Edited < UINT32 - 1
    BY <1>0, Distances DEF Stored
  <1>2. e1 \in 0..(UINT32 - 1)
    BY <1>0, BumpedIs, Zenon DEF IndexType
  <1>3. IndexType'
    BY <1>0, <1>2, Zenon DEF IndexType, Stored
  <1>4. Ahead(cons_r, e1, UINT32) = InCons + 1 /\ Ahead(cons_w, e1, UINT32) = Edited + 1
    BY <1>0, <1>1, AheadPut DEF IndexType
  <1>5. InCons' = InCons + 1
    BY <1>3, <1>4, DistancesLater, Zenon DEF Stored
  <1>6. cons_e % N = Spot(InCons) /\ cons_e % N \in 0..(N - 1)
    BY <1>0, <1>1, NthIs
  <1>7. \A k \in Int : Spot(k)' = Spot(k)
    BY Zenon DEF Spot, Stored
  <1>8. cons_buf' \in [0..(N - 1) -> Char \cup {Nil}]
    BY <1>0, <1>6, Zenon DEF Stored
  <1>9. ASSUME NEW k \in Int, k = InCons PROVE Nth(k)' = c
    <2>1. cons_buf'[cons_e % N] = c
      BY <1>0, <1>6, Zenon DEF Stored
    <2> QED
      BY <1>6, <1>7, <1>9, <2>1, Zenon DEF Nth
  <1>10. ASSUME NEW k \in 0..(InCons - 1) PROVE Nth(k)' = Nth(k)
    <2>1. k \in Int /\ k \in 0..(N - 1) /\ InCons \in 0..(N - 1) /\ k # InCons /\ cons_r \in Int
      <3>1. N \in Nat /\ InCons \in Nat /\ InCons < N
        BY <1>0, <1>1, Zenon
      <3>2. cons_r \in Int
        BY <1>0, SMTT(30) DEF IndexType
      <3> QED
        BY <3>1, <3>2, SMTT(30)
    <2>2. Spot(k) # Spot(InCons) /\ Spot(k) \in 0..(N - 1)
      <3>1. (cons_r + k) % N # (cons_r + InCons) % N
        BY <1>0, <2>1, SlotsDiffer, Zenon
      <3> QED
        BY <1>0, <2>1, <3>1, NthIs, Zenon DEF Spot
    <2>3. cons_buf'[Spot(k)] = cons_buf[Spot(k)]
      BY <1>0, <1>6, <2>2, Zenon DEF Stored
    <2> QED
      BY <1>7, <2>1, <2>3, Zenon DEF Nth
  <1>11. Commits(c, e1) <=> c \in {"\n", "^D"} \/ InCons + 1 = N
    <2>1. e1 = (cons_r + N) % UINT32 <=> Ahead(cons_r, e1, UINT32) = N
      BY <1>0, <1>2, AheadTest DEF IndexType
    <2> QED
      BY <1>4, <2>1, Zenon DEF Commits
  <1>12. CASE Commits(c, e1)
    <2>1. cons_w' = cons_e' /\ cons_e' = e1 /\ cons_r' = cons_r
      BY <1>12, Zenon DEF Stored
    <2>2. Ready' = InCons + 1
      BY <1>3, <1>4, <2>1, DistancesLater, Zenon
    <2>3. Edited' = 0
      <3>1. \A x \in 0..(UINT32 - 1) : (x - x) % UINT32 = 0
        BY <1>0
      <3> QED
        BY <1>2, <2>1, <3>1, Zenon DEF Edited
    <2> QED
      BY <1>1, <1>3, <1>5, <1>8, <1>9, <1>10, <1>11, <1>12, <2>2, <2>3, Zenon
  <1>13. CASE ~Commits(c, e1)
    <2>1. cons_w' = cons_w /\ cons_e' = e1 /\ cons_r' = cons_r
      BY <1>13, Zenon DEF Stored
    <2>2. Ready' = Ready
      BY <2>1, Zenon DEF Ready
    <2>3. Edited' = Edited + 1
      BY <1>3, <1>4, <2>1, DistancesLater, Zenon
    <2> QED
      BY <1>1, <1>3, <1>5, <1>8, <1>9, <1>10, <1>11, <1>13, <2>2, <2>3, Zenon
  <1> QED
    BY <1>12, <1>13, Zenon

\* Erasing one character, or the line.
LEMMA ErasedIs ==
  ASSUME ConsRing, Erased
  PROVE  /\ IndexType' /\ InCons' = InCons - 1 /\ Ready' = Ready /\ Edited' = Edited - 1
         /\ Edited > 0 /\ InCons > 0 /\ \A k \in Int : Nth(k)' = Nth(k)
  <1>0. /\ IndexType /\ InCons = Ready + Edited /\ UINT32 \in Nat \ {0}
    BY ConsConstants, Zenon DEF ConsRing
  <1>1. /\ Ready \in Nat /\ Edited \in Nat /\ InCons = Ahead(cons_r, cons_e, UINT32)
        /\ Edited = Ahead(cons_w, cons_e, UINT32) /\ Edited # 0
    BY <1>0, Distances DEF Erased
  <1>2. Edited > 0 /\ InCons > 0
    BY <1>0, <1>1
  <1>3. cons_r # cons_e /\ cons_w # cons_e
    BY <1>0, <1>2, Distances
  <1>4. /\ (cons_e - 1) % UINT32 \in 0..(UINT32 - 1)
        /\ Ahead(cons_r, (cons_e - 1) % UINT32, UINT32) = InCons - 1
        /\ Ahead(cons_w, (cons_e - 1) % UINT32, UINT32) = Edited - 1
    BY <1>0, <1>1, <1>3, AheadBack DEF IndexType
  <1>5. IndexType'
    BY <1>0, <1>4, Zenon DEF IndexType, Erased
  <1>6. InCons' = InCons - 1 /\ Edited' = Edited - 1
    BY <1>4, <1>5, DistancesLater, Zenon DEF Erased
  <1>7. Ready' = Ready /\ \A k \in Int : Nth(k)' = Nth(k)
    BY Zenon DEF Ready, Erased, Nth, Spot
  <1> QED
    BY <1>2, <1>5, <1>6, <1>7, Zenon

\* See ErasedIs.
LEMMA LineKilledIs ==
  ASSUME ConsRing, LineKilled
  PROVE  /\ IndexType' /\ InCons' = Ready /\ Ready' = Ready /\ Edited' = 0
         /\ \A k \in Int : Nth(k)' = Nth(k)
  <1>0. IndexType /\ UINT32 \in Nat \ {0}
    BY ConsConstants, Zenon DEF ConsRing
  <1>1. IndexType'
    BY <1>0, Zenon DEF IndexType, LineKilled
  <1>2. Ready' = Ready /\ InCons' = Ready /\ \A k \in Int : Nth(k)' = Nth(k)
    BY Zenon DEF Ready, InCons, LineKilled, Nth, Spot
  <1>3. Edited' = 0
    <2>1. \A x \in 0..(UINT32 - 1) : (x - x) % UINT32 = 0
      BY <1>0
    <2> QED
      BY <1>0, <2>1, Zenon DEF Edited, LineKilled, IndexType
  <1> QED
    BY <1>1, <1>2, <1>3, Zenon

\* Taking a character.
LEMMA TakenIs ==
  ASSUME ConsRing, Taken
  PROVE  /\ IndexType' /\ InCons' = InCons - 1 /\ Ready' = Ready - 1 /\ Edited' = Edited
         /\ Ready > 0 /\ \A k \in Int : Nth(k)' = Nth(k + 1)
  <1>0. /\ IndexType /\ InCons = Ready + Edited /\ UINT32 \in Nat \ {0}
        /\ Divides(INPUT_BUF, UINT32)
    BY ConsConstants, Zenon DEF ConsRing
  <1>1. /\ Ready \in Nat /\ Edited \in Nat /\ InCons = Ahead(cons_r, cons_e, UINT32)
        /\ Ready = Ahead(cons_r, cons_w, UINT32) /\ Ready # 0
    BY <1>0, Distances DEF Taken
  <1>2. Ready > 0 /\ InCons > 0
    BY <1>0, <1>1
  <1>3. cons_r # cons_e /\ cons_r # cons_w
    BY <1>0, <1>2, Distances
  <1>4. /\ Bumped(cons_r, UINT32) \in 0..(UINT32 - 1)
        /\ Ahead(Bumped(cons_r, UINT32), cons_e, UINT32) = InCons - 1
        /\ Ahead(Bumped(cons_r, UINT32), cons_w, UINT32) = Ready - 1
    BY <1>0, <1>1, <1>3, AheadTake, BumpedIs DEF IndexType
  <1>5. IndexType'
    BY <1>0, <1>4, Zenon DEF IndexType, Taken
  <1>6. InCons' = InCons - 1 /\ Ready' = Ready - 1
    BY <1>4, <1>5, DistancesLater, Zenon DEF Taken
  <1>7. Edited' = Edited
    BY Zenon DEF Edited, Taken
  <1>8. ASSUME NEW k \in Int PROVE Nth(k)' = Nth(k + 1)
    <2>1. (Bumped(cons_r, UINT32) + k) % INPUT_BUF = (cons_r + (k + 1)) % INPUT_BUF
      BY <1>0, SlotOfNext, Zenon DEF IndexType
    <2> QED
      BY <2>1, Zenon DEF Nth, Spot, Taken
  <1> QED
    BY <1>2, <1>5, <1>6, <1>7, <1>8, Zenon

\* The ring's invariant after a step, from its parts.
LEMMA ConsRingFrom ==
  ASSUME IndexType', cons_buf' \in [0..(INPUT_BUF - 1) -> Char \cup {Nil}],
         InCons' = Ready' + Edited', InCons' <= INPUT_BUF,
         InCons' = INPUT_BUF => Edited' = 0,
         \A k \in 0..(Edited' - 1) : \A j \in Int : j = Ready' + k => Nth(j)' \notin {"\n", "^D"}
  PROVE  ConsRing'
  <1>1. ASSUME Edited' = 0 PROVE cons_w' = cons_e'
    <2>1. \A x, y \in 0..(UINT32 - 1) : y = x <=> Ahead(x, y, UINT32) = 0
      <3>1. UINT32 \in Nat \ {0} /\ 0 \in 0..(UINT32 - 1)
        BY ConsConstants
      <3> QED
        BY <3>1, AheadTest, Zenon
    <2> QED
      BY <1>1, <2>1, DistancesLater, Zenon DEF IndexType
  <1>2. FullIsCommitted'
    BY <1>1, Zenon DEF FullIsCommitted
  <1>3. ASSUME NEW k \in 0..(Edited' - 1) PROVE Nth(Ready + k)' \notin {"\n", "^D"}
    <2>1. Ready' + k \in Int
      BY DistancesLater
    <2>2. PICK j \in Int : j = Ready' + k
      BY <2>1, Zenon
    <2>3. Nth(j)' \notin {"\n", "^D"}
      BY <1>3, <2>2, Zenon
    <2> QED
      BY <2>2, <2>3, Zenon DEF Nth, Spot
  <1> QED
    BY <1>2, <1>3, Zenon DEF ConsRing

\* No step breaks the order of the indices, or leaves an end of a line in the
\* part that can be edited.
LEMMA ConsRingStep ==
  ASSUME ConsRing, (\E c \in Char : Stored(c)) \/ Erased \/ LineKilled \/ Taken \/ Same4
  PROVE  ConsRing'
  <1>0. /\ IndexType /\ cons_buf \in [0..(INPUT_BUF - 1) -> Char \cup {Nil}]
        /\ InCons = Ready + Edited /\ InCons <= INPUT_BUF /\ FullIsCommitted
        /\ INPUT_BUF \in Nat
    BY ConsConstants, Zenon DEF ConsRing
  <1>1. Ready \in Nat /\ Edited \in Nat /\ InCons \in Nat
    BY <1>0, Distances
  <1>2. \A k \in 0..(Edited - 1) : \A j \in Int : j = Ready + k => Nth(j) \notin {"\n", "^D"}
    BY Zenon DEF ConsRing
  <1>3. InCons = INPUT_BUF => Edited = 0
    BY <1>0, Distances, Zenon DEF FullIsCommitted
  <1>4. ASSUME NEW c \in Char, Stored(c) PROVE ConsRing'
    <2>1. /\ IndexType' /\ cons_buf' \in [0..(INPUT_BUF - 1) -> Char \cup {Nil}]
          /\ InCons' = InCons + 1
          /\ \A k \in 0..(InCons - 1) : Nth(k)' = Nth(k)
          /\ \A k \in Int : k = InCons => Nth(k)' = c
      BY <1>4, StoredIs, Zenon
    <2>2. InCons < INPUT_BUF
      BY <1>4, Zenon DEF Stored
    <2>3. CASE c \in {"\n", "^D"} \/ InCons + 1 = INPUT_BUF
      <3>1. Ready' = InCons + 1 /\ Edited' = 0
        BY <1>4, <2>3, StoredIs, Zenon
      <3>2. InCons' = Ready' + Edited' /\ InCons' <= INPUT_BUF /\ 0..(Edited' - 1) = {}
        BY <1>0, <1>1, <2>1, <2>2, <3>1
      <3> QED
        BY <2>1, <3>1, <3>2, ConsRingFrom, Zenon
    <2>4. CASE ~(c \in {"\n", "^D"} \/ InCons + 1 = INPUT_BUF)
      <3>1. Ready' = Ready /\ Edited' = Edited + 1
        BY <1>4, <2>4, StoredIs, Zenon
      <3>2. InCons' = Ready' + Edited' /\ InCons' <= INPUT_BUF /\ InCons' # INPUT_BUF
        BY <1>0, <1>1, <2>1, <2>2, <2>4, <3>1
      <3>3. ASSUME NEW k \in 0..(Edited' - 1), NEW j \in Int, j = Ready' + k
            PROVE  Nth(j)' \notin {"\n", "^D"}
        <4>1. j = Ready + k /\ ((k \in 0..(Edited - 1) /\ j \in 0..(InCons - 1)) \/ j = InCons)
          BY <1>0, <1>1, <3>1, <3>3
        <4> QED
          BY <1>2, <2>1, <2>4, <4>1, Zenon
      <3> QED
        BY <2>1, <3>2, <3>3, ConsRingFrom, Zenon
    <2> QED
      BY <2>3, <2>4, Zenon
  <1>5. CASE Erased
    <2>1. /\ IndexType' /\ InCons' = InCons - 1 /\ Ready' = Ready /\ Edited' = Edited - 1
          /\ Edited > 0 /\ \A k \in Int : Nth(k)' = Nth(k)
      BY <1>5, ErasedIs, Zenon
    <2>2. InCons' = Ready' + Edited' /\ InCons' <= INPUT_BUF /\ InCons' # INPUT_BUF
      BY <1>0, <1>1, <2>1
    <2>3. \A k \in 0..(Edited' - 1) : k \in 0..(Edited - 1)
      BY <1>1, <2>1
    <2>4. cons_buf' = cons_buf
      BY <1>5, Zenon DEF Erased
    <2> QED
      BY <1>0, <1>2, <2>1, <2>2, <2>3, <2>4, ConsRingFrom, Zenon
  <1>6. CASE LineKilled
    <2>1. /\ IndexType' /\ InCons' = Ready /\ Ready' = Ready /\ Edited' = 0
      BY <1>6, LineKilledIs, Zenon
    <2>2. InCons' = Ready' + Edited' /\ InCons' <= INPUT_BUF /\ 0..(Edited' - 1) = {}
      BY <1>0, <1>1, <2>1
    <2>3. cons_buf' = cons_buf
      BY <1>6, Zenon DEF LineKilled
    <2> QED
      BY <1>0, <2>1, <2>2, <2>3, ConsRingFrom, Zenon
  <1>7. CASE Taken
    <2>1. /\ IndexType' /\ InCons' = InCons - 1 /\ Ready' = Ready - 1 /\ Edited' = Edited
          /\ Ready > 0 /\ \A k \in Int : Nth(k)' = Nth(k + 1)
      BY <1>7, TakenIs, Zenon
    <2>2. InCons' = Ready' + Edited' /\ InCons' <= INPUT_BUF /\ InCons' # INPUT_BUF
      BY <1>0, <1>1, <2>1
    <2>3. \A k \in 0..(Edited' - 1) : \A j \in Int :
            j = Ready' + k => k \in 0..(Edited - 1) /\ j + 1 \in Int /\ j + 1 = Ready + k
      BY <1>1, <2>1
    <2>4. cons_buf' = cons_buf
      BY <1>7, Zenon DEF Taken
    <2> QED
      BY <1>0, <1>2, <2>1, <2>2, <2>3, <2>4, ConsRingFrom, Zenon
  <1>8. CASE Same4
    BY <1>8, Zenon DEF Same4, ConsRing, IndexType, InCons, Ready, Edited, Nth, Spot, FullIsCommitted
  <1> QED
    BY <1>4, <1>5, <1>6, <1>7, <1>8, Zenon

\* What ConsoleInv says of the readers, and their types.
ReaderType ==
  /\ cons_lock \in Reader \cup {Nil} /\ doomed \subseteq Reader
  /\ rd \in [Reader -> [pc : {"idle", "run", "sleep", "asleep"},
                        target : 0..MaxRead, n : 0..MaxRead]]
ReaderOK(p) ==
  /\ rd[p].n <= rd[p].target
  /\ rd[p].pc = "sleep" => cons_lock = p
  /\ rd[p].pc \in {"sleep", "asleep"} => cons_r = cons_w
Readers == \A p \in Reader : ReaderOK(p)

\* A step of one reader, as the others see it.
ReaderMoves(p, r) ==
  /\ rd' = [rd EXCEPT ![p] = r]
  /\ r \in [pc : {"idle", "run", "sleep", "asleep"}, target : 0..MaxRead, n : 0..MaxRead]
  /\ r.n <= r.target
  /\ doomed' \in SUBSET Reader /\ cons_lock' \in {Nil, p, cons_lock}
  /\ r.pc = "sleep" => cons_lock' = p
  /\ r.pc \in {"sleep", "asleep"} => cons_r' = cons_w'
  /\ cons_lock' = cons_lock \/ cons_lock \in {Nil, p}
  /\ UNCHANGED <<cons_r, cons_w>> \/ cons_r # cons_w

\* The readers' part of the invariant over such a step.
LEMMA ReaderMovesOK ==
  ASSUME ReaderType, Readers, NEW p \in Reader, NEW r, ReaderMoves(p, r)
  PROVE  ReaderType' /\ Readers'
  <1>0. Nil \notin Reader
    BY ConsoleAssumption, Zenon
  <1>1. ReaderType'
    BY Zenon DEF ReaderType, ReaderMoves
  <1>2. rd'[p] = r
    BY Zenon DEF ReaderType, ReaderMoves
  <1>3. ReaderOK(p)'
    BY <1>2, Zenon DEF ReaderOK, ReaderMoves
  <1>4. ASSUME NEW q \in Reader, q # p PROVE ReaderOK(q)'
    <2>1. rd'[q] = rd[q]
      BY <1>4, Zenon DEF ReaderType, ReaderMoves
    <2>2. ReaderOK(q)
      BY Zenon DEF Readers
    <2> QED
      BY <1>0, <1>4, <2>1, <2>2, Zenon DEF ReaderOK, ReaderMoves
  <1>5. Readers'
    BY <1>3, <1>4, Zenon DEF Readers
  <1> QED
    BY <1>1, <1>5, Zenon

\* A character typed: no reader is on the way to sleep, and those that sleep
\* are woken by a commit.
LEMMA IntrReaders ==
  ASSUME ReaderType, Readers, NEW key \in Keys, Consoleintr(key)
  PROVE  ReaderType' /\ Readers'
  <1>0. Nil \notin Reader /\ cons_lock = Nil /\ UNCHANGED <<cons_r, cons_lock, doomed>>
    BY ConsoleAssumption, Zenon DEF Consoleintr
  <1>1. CASE UNCHANGED <<cons_w, rd>>
    BY <1>0, <1>1, Zenon DEF ReaderType, Readers, ReaderOK
  <1>2. CASE WakeReaders
    <2>1. ASSUME NEW q \in Reader
          PROVE  /\ rd'[q] \in [pc : {"idle", "run", "sleep", "asleep"},
                                target : 0..MaxRead, n : 0..MaxRead]
                 /\ rd'[q].n = rd[q].n /\ rd'[q].target = rd[q].target
                 /\ rd'[q].pc \notin {"sleep", "asleep"}
      <3>1. rd'[q] = IF rd[q].pc = "asleep" THEN [rd[q] EXCEPT !.pc = "run"] ELSE rd[q]
        BY <1>2, Zenon DEF WakeReaders
      <3>2. rd[q].pc # "sleep"
        BY <1>0, Zenon DEF Readers, ReaderOK
      <3>3. rd[q] \in [pc : {"idle", "run", "sleep", "asleep"}, target : 0..MaxRead, n : 0..MaxRead]
        BY Zenon DEF ReaderType
      <3> QED
        BY <3>1, <3>2, <3>3
    <2>2. DOMAIN rd' = Reader /\ rd' = [q \in Reader |-> rd'[q]]
      BY <1>2, Zenon DEF WakeReaders
    <2>3. ReaderType'
      BY <1>0, <2>1, <2>2, Zenon DEF ReaderType
    <2>4. Readers'
      BY <2>1, Zenon DEF Readers, ReaderOK
    <2> QED
      BY <2>3, <2>4, Zenon
  <1> QED
    BY <1>1, <1>2, Zenon DEF Consoleintr, Store

\* The steps of consoleread() and of kill().
LEMMA ReaderSteps ==
  ASSUME ReaderType, Readers, NEW p \in Reader,
         \/ \E n \in 1..MaxRead : ReadBegin(p, n)
         \/ ReadEmpty(p) \/ ReadSleep(p) \/ ReadTake(p) \/ KillReader(p)
  PROVE  \E r : ReaderMoves(p, r)
  <1> DEFINE Rec == [pc : {"idle", "run", "sleep", "asleep"}, target : 0..MaxRead, n : 0..MaxRead]
             Go(x) == [rd[p] EXCEPT !.pc = x]
  <1>0. /\ rd[p] \in Rec /\ rd[p].n <= rd[p].target
        /\ rd[p].pc = "sleep" => cons_lock = p
        /\ rd[p].pc \in {"sleep", "asleep"} => cons_r = cons_w
        /\ doomed \in SUBSET Reader /\ MaxRead \in Nat
    BY ConsoleAssumption, Zenon DEF ReaderType, Readers, ReaderOK
  <1>1. NotReading \in Rec /\ NotReading.n <= NotReading.target /\ NotReading.pc = "idle"
    BY <1>0 DEF NotReading
  <1>2. \A x \in {"run", "sleep", "asleep"} :
          Go(x) \in Rec /\ Go(x).n <= Go(x).target /\ Go(x).pc = x
    BY <1>0
  <1> HIDE DEF Rec
  <1>3. ASSUME NEW n \in 1..MaxRead, ReadBegin(p, n) PROVE \E r : ReaderMoves(p, r)
    <2> DEFINE r == [pc |-> "run", target |-> n, n |-> n]
    <2>1. r \in Rec /\ r.n <= r.target /\ r.pc = "run"
      BY <1>0 DEF Rec
    <2>2. rd' = [rd EXCEPT ![p] = r] /\ UNCHANGED <<cons_r, cons_w, cons_lock, doomed>>
      BY <1>3, Zenon DEF ReadBegin
    <2> HIDE DEF r
    <2> QED
      BY <1>0, <2>1, <2>2, Zenon DEF ReaderMoves, Rec
  <1>4. CASE ReadEmpty(p)
    <2>1. CASE p \in doomed
      BY <1>0, <1>1, <1>4, <2>1, Zenon DEF ReadEmpty, HasCons, ReaderMoves, Rec
    <2>2. CASE p \notin doomed
      <3>1. rd' = [rd EXCEPT ![p] = Go("sleep")] /\ cons_lock' = p /\ UNCHANGED <<cons_r, cons_w, doomed>>
        BY <1>4, <2>2, Zenon DEF ReadEmpty
      <3>2. cons_lock \in {Nil, p} /\ cons_r = cons_w
        BY <1>4, Zenon DEF ReadEmpty, HasCons
      <3> HIDE DEF Go
      <3> QED
        BY <1>0, <1>2, <3>1, <3>2, Zenon DEF ReaderMoves, Rec
    <2> QED
      BY <2>1, <2>2, Zenon
  <1>5. CASE ReadSleep(p)
    <2>1. rd' = [rd EXCEPT ![p] = Go("asleep")] /\ cons_lock' = Nil /\ UNCHANGED <<cons_r, cons_w, doomed>>
      BY <1>5, Zenon DEF ReadSleep
    <2>2. cons_lock = p /\ cons_r = cons_w
      BY <1>0, <1>5, Zenon DEF ReadSleep
    <2> HIDE DEF Go
    <2> QED
      BY <1>0, <1>2, <2>1, <2>2, Zenon DEF ReaderMoves, Rec
  <1>6. CASE ReadTake(p)
    <2>1. /\ cons_r # cons_w /\ cons_lock \in {Nil, p} /\ rd[p].n > 0 /\ rd[p].pc = "run"
          /\ doomed' = doomed
      BY <1>6, Zenon DEF ReadTake, HasCons
    <2>2. CASE rd' = [rd EXCEPT ![p] = NotReading] /\ cons_lock' = Nil
      BY <1>0, <1>1, <2>1, <2>2, Zenon DEF ReaderMoves, Rec
    <2>3. CASE rd' = [rd EXCEPT ![p].n = @ - 1] /\ cons_lock' = p
      <3> DEFINE r == [rd[p] EXCEPT !.n = @ - 1]
      <3>1. rd' = [rd EXCEPT ![p] = r]
        BY <2>3, Zenon
      <3>2. r \in Rec /\ r.n <= r.target /\ r.pc = "run"
        BY <1>0, <2>1 DEF Rec
      <3> HIDE DEF r
      <3> QED
        BY <1>0, <2>1, <2>3, <3>1, <3>2, Zenon DEF ReaderMoves, Rec
    <2> QED
      BY <1>6, <2>2, <2>3, Zenon DEF ReadTake
  <1>7. CASE KillReader(p)
    <2>0. doomed' \in SUBSET Reader /\ UNCHANGED <<cons_r, cons_w, cons_lock>>
      BY <1>0, <1>7, Zenon DEF KillReader
    <2>1. CASE rd[p].pc = "asleep"
      <3>1. rd' = [rd EXCEPT ![p] = Go("run")]
        BY <1>7, <2>1, Zenon DEF KillReader
      <3> HIDE DEF Go
      <3> QED
        BY <1>0, <1>2, <2>0, <3>1, Zenon DEF ReaderMoves, Rec
    <2>2. CASE rd[p].pc # "asleep"
      <3>1. rd' = [rd EXCEPT ![p] = [rd[p] EXCEPT !.pc = rd[p].pc]]
        BY <1>7, <2>2, Zenon DEF KillReader
      <3>2. [rd[p] EXCEPT !.pc = rd[p].pc] = rd[p]
        BY <1>0 DEF Rec
      <3>3. rd' = [rd EXCEPT ![p] = rd[p]]
        BY <3>1, <3>2, Zenon
      <3> QED
        BY <1>0, <2>0, <3>3, Zenon DEF ReaderMoves, Rec
    <2> QED
      BY <2>1, <2>2, Zenon
  <1> QED
    BY <1>3, <1>4, <1>5, <1>6, <1>7, Zenon

\* The invariant in these words.
LEMMA ConsoleInvIs == ConsoleInv <=> ConsRing /\ ReaderType /\ Readers
  <1>1. ConsoleTypeOK <=> /\ cons_buf \in [0..(INPUT_BUF - 1) -> Char \cup {Nil}]
                          /\ IndexType /\ ReaderType
    BY Zenon DEF ConsoleTypeOK, IndexType, ReaderType
  <1>2. ConsoleInv <=> ConsoleTypeOK /\ ConsOrder /\ Readers
    BY Zenon DEF ConsoleInv, ConsOrder, Readers, ReaderOK
  <1>3. ConsRing => cons_buf \in [0..(INPUT_BUF - 1) -> Char \cup {Nil}] /\ IndexType
    BY Zenon DEF ConsRing
  <1> QED
    BY <1>1, <1>2, <1>3, ConsRingIs, Zenon

\* The same after a step.
LEMMA ConsoleInvLater == ConsoleInv' <=> ConsRing' /\ ReaderType' /\ Readers'
  BY ConsoleInvIs, PTL

\* consoleinit().
LEMMA ConsoleInitInv == ConsoleInit => ConsoleInv
  <1> SUFFICES ASSUME ConsoleInit PROVE ConsoleInv
    OBVIOUS
  <1>1. /\ UINT32 \in Nat \ {0} /\ INPUT_BUF \in Nat \ {0} /\ MaxRead \in Nat
    BY ConsConstants, ConsoleAssumption
  <1>2. 0 \in 0..(UINT32 - 1) /\ 0 # INPUT_BUF /\ 0 <= INPUT_BUF /\ 0 = 0 + 0 /\ 0..(0 - 1) = {}
    BY <1>1
  <1>3. IndexType
    BY <1>2, Zenon DEF IndexType, ConsoleInit
  <1>4. Ready = 0 /\ Edited = 0 /\ InCons = 0
    BY <1>3, Distances, Zenon DEF ConsoleInit
  <1>5. cons_buf \in [0..(INPUT_BUF - 1) -> Char \cup {Nil}]
    BY Zenon DEF ConsoleInit
  <1>6. ConsRing
    BY <1>2, <1>3, <1>4, <1>5, Zenon DEF ConsRing, FullIsCommitted
  <1>7. NotReading \in [pc : {"idle", "run", "sleep", "asleep"}, target : 0..MaxRead, n : 0..MaxRead]
        /\ NotReading.n <= NotReading.target /\ NotReading.pc = "idle"
    BY <1>1 DEF NotReading
  <1>8. ReaderType /\ Readers
    BY <1>7, Zenon DEF ReaderType, Readers, ReaderOK, ConsoleInit
  <1> QED
    BY <1>6, <1>8, ConsoleInvIs, Zenon

\* ConsoleInv holds for any number of readers, any buffer size that divides
\* the range of the indices and reads of any length.
THEOREM ConsoleInvariant == ConsoleSpec => []ConsoleInv
  <1>1. ASSUME ConsoleInv, UNCHANGED consolevars PROVE ConsoleInv'
    BY <1>1, Zenon DEF consolevars, ConsoleInv, ConsoleTypeOK, FullIsCommitted, InCons, Ready, Edited, CharAt
  <1>2. ASSUME ConsoleInv, ConsoleNext PROVE ConsoleInv'
    <2>0. ConsoleTypeOK /\ ConsRing /\ ReaderType /\ Readers
      BY <1>2, ConsoleInvIs, Zenon DEF ConsoleInv
    <2>1. ConsRing'
      BY <1>2, <2>0, ConsSteps, ConsRingStep, Zenon
    <2>2. ASSUME NEW key \in Keys, Consoleintr(key) PROVE ReaderType' /\ Readers'
      BY <2>0, <2>2, IntrReaders, Zenon
    <2>3. ASSUME NEW p \in Reader,
                 \/ \E n \in 1..MaxRead : ReadBegin(p, n)
                 \/ ReadEmpty(p) \/ ReadSleep(p) \/ ReadTake(p) \/ KillReader(p)
          PROVE  ReaderType' /\ Readers'
      BY <2>0, <2>3, ReaderSteps, ReaderMovesOK, Zenon
    <2> QED
      BY <1>2, <2>1, <2>2, <2>3, ConsoleInvLater, Zenon DEF ConsoleNext
  <1>3. ConsoleInv /\ [ConsoleNext]_consolevars => ConsoleInv'
    BY <1>1, <1>2, Zenon
  <1> QED
    BY <1>3, ConsoleInitInv, PTL DEF ConsoleSpec

\* Nobody sleeps in consoleread() while there is something to read, and the
\* keyboard is never dead: a full buffer has been handed to the readers.
THEOREM InputIsSafe == ConsoleSpec => []ReaderMustWait
  <1>1. ConsoleInv => ReaderMustWait
    BY Zenon DEF ConsoleInv, ReaderMustWait, AsleepForNothing
  <1> QED
    BY <1>1, ConsoleInvariant, PTL

-----------------------------------------------------------------------------
(* The console is a line discipline *)

\* The line that can be edited and the part that has been committed.
Line == Chars(cons_w, Edited)
Committed == Chars(cons_r, Ready)

\* Both as sequences of the characters in the ring.
LinesAre ==
  /\ Ready \in Nat /\ Edited \in Nat
  /\ Line \in Seq(Char \cup {Nil}) /\ Len(Line) = Edited
  /\ \A k \in 1..Edited : \A j \in Int : j = Ready + (k - 1) => Line[k] = Nth(j)
  /\ Committed \in Seq(Char \cup {Nil}) /\ Len(Committed) = Ready
  /\ \A k \in 1..Ready : \A j \in Int : j = k - 1 => Committed[k] = Nth(j)

\* They follow each other in the ring.
LEMMA LinesFollow == ConsRing => LinesAre
  <1> SUFFICES ASSUME ConsRing PROVE LinesAre
    OBVIOUS
  <1> DEFINE S == Char \cup {Nil}
  <1>0. IndexType /\ cons_buf \in [0..(INPUT_BUF - 1) -> S]
    BY Zenon DEF ConsRing
  <1>1. Ready \in Nat /\ Edited \in Nat /\ cons_r \in Int /\ cons_w \in Int
    BY <1>0, Distances DEF IndexType
  <1>2. ASSUME NEW k \in Int PROVE Nth(k) \in S
    BY <1>0, NthIs, Zenon DEF Nth
  <1>3. ASSUME NEW k \in 1..Edited
        PROVE  /\ CharAt(cons_w + k - 1) = Nth(Ready + (k - 1))
               /\ CharAt(cons_w + k - 1) \in S
    <2>1. cons_w + k - 1 = cons_w + (k - 1) /\ k - 1 \in Int /\ Ready + (k - 1) \in Int
      BY <1>1
    <2> QED
      BY <1>0, <1>2, <2>1, NthIs, Zenon
  <1>4. ASSUME NEW k \in 1..Ready
        PROVE  CharAt(cons_r + k - 1) = Nth(k - 1) /\ CharAt(cons_r + k - 1) \in S
    <2>1. cons_r + k - 1 = cons_r + (k - 1) /\ k - 1 \in Int
      BY <1>1
    <2> QED
      BY <1>2, <2>1, Zenon DEF CharAt, Nth, Spot
  <1> HIDE DEF S
  <1>5. Line \in [1..Edited -> S] /\ \A k \in 1..Edited : Line[k] = Nth(Ready + (k - 1))
    BY <1>3, Zenon DEF Line, Chars
  <1>6. Committed \in [1..Ready -> S] /\ \A k \in 1..Ready : Committed[k] = Nth(k - 1)
    BY <1>4, Zenon DEF Committed, Chars
  <1>7. Line \in Seq(S) /\ Len(Line) = Edited /\ Committed \in Seq(S) /\ Len(Committed) = Ready
    BY <1>1, <1>5, <1>6, SeqOf, Zenon
  <1> QED
    BY <1>1, <1>5, <1>6, <1>7, Zenon DEF LinesAre, S

\* The same after a step.
LEMMA LinesFollowLater == ConsRing' => LinesAre'
  BY LinesFollow, PTL

\* See SeqAppend.
LEMMA SeqCat ==
  ASSUME NEW S, NEW s \in Seq(S), NEW t \in Seq(S)
  PROVE  /\ s \o t \in Seq(S) /\ Len(s \o t) = Len(s) + Len(t)
         /\ \A k \in 1..Len(s) : (s \o t)[k] = s[k]
         /\ \A k \in 1..Len(t) : (s \o t)[Len(s) + k] = t[k]
  OBVIOUS

\* See SeqAppend.
LEMMA SeqFront ==
  ASSUME NEW S, NEW s \in Seq(S), NEW m \in Nat, m <= Len(s)
  PROVE  /\ SubSeq(s, 1, m) \in Seq(S) /\ Len(SubSeq(s, 1, m)) = m
         /\ \A k \in 1..m : SubSeq(s, 1, m)[k] = s[k]
  OBVIOUS

\* A line is unchanged when its length and its characters are.
LEMMA LineKept ==
  ASSUME LinesAre, LinesAre', Edited' = Edited,
         \A k \in 1..Edited : \A j, i \in Int :
           j = Ready' + (k - 1) /\ i = Ready + (k - 1) => Nth(j)' = Nth(i)
  PROVE  Line' = Line
  <1>0. Ready \in Nat /\ Edited \in Nat /\ Ready' \in Nat
    BY Zenon DEF LinesAre
  <1>1. ASSUME NEW k \in 1..Edited PROVE Line'[k] = Line[k]
    <2>1. Ready' + (k - 1) \in Int /\ Ready + (k - 1) \in Int
      BY <1>0
    <2>2. PICK j \in Int : j = Ready' + (k - 1)
      BY <2>1, Zenon
    <2>3. PICK i \in Int : i = Ready + (k - 1)
      BY <2>1, Zenon
    <2>4. Line'[k] = Nth(j)' /\ Line[k] = Nth(i)
      BY <2>2, <2>3, Zenon DEF LinesAre
    <2> QED
      BY <2>2, <2>3, <2>4, Zenon
  <1>2. /\ Line \in Seq(Char \cup {Nil}) /\ Line' \in Seq(Char \cup {Nil})
        /\ Len(Line') = Edited /\ Len(Line) = Edited
    BY Zenon DEF LinesAre
  <1> QED
    BY <1>1, <1>2, SeqSame, Zenon

\* See LineKept.
LEMMA CommittedKept ==
  ASSUME LinesAre, LinesAre', Ready' = Ready,
         \A k \in 0..(Ready - 1) : Nth(k)' = Nth(k)
  PROVE  Committed' = Committed
  <1>0. Ready \in Nat
    BY Zenon DEF LinesAre
  <1>1. ASSUME NEW k \in 1..Ready PROVE Committed'[k] = Committed[k]
    <2>1. k - 1 \in Int /\ k - 1 \in 0..(Ready - 1)
      BY <1>0
    <2>2. PICK j \in Int : j = k - 1
      BY <2>1, Zenon
    <2>3. Committed'[k] = Nth(j)' /\ Committed[k] = Nth(j)
      BY <2>2, Zenon DEF LinesAre
    <2> QED
      BY <2>1, <2>2, <2>3, Zenon
  <1>2. /\ Committed \in Seq(Char \cup {Nil}) /\ Committed' \in Seq(Char \cup {Nil})
        /\ Len(Committed') = Ready /\ Len(Committed) = Ready
    BY Zenon DEF LinesAre
  <1> QED
    BY <1>1, <1>2, SeqSame, Zenon

\* A character that is stored is typed.
LEMMA StoredRefines ==
  ASSUME ConsRing, LinesAre, LinesAre', NEW c \in Char, Stored(c)
  PROVE  T!Type(c)
  <1> DEFINE S == Char \cup {Nil}
             a == Append(Line, c)
  <1>0. /\ Ready \in Nat /\ Edited \in Nat /\ InCons = Ready + Edited /\ InCons < INPUT_BUF
        /\ Line \in Seq(S) /\ Len(Line) = Edited
        /\ Committed \in Seq(S) /\ Len(Committed) = Ready /\ c \in S
    BY Zenon DEF ConsRing, Stored, LinesAre
  <1>1. /\ \A k \in 0..(InCons - 1) : Nth(k)' = Nth(k)
        /\ \A k \in Int : k = InCons => Nth(k)' = c
    BY StoredIs, Zenon
  <1>2. /\ a \in Seq(S) /\ Len(a) = Edited + 1
        /\ \A k \in 1..Edited : a[k] = Line[k]
        /\ a[Edited + 1] = c
    <2>1. /\ a \in Seq(S) /\ Len(a) = Len(Line) + 1
          /\ \A k \in 1..Len(Line) : a[k] = Line[k]
          /\ a[Len(Line) + 1] = c
      <3>1. Line \in Seq(S) /\ c \in S
        BY <1>0, Zenon
      <3> HIDE DEF S
      <3> QED
        BY <3>1, SeqAppend
    <2> QED
      BY <1>0, <2>1
  <1> HIDE DEF a
  <1>3. ASSUME NEW k \in 1..(Edited + 1), NEW j \in Int, j = Ready + (k - 1)
        PROVE  a[k] = Nth(j)'
    <2>1. \/ k \in 1..Edited /\ j \in 0..(InCons - 1)
          \/ k = Edited + 1 /\ j = InCons
      BY <1>0, <1>3
    <2>2. k \in 1..Edited => Line[k] = Nth(j)
      BY <1>3, Zenon DEF LinesAre
    <2> QED
      BY <1>1, <1>2, <2>1, <2>2, Zenon
  <1>4. Len(Line) + Len(Committed) + 1 = INPUT_BUF <=> InCons + 1 = INPUT_BUF
    BY <1>0
  <1>5. Len(Line) + Len(Committed) < INPUT_BUF
    BY <1>0
  <1>6. CASE c \in {"\n", "^D"} \/ InCons + 1 = INPUT_BUF
    <2>1. Ready' = InCons + 1 /\ Edited' = 0
      BY <1>6, StoredIs, Zenon
    <2> DEFINE b == Committed \o a
    <2>2. /\ b \in Seq(S) /\ Len(b) = Ready + (Edited + 1)
          /\ \A k \in 1..Ready : b[k] = Committed[k]
          /\ \A k \in 1..(Edited + 1) : b[Ready + k] = a[k]
      <3>1. /\ b \in Seq(S) /\ Len(b) = Len(Committed) + Len(a)
            /\ \A k \in 1..Len(Committed) : b[k] = Committed[k]
            /\ \A k \in 1..Len(a) : b[Len(Committed) + k] = a[k]
        <4>1. Committed \in Seq(S) /\ a \in Seq(S)
          BY <1>0, <1>2, Zenon
        <4> HIDE DEF S
        <4> QED
          BY <4>1, SeqCat
      <3> QED
        BY <1>0, <1>2, <3>1, Zenon
    <2> HIDE DEF b
    <2>3. ASSUME NEW k \in 1..Ready' PROVE Committed'[k] = b[k]
      <3>1. k - 1 \in Int /\ k - Ready \in Int
        BY <1>0
      <3>2. PICK j \in Int : j = k - 1
        BY <3>1, Zenon
      <3>3. Committed'[k] = Nth(j)'
        BY <3>2, Zenon DEF LinesAre
      <3>4. CASE k \in 1..Ready
        <4>1. j \in 0..(InCons - 1)
          BY <1>0, <3>2, <3>4
        <4>2. Committed[k] = Nth(j)
          BY <3>2, <3>4, Zenon DEF LinesAre
        <4> QED
          BY <1>1, <2>2, <3>3, <3>4, <4>1, <4>2, Zenon
      <3>5. CASE k \notin 1..Ready
        <4>1. PICK m \in Int : m = k - Ready
          BY <3>1, Zenon
        <4>2. m \in 1..(Edited + 1) /\ j = Ready + (m - 1) /\ k = Ready + m
          BY <1>0, <2>1, <3>2, <3>5, <4>1
        <4>3. a[m] = Nth(j)' /\ b[k] = a[m]
          BY <1>3, <2>2, <4>2, Zenon
        <4> QED
          BY <3>3, <4>3, Zenon
      <3> QED
        BY <3>4, <3>5, Zenon
    <2>4. Len(b) = Ready'
      BY <1>0, <2>1, <2>2
    <2>5. Committed' = b
      BY <2>2, <2>3, <2>4, SeqSame, Zenon DEF LinesAre
    <2>6. Line' = <<>>
      <3>1. Line' \in Seq(S) /\ Len(Line') = 0
        BY <2>1, Zenon DEF LinesAre
      <3> QED
        BY <3>1
    <2> QED
      BY <1>4, <1>5, <1>6, <2>5, <2>6, Zenon DEF T!Type, a, b, Line, Committed
  <1>7. CASE ~(c \in {"\n", "^D"} \/ InCons + 1 = INPUT_BUF)
    <2>1. Ready' = Ready /\ Edited' = Edited + 1
      BY <1>7, StoredIs, Zenon
    <2>2. Committed' = Committed
      <3>1. \A k \in 0..(Ready - 1) : k \in 0..(InCons - 1)
        BY <1>0
      <3> QED
        BY <1>1, <2>1, <3>1, CommittedKept, Zenon
    <2>3. ASSUME NEW k \in 1..(Edited + 1) PROVE Line'[k] = a[k]
      <3>1. Ready + (k - 1) \in Int
        BY <1>0
      <3>2. PICK j \in Int : j = Ready + (k - 1)
        BY <3>1, Zenon
      <3>3. Line'[k] = Nth(j)'
        BY <2>1, <3>2, Zenon DEF LinesAre
      <3> QED
        BY <1>3, <3>2, <3>3, Zenon
    <2>4. Line' = a
      BY <1>2, <2>1, <2>3, SeqSame, Zenon DEF LinesAre
    <2> QED
      BY <1>4, <1>5, <1>7, <2>2, <2>4, Zenon DEF T!Type, a, Line, Committed
  <1> QED
    BY <1>6, <1>7, Zenon

\* ^H takes the last character of the line.
LEMMA ErasedRefines ==
  ASSUME ConsRing, LinesAre, LinesAre', Erased
  PROVE  T!Erase
  <1> DEFINE S == Char \cup {Nil}
             f == SubSeq(Line, 1, Len(Line) - 1)
  <1>0. /\ Ready \in Nat /\ Edited \in Nat /\ Line \in Seq(S) /\ Len(Line) = Edited
        /\ Line' \in Seq(S) /\ Len(Line') = Edited'
    BY Zenon DEF LinesAre
  <1>1. /\ Ready' = Ready /\ Edited' = Edited - 1 /\ Edited > 0
        /\ \A k \in Int : Nth(k)' = Nth(k)
    BY ErasedIs, Zenon
  <1>2. Committed' = Committed
    <2>1. \A k \in 0..(Ready - 1) : k \in Int
      BY <1>0
    <2> QED
      BY <1>1, <2>1, CommittedKept, Zenon
  <1>3. Line # <<>> /\ Edited - 1 \in Nat /\ Edited - 1 <= Edited /\ Len(Line) - 1 = Edited - 1
    BY <1>0, <1>1
  <1>4. /\ f \in Seq(S) /\ Len(f) = Edited - 1
        /\ \A k \in 1..(Edited - 1) : f[k] = Line[k]
    <2> HIDE DEF S
    <2> QED
      BY <1>0, <1>3, SeqFront
  <1> HIDE DEF f
  <1>5. ASSUME NEW k \in 1..(Edited - 1) PROVE Line'[k] = f[k]
    <2>1. Ready + (k - 1) \in Int /\ k \in 1..Edited
      BY <1>0
    <2>2. PICK j \in Int : j = Ready + (k - 1)
      BY <2>1, Zenon
    <2>3. Line'[k] = Nth(j)' /\ Line[k] = Nth(j)
      BY <1>1, <2>1, <2>2, Zenon DEF LinesAre
    <2> QED
      BY <1>1, <1>4, <2>3, Zenon
  <1>6. Line' = f
    BY <1>0, <1>1, <1>4, <1>5, SeqSame, Zenon
  <1> QED
    BY <1>2, <1>3, <1>6, Zenon DEF T!Erase, f, Line, Committed

\* ^U takes the line.
LEMMA LineKilledRefines ==
  ASSUME ConsRing, LinesAre, LinesAre', LineKilled
  PROVE  T!KillLine
  <1>1. Ready' = Ready /\ Edited' = 0 /\ \A k \in Int : Nth(k)' = Nth(k)
    BY LineKilledIs, Zenon
  <1>2. Committed' = Committed
    <2>1. \A k \in 0..(Ready - 1) : k \in Int
      OBVIOUS
    <2> QED
      BY <1>1, <2>1, CommittedKept, Zenon
  <1>3. Line' = <<>>
    <2>1. Line' \in Seq(Char \cup {Nil}) /\ Len(Line') = 0
      BY <1>1, Zenon DEF LinesAre
    <2> QED
      BY <2>1
  <1> QED
    BY <1>2, <1>3, Zenon DEF T!KillLine, Line, Committed

\* consoleread() takes the first of what is committed.
LEMMA TakenRefines ==
  ASSUME ConsRing, LinesAre, LinesAre', Taken
  PROVE  T!Read
  <1> DEFINE S == Char \cup {Nil}
             t == Tail(Committed)
  <1>0. /\ Ready \in Nat /\ Edited \in Nat /\ Committed \in Seq(S) /\ Len(Committed) = Ready
        /\ Committed' \in Seq(S) /\ Len(Committed') = Ready'
    BY Zenon DEF LinesAre
  <1>1. /\ Ready' = Ready - 1 /\ Edited' = Edited /\ Ready > 0
        /\ \A k \in Int : Nth(k)' = Nth(k + 1)
    BY TakenIs, Zenon
  <1>2. Line' = Line
    <2>1. \A k \in 1..Edited : \A j, i \in Int :
            j = Ready' + (k - 1) /\ i = Ready + (k - 1) => i = j + 1
      BY <1>0, <1>1
    <2> QED
      BY <1>1, <2>1, LineKept, Zenon
  <1>3. Committed # <<>>
    BY <1>0, <1>1
  <1>4. /\ t \in Seq(S) /\ Len(t) = Ready - 1
        /\ \A k \in 1..(Ready - 1) : t[k] = Committed[k + 1]
    <2> HIDE DEF S
    <2> QED
      BY <1>0, <1>3, SeqTail
  <1> HIDE DEF t
  <1>5. ASSUME NEW k \in 1..(Ready - 1) PROVE Committed'[k] = t[k]
    <2>1. k - 1 \in Int /\ k + 1 \in 1..Ready /\ (k + 1) - 1 = (k - 1) + 1 /\ (k - 1) + 1 \in Int
      BY <1>0
    <2>2. PICK j \in Int : j = k - 1
      BY <2>1, Zenon
    <2>3. Committed'[k] = Nth(j)'
      BY <1>1, <2>2, Zenon DEF LinesAre
    <2>4. Committed[k + 1] = Nth(j + 1)
      BY <2>1, <2>2, Zenon DEF LinesAre
    <2> QED
      BY <1>1, <1>4, <2>3, <2>4, Zenon
  <1>6. Committed' = t
    BY <1>0, <1>1, <1>4, <1>5, SeqSame, Zenon
  <1> QED
    BY <1>2, <1>3, <1>6, Zenon DEF T!Read, t, Line, Committed

\* A ^D is used up only by a read that has taken nothing.
LEMMA EofStep ==
  ASSUME ConsoleInv, ConsoleNext
  PROVE  EofIsEmptyReadStep
  <1>0. ReaderType /\ Readers
    BY ConsoleInvIs, Zenon
  <1> SUFFICES ASSUME NEW p \in Reader, rd[p].pc = "run", cons_r' # cons_r,
                      CharAt(cons_r) = "^D", rd'[p] = NotReading
               PROVE  rd[p].n = rd[p].target
    BY Zenon DEF EofIsEmptyReadStep
  <1>1. PICK q \in Reader : ReadTake(q)
    BY Zenon DEF ConsoleNext, Consoleintr, ReadBegin, ReadEmpty, ReadSleep, KillReader
  <1>2. rd' = [rd EXCEPT ![q] = NotReading] /\ cons_r' = PastEof(q)
    BY <1>1, Zenon DEF ReadTake
  <1>3. q = p
    <2>1. NotReading.pc = "idle"
      BY DEF NotReading
    <2>2. q # p => rd'[p] = rd[p]
      BY <1>0, <1>2, Zenon DEF ReaderType
    <2> QED
      BY <2>1, <2>2
  <1>4. ~(rd[p].n < rd[p].target)
    BY <1>2, <1>3, Zenon DEF PastEof
  <1>5. /\ rd[p].n <= rd[p].target /\ rd[p].n \in 0..MaxRead /\ rd[p].target \in 0..MaxRead
    BY <1>0, Zenon DEF Readers, ReaderOK, ReaderType
  <1> QED
    BY <1>4, <1>5, ConsoleAssumption

\* What is read is what was typed and not erased, in order, for any buffer
\* size and however often the indices wrap; ^U and ^H never reach into what
\* was committed; a ^D ends a read that has returned nothing.
THEOREM InputRefinement == ConsoleSpec => ImplementsTty
  <1>1. ConsoleInit => T!Init
    <2> SUFFICES ASSUME ConsoleInit PROVE T!Init
      OBVIOUS
    <2>1. ConsRing /\ LinesAre
      BY ConsoleInitInv, ConsoleInvIs, LinesFollow, Zenon
    <2>2. Ready = 0 /\ Edited = 0
      BY <2>1, Distances, Zenon DEF ConsRing, ConsoleInit
    <2>3. Line = <<>> /\ Committed = <<>>
      BY <2>1, <2>2 DEF LinesAre
    <2> QED
      BY <2>3, Zenon DEF T!Init, Line, Committed
  <1>2. ConsoleInv /\ ConsoleInv' /\ [ConsoleNext]_consolevars => [T!Next]_(T!vars)
    <2> SUFFICES ASSUME ConsoleInv, ConsoleInv', [ConsoleNext]_consolevars
                 PROVE  T!Next \/ UNCHANGED <<Line, Committed>>
      BY Zenon DEF T!vars, Line, Committed
    <2>0. ConsoleTypeOK /\ ConsRing /\ LinesAre /\ LinesAre'
      BY ConsoleInvIs, ConsoleInvLater, LinesFollow, LinesFollowLater, Zenon DEF ConsoleInv
    <2>1. ASSUME Same4 PROVE UNCHANGED <<Line, Committed>>
      BY <2>1, Zenon DEF Same4, Line, Committed, Chars, CharAt, Ready, Edited
    <2>2. CASE UNCHANGED consolevars
      BY <2>1, <2>2, Zenon DEF consolevars, Same4
    <2>3. ASSUME NEW c \in Char, Stored(c) PROVE T!Next
      BY <2>0, <2>3, StoredRefines, Zenon DEF T!Next
    <2>4. CASE Erased
      BY <2>0, <2>4, ErasedRefines, Zenon DEF T!Next
    <2>5. CASE LineKilled
      BY <2>0, <2>5, LineKilledRefines, Zenon DEF T!Next
    <2>6. CASE Taken
      BY <2>0, <2>6, TakenRefines, Zenon DEF T!Next
    <2>7. CASE ConsoleNext
      BY <2>0, <2>1, <2>3, <2>4, <2>5, <2>6, <2>7, ConsSteps, Zenon
    <2> QED
      BY <2>2, <2>7, Zenon
  <1>3. ConsoleInv /\ [ConsoleNext]_consolevars => [EofIsEmptyReadStep]_consolevars
    BY EofStep, Zenon
  <1> QED
    BY <1>1, <1>2, <1>3, ConsoleInvariant, PTL DEF ConsoleSpec, ImplementsTty, T!Spec
=============================================================================
