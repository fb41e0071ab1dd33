----------------------------- MODULE ProcProofs -----------------------------
(* Proofs of the invariants of Proc, for every number of slots and CPUs. *)
EXTENDS Proc, TLAPS

\* The first process has a slot; 0 stands for the null pointer.
LEMMA SlotBasics == initproc \in Slot /\ 0 \notin Slot
  BY ConstAssumption DEF Slot, initproc

\* What the loops over the table need to know of the slots.
LEMMA SlotFacts ==
  /\ initproc \in Slot /\ 0 \notin Slot
  /\ Slot \subseteq Nat
  /\ \A i \in Slot : i + 1 \in 0..(NPROC + 1) /\ i \in 0..(NPROC + 1)
  /\ 1 \in 0..(NPROC + 1) /\ 0 \in 0..(NPROC + 1)
  /\ \A i \in 0..(NPROC + 1), j \in Slot : i \notin Slot /\ i # 0 => j < i
  /\ \A i, j \in Slot : j < i + 1 => j < i \/ j = i
  /\ \A i \in Slot : i + 1 # 0
  BY ConstAssumption DEF Slot, initproc

\* No step of proc.c leaves the types or runs a loop past the table.
LEMMA TypeStep == ProcInv /\ [Next]_vars => TypeOK'
<1> SUFFICES ASSUME ProcInv, [Next]_vars PROVE TypeOK'
  OBVIOUS
<1>0. TypeOK
  BY DEF ProcInv
<1>1. CASE UNCHANGED vars
  BY <1>0, <1>1 DEF vars, table, locals, TypeOK, PCs, PStates
<1>2. ASSUME NEW c \in CPU, NEW p \in Slot, Dispatch(c, p) PROVE TypeOK'
  BY <1>0, <1>2, SlotFacts DEF Dispatch, table, locals, TypeOK, PCs, PStates
<1>3. ASSUME NEW c \in CPU, SwitchOut(c) PROVE TypeOK'
  BY <1>0, <1>3, SlotFacts DEF SwitchOut, table, locals, TypeOK, PCs, PStates
<1>4. ASSUME NEW p \in Slot, Resume(p) PROVE TypeOK'
  BY <1>0, <1>4, SlotFacts DEF Resume, Goto, table, locals, TypeOK, PCs,
     PStates
<1>5. ASSUME NEW p \in Slot, TimerExit(p) PROVE TypeOK'
  BY <1>0, <1>5, SlotFacts DEF TimerExit, At, Running, Goto, table, locals,
     TypeOK, PCs, PStates
<1>6. ASSUME NEW p \in Slot, TimerYield(p) PROVE TypeOK'
  BY <1>0, <1>6, SlotFacts DEF TimerYield, Running, GiveUp, Interruptible,
     table, locals, TypeOK, PCs, PStates
<1>7. ASSUME NEW p \in Slot, Fault(p) PROVE TypeOK'
  BY <1>0, <1>7, SlotFacts DEF Fault, At, Running, Goto, table, locals,
     TypeOK, PCs, PStates
<1>8. ASSUME NEW p \in Slot, NEW call \in Calls,
             NEW n \in KillArgs \cup {0}, Syscall(p, call, n)
      PROVE  TypeOK'
  BY <1>0, <1>8, SlotFacts, ConstAssumption
  DEF Syscall, Goto, Start, Calls, table, locals, TypeOK, PCs
<1>9. ASSUME NEW p \in Slot, SyscallReturn(p) PROVE TypeOK'
  BY <1>0, <1>9, SlotFacts DEF SyscallReturn, At, Running, Goto, table,
     locals, TypeOK, PCs, PStates
<1>10. ASSUME NEW p \in Slot, AllocSkip(p) PROVE TypeOK'
  BY <1>0, <1>10, SlotFacts DEF AllocSkip, At, Running, Advance, table,
     locals, TypeOK, PCs, PStates
<1>11. ASSUME NEW p \in Slot, AllocFound(p) PROVE TypeOK'
  BY <1>0, <1>11, SlotFacts DEF AllocFound, At, Running, allocpid, table,
     locals, TypeOK, PCs, PStates
<1>12. ASSUME NEW p \in Slot, AllocFail(p) PROVE TypeOK'
  BY <1>0, <1>12, SlotFacts DEF AllocFail, At, Running, Goto, allocpid,
     freeproc, table, locals, TypeOK, PCs, PStates
<1>13. ASSUME NEW p \in Slot, AllocprocFull(p) PROVE TypeOK'
  BY <1>0, <1>13, SlotFacts DEF AllocprocFull, At, Running, Goto, table,
     locals, TypeOK, PCs, PStates
<1>14. ASSUME NEW p \in Slot, ForkParent(p) PROVE TypeOK'
  BY <1>0, <1>14, SlotFacts, Zenon DEF ForkParent, At, Running, Goto, table, locals,
     TypeOK, PCs, PStates
<1>15. ASSUME NEW p \in Slot, ForkRun(p) PROVE TypeOK'
  BY <1>0, <1>15, SlotFacts, Zenon DEF ForkRun, At, Running, Goto, table, locals,
     TypeOK, PCs, PStates
<1>16. ASSUME NEW p \in Slot, ExitFiles(p) PROVE TypeOK'
  BY <1>0, <1>16, SlotFacts DEF ExitFiles, At, Running, Goto, table, locals,
     TypeOK, PCs, PStates
<1>17. ASSUME NEW p \in Slot, ExitLock(p) PROVE TypeOK'
  BY <1>0, <1>17, SlotFacts DEF ExitLock, At, Running, Goto, Start, table,
     locals, TypeOK, PCs, PStates
<1>18. ASSUME NEW p \in Slot, ReparentSkip(p) PROVE TypeOK'
  BY <1>0, <1>18, SlotFacts DEF ReparentSkip, At, Running, Advance, table,
     locals, TypeOK, PCs, PStates
<1>19. ASSUME NEW p \in Slot, Reparent(p) PROVE TypeOK'
  BY <1>0, <1>19, SlotFacts DEF Reparent, At, Running, Goto, table, locals,
     TypeOK, PCs, PStates
<1>20. ASSUME NEW p \in Slot, ReparentDone(p) PROVE TypeOK'
  BY <1>0, <1>20, SlotFacts DEF ReparentDone, At, Running, Goto, table,
     locals, TypeOK, PCs, PStates
<1>21. ASSUME NEW p \in Slot, WakeupSkip(p) PROVE TypeOK'
  BY <1>0, <1>21, SlotFacts DEF WakeupSkip, InWakeup, ToWake, WakeChan, At,
     Running, table, locals, TypeOK, PCs, PStates
<1>22. ASSUME NEW p \in Slot, Wakeup(p) PROVE TypeOK'
  BY <1>0, <1>22, SlotFacts DEF Wakeup, InWakeup, ToWake, WakeChan, At,
     Running, table, locals, TypeOK, PCs, PStates
<1>23. ASSUME NEW p \in Slot, RewakeDone(p) PROVE TypeOK'
  BY <1>0, <1>23, SlotFacts DEF RewakeDone, At, Goto, Advance, table, locals,
     TypeOK, PCs, ProcInv, ReparentInv
<1>24. ASSUME NEW p \in Slot, ExwakeDone(p) PROVE TypeOK'
  BY <1>0, <1>24, SlotFacts DEF ExwakeDone, At, Running, Goto, table, locals,
     TypeOK, PCs, PStates
<1>25. ASSUME NEW p \in Slot, Zombie(p) PROVE TypeOK'
  BY <1>0, <1>25, SlotFacts DEF Zombie, At, Running, Goto, GiveUp, table,
     locals, TypeOK, PCs, PStates
<1>26. ASSUME NEW p \in Slot, WaitLock(p) PROVE TypeOK'
  BY <1>0, <1>26, SlotFacts DEF WaitLock, At, Running, Goto, Start, table,
     locals, TypeOK, PCs, PStates
<1>27. ASSUME NEW p \in Slot, ScanOther(p) PROVE TypeOK'
  BY <1>0, <1>27, SlotFacts DEF ScanOther, At, Running, Advance, table,
     locals, TypeOK, PCs, PStates
<1>28. ASSUME NEW p \in Slot, ScanAlive(p) PROVE TypeOK'
  BY <1>0, <1>28, SlotFacts DEF ScanAlive, ScanChild, At, Running, Advance,
     table, locals, TypeOK, PCs, PStates
<1>29. ASSUME NEW p \in Slot, Reap(p) PROVE TypeOK'
  BY <1>0, <1>29, SlotFacts DEF Reap, ScanChild, At, Running, Goto, freeproc,
     table, locals, TypeOK, PCs, PStates
<1>30. ASSUME NEW p \in Slot, ReapFails(p) PROVE TypeOK'
  BY <1>0, <1>30, SlotFacts DEF ReapFails, ScanChild, At, Running, Goto,
     table, locals, TypeOK, PCs, PStates
<1>31. ASSUME NEW p \in Slot, ScanDone(p) PROVE TypeOK'
  BY <1>0, <1>31, SlotFacts DEF ScanDone, At, Running, Goto, table, locals,
     TypeOK, PCs, PStates
<1>32. ASSUME NEW p \in Slot, WaitSleep(p) PROVE TypeOK'
  BY <1>0, <1>32, SlotFacts DEF WaitSleep, At, Running, Goto, GiveUp, table,
     locals, TypeOK, PCs, PStates
<1>33. ASSUME NEW p \in Slot, KillSkip(p) PROVE TypeOK'
  BY <1>0, <1>33, SlotFacts DEF KillSkip, At, Running, Advance, table, locals,
     TypeOK, PCs, PStates
<1>34. ASSUME NEW p \in Slot, Kill(p) PROVE TypeOK'
  BY <1>0, <1>34, SlotFacts DEF Kill, At, Running, Goto, table, locals,
     TypeOK, PCs, PStates
<1>35. ASSUME NEW p \in Slot, KillNobody(p) PROVE TypeOK'
  BY <1>0, <1>35, SlotFacts DEF KillNobody, At, Running, Goto, table, locals,
     TypeOK, PCs, PStates
<1> QED
  BY <1>1, <1>2, <1>3, <1>4, <1>5, <1>6, <1>7, <1>8, <1>9, <1>10, <1>11,
     <1>12, <1>13, <1>14, <1>15, <1>16, <1>17, <1>18, <1>19, <1>20, <1>21,
     <1>22, <1>23, <1>24, <1>25, <1>26, <1>27, <1>28, <1>29, <1>30, <1>31,
     <1>32, <1>33, <1>34, <1>35 DEF Next, Timer, KernelStep, ForkStep,
     ExitStep, WaitStep, KillStep

\* A stack stays with one CPU until the scheduler has left it.
LEMMA RunStep == ProcInv /\ [Next]_vars => RunInv'
<1> SUFFICES ASSUME ProcInv, [Next]_vars PROVE RunInv'
  OBVIOUS
<1>0. TypeOK /\ RunInv /\ LockInv /\ ForkInv
  BY DEF ProcInv
<1>1. CASE UNCHANGED vars
  BY <1>0, <1>1 DEF vars, table, locals, RunInv, StackExclusive, LockInv,
     ForkInv, TypeOK, WaitLocked, ExitPCs, Dead
<1>2. ASSUME NEW c \in CPU, NEW p \in Slot, Dispatch(c, p) PROVE RunInv'
  BY <1>0, <1>2, SlotBasics DEF Dispatch, table, locals, RunInv,
     StackExclusive, LockInv, ForkInv, TypeOK, WaitLocked, ExitPCs, Dead
<1>3. ASSUME NEW c \in CPU, SwitchOut(c) PROVE RunInv'
  BY <1>0, <1>3, SlotBasics DEF SwitchOut, table, locals, RunInv,
     StackExclusive, LockInv, ForkInv, TypeOK, WaitLocked, ExitPCs, Dead
<1>4. ASSUME NEW p \in Slot, Resume(p) PROVE RunInv'
  BY <1>0, <1>4, SlotBasics DEF Resume, Goto, table, locals, RunInv,
     StackExclusive, LockInv, ForkInv, TypeOK, WaitLocked, ExitPCs, Dead
<1>5. ASSUME NEW p \in Slot, TimerExit(p) PROVE RunInv'
  BY <1>0, <1>5, SlotBasics DEF TimerExit, At, Running, Goto, table, locals,
     RunInv, StackExclusive, LockInv, ForkInv, TypeOK, WaitLocked, ExitPCs,
     Dead
<1>6. ASSUME NEW p \in Slot, TimerYield(p) PROVE RunInv'
  BY <1>0, <1>6, SlotBasics DEF TimerYield, Running, GiveUp, Interruptible,
     table, locals, RunInv, StackExclusive, LockInv, ForkInv, TypeOK,
     WaitLocked, ExitPCs, Dead
<1>7. ASSUME NEW p \in Slot, Fault(p) PROVE RunInv'
  BY <1>0, <1>7, SlotBasics DEF Fault, At, Running, Goto, table, locals,
     RunInv, StackExclusive, LockInv, ForkInv, TypeOK, WaitLocked, ExitPCs,
     Dead
<1>8. ASSUME NEW p \in Slot, NEW call \in Calls,
             NEW n \in KillArgs \cup {0}, Syscall(p, call, n)
      PROVE  RunInv'
  BY <1>0, <1>8, SlotBasics DEF Syscall, At, Running, Goto, Start, Calls,
     table, locals, RunInv, StackExclusive, LockInv, ForkInv, TypeOK,
     WaitLocked, ExitPCs, Dead
<1>9. ASSUME NEW p \in Slot, SyscallReturn(p) PROVE RunInv'
  BY <1>0, <1>9, SlotBasics DEF SyscallReturn, At, Running, Goto, table,
     locals, RunInv, StackExclusive, LockInv, ForkInv, TypeOK, WaitLocked,
     ExitPCs, Dead
<1>10. ASSUME NEW p \in Slot, AllocSkip(p) PROVE RunInv'
  BY <1>0, <1>10, SlotBasics DEF AllocSkip, At, Running, Advance, table,
     locals, RunInv, StackExclusive, LockInv, ForkInv, TypeOK, WaitLocked,
     ExitPCs, Dead
<1>11. ASSUME NEW p \in Slot, AllocFound(p) PROVE RunInv'
  BY <1>0, <1>11, SlotBasics DEF AllocFound, At, Running, allocpid, table,
     locals, RunInv, StackExclusive, LockInv, ForkInv, TypeOK, WaitLocked,
     ExitPCs, Dead
<1>12. ASSUME NEW p \in Slot, AllocFail(p) PROVE RunInv'
  BY <1>0, <1>12, SlotBasics DEF AllocFail, At, Running, Goto, allocpid,
     freeproc, table, locals, RunInv, StackExclusive, LockInv, ForkInv,
     TypeOK, WaitLocked, ExitPCs, Dead
<1>13. ASSUME NEW p \in Slot, AllocprocFull(p) PROVE RunInv'
  BY <1>0, <1>13, SlotBasics DEF AllocprocFull, At, Running, Goto, table,
     locals, RunInv, StackExclusive, LockInv, ForkInv, TypeOK, WaitLocked,
     ExitPCs, Dead
<1>14. ASSUME NEW p \in Slot, ForkParent(p) PROVE RunInv'
  BY <1>0, <1>14, SlotBasics DEF ForkParent, At, Running, Goto, table, locals,
     RunInv, StackExclusive, LockInv, ForkInv, TypeOK, WaitLocked, ExitPCs,
     Dead
<1>15. ASSUME NEW p \in Slot, ForkRun(p) PROVE RunInv'
  BY <1>0, <1>15, SlotBasics DEF ForkRun, At, Running, Goto, table, locals,
     RunInv, StackExclusive, LockInv, ForkInv, TypeOK, WaitLocked, ExitPCs,
     Dead
<1>16. ASSUME NEW p \in Slot, ExitFiles(p) PROVE RunInv'
  BY <1>0, <1>16, SlotBasics DEF ExitFiles, At, Running, Goto, table, locals,
     RunInv, StackExclusive, LockInv, ForkInv, TypeOK, WaitLocked, ExitPCs,
     Dead
<1>17. ASSUME NEW p \in Slot, ExitLock(p) PROVE RunInv'
  BY <1>0, <1>17, SlotBasics DEF ExitLock, At, Running, Goto, Start, table,
     locals, RunInv, StackExclusive, LockInv, ForkInv, TypeOK, WaitLocked,
     ExitPCs, Dead
<1>18. ASSUME NEW p \in Slot, ReparentSkip(p) PROVE RunInv'
  BY <1>0, <1>18, SlotBasics DEF ReparentSkip, At, Running, Advance, table,
     locals, RunInv, StackExclusive, LockInv, ForkInv, TypeOK, WaitLocked,
     ExitPCs, Dead
<1>19. ASSUME NEW p \in Slot, Reparent(p) PROVE RunInv'
  BY <1>0, <1>19, SlotBasics DEF Reparent, At, Running, Goto, table, locals,
     RunInv, StackExclusive, LockInv, ForkInv, TypeOK, WaitLocked, ExitPCs,
     Dead
<1>20. ASSUME NEW p \in Slot, ReparentDone(p) PROVE RunInv'
  BY <1>0, <1>20, SlotBasics DEF ReparentDone, At, Running, Goto, table,
     locals, RunInv, StackExclusive, LockInv, ForkInv, TypeOK, WaitLocked,
     ExitPCs, Dead
<1>21. ASSUME NEW p \in Slot, WakeupSkip(p) PROVE RunInv'
  BY <1>0, <1>21, SlotBasics DEF WakeupSkip, InWakeup, ToWake, WakeChan, At,
     Running, table, locals, RunInv, StackExclusive, LockInv, ForkInv, TypeOK,
     WaitLocked, ExitPCs, Dead
<1>22. ASSUME NEW p \in Slot, Wakeup(p) PROVE RunInv'
  BY <1>0, <1>22, SlotBasics DEF Wakeup, InWakeup, ToWake, WakeChan, At,
     Running, table, locals, RunInv, StackExclusive, LockInv, ForkInv, TypeOK,
     WaitLocked, ExitPCs, Dead
<1>23. ASSUME NEW p \in Slot, RewakeDone(p) PROVE RunInv'
  BY <1>0, <1>23, SlotBasics DEF RewakeDone, At, Running, Goto, Advance,
     table, locals, RunInv, StackExclusive, LockInv, ForkInv, TypeOK,
     WaitLocked, ExitPCs, Dead
<1>24. ASSUME NEW p \in Slot, ExwakeDone(p) PROVE RunInv'
  BY <1>0, <1>24, SlotBasics DEF ExwakeDone, At, Running, Goto, table, locals,
     RunInv, StackExclusive, LockInv, ForkInv, TypeOK, WaitLocked, ExitPCs,
     Dead
<1>25. ASSUME NEW p \in Slot, Zombie(p) PROVE RunInv'
  BY <1>0, <1>25, SlotBasics DEF Zombie, At, Running, Goto, GiveUp, table,
     locals, RunInv, StackExclusive, LockInv, ForkInv, TypeOK, WaitLocked,
     ExitPCs, Dead
<1>26. ASSUME NEW p \in Slot, WaitLock(p) PROVE RunInv'
  BY <1>0, <1>26, SlotBasics DEF WaitLock, At, Running, Goto, Start, table,
     locals, RunInv, StackExclusive, LockInv, ForkInv, TypeOK, WaitLocked,
     ExitPCs, Dead
<1>27. ASSUME NEW p \in Slot, ScanOther(p) PROVE RunInv'
  BY <1>0, <1>27, SlotBasics DEF ScanOther, At, Running, Advance, table,
     locals, RunInv, StackExclusive, LockInv, ForkInv, TypeOK, WaitLocked,
     ExitPCs, Dead
<1>28. ASSUME NEW p \in Slot, ScanAlive(p) PROVE RunInv'
  BY <1>0, <1>28, SlotBasics DEF ScanAlive, ScanChild, At, Running, Advance,
     table, locals, RunInv, StackExclusive, LockInv, ForkInv, TypeOK,
     WaitLocked, ExitPCs, Dead
<1>29. ASSUME NEW p \in Slot, Reap(p) PROVE RunInv'
  BY <1>0, <1>29, SlotBasics DEF Reap, ScanChild, At, Running, Goto, freeproc,
     table, locals, RunInv, StackExclusive, LockInv, ForkInv, TypeOK,
     WaitLocked, ExitPCs, Dead
<1>30. ASSUME NEW p \in Slot, ReapFails(p) PROVE RunInv'
  BY <1>0, <1>30, SlotBasics DEF ReapFails, ScanChild, At, Running, Goto,
     table, locals, RunInv, StackExclusive, LockInv, ForkInv, TypeOK,
     WaitLocked, ExitPCs, Dead
<1>31. ASSUME NEW p \in Slot, ScanDone(p) PROVE RunInv'
  BY <1>0, <1>31, SlotBasics DEF ScanDone, At, Running, Goto, table, locals,
     RunInv, StackExclusive, LockInv, ForkInv, TypeOK, WaitLocked, ExitPCs,
     Dead
<1>32. ASSUME NEW p \in Slot, WaitSleep(p) PROVE RunInv'
  BY <1>0, <1>32, SlotBasics DEF WaitSleep, At, Running, Goto, GiveUp, table,
     locals, RunInv, StackExclusive, LockInv, ForkInv, TypeOK, WaitLocked,
     ExitPCs, Dead
<1>33. ASSUME NEW p \in Slot, KillSkip(p) PROVE RunInv'
  BY <1>0, <1>33, SlotBasics DEF KillSkip, At, Running, Advance, table,
     locals, RunInv, StackExclusive, LockInv, ForkInv, TypeOK, WaitLocked,
     ExitPCs, Dead
<1>34. ASSUME NEW p \in Slot, Kill(p) PROVE RunInv'
  BY <1>0, <1>34, SlotBasics DEF Kill, At, Running, Goto, table, locals,
     RunInv, StackExclusive, LockInv, ForkInv, TypeOK, WaitLocked, ExitPCs,
     Dead
<1>35. ASSUME NEW p \in Slot, KillNobody(p) PROVE RunInv'
  BY <1>0, <1>35, SlotBasics DEF KillNobody, At, Running, Goto, table, locals,
     RunInv, StackExclusive, LockInv, ForkInv, TypeOK, WaitLocked, ExitPCs,
     Dead
<1> QED
  BY <1>1, <1>2, <1>3, <1>4, <1>5, <1>6, <1>7, <1>8, <1>9, <1>10, <1>11,
     <1>12, <1>13, <1>14, <1>15, <1>16, <1>17, <1>18, <1>19, <1>20, <1>21,
     <1>22, <1>23, <1>24, <1>25, <1>26, <1>27, <1>28, <1>29, <1>30, <1>31,
     <1>32, <1>33, <1>34, <1>35 DEF Next, Timer, KernelStep, ForkStep,
     ExitStep, WaitStep, KillStep

\* wait_lock stays with one running process.
LEMMA LockStep == ProcInv /\ [Next]_vars => LockInv'
<1> SUFFICES ASSUME ProcInv, [Next]_vars PROVE LockInv'
  OBVIOUS
<1>0. TypeOK /\ RunInv /\ LockInv /\ ForkInv
  BY DEF ProcInv
<1>1. CASE UNCHANGED vars
  BY <1>0, <1>1 DEF vars, table, locals, RunInv, StackExclusive, LockInv,
     ForkInv, TypeOK, WaitLocked
<1>2. ASSUME NEW c \in CPU, NEW p \in Slot, Dispatch(c, p) PROVE LockInv'
  BY <1>0, <1>2, SlotBasics DEF Dispatch, table, locals, RunInv,
     StackExclusive, LockInv, ForkInv, TypeOK, WaitLocked
<1>3. ASSUME NEW c \in CPU, SwitchOut(c) PROVE LockInv'
  BY <1>0, <1>3, SlotBasics DEF SwitchOut, table, locals, RunInv,
     StackExclusive, LockInv, ForkInv, TypeOK, WaitLocked
<1>4. ASSUME NEW p \in Slot, Resume(p) PROVE LockInv'
  BY <1>0, <1>4, SlotBasics DEF Resume, Goto, table, locals, RunInv,
     StackExclusive, LockInv, ForkInv, TypeOK, WaitLocked
<1>5. ASSUME NEW p \in Slot, TimerExit(p) PROVE LockInv'
  BY <1>0, <1>5, SlotBasics DEF TimerExit, At, Running, Goto, table, locals,
     RunInv, StackExclusive, LockInv, ForkInv, TypeOK, WaitLocked
<1>6. ASSUME NEW p \in Slot, TimerYield(p) PROVE LockInv'
  BY <1>0, <1>6, SlotBasics DEF TimerYield, Running, GiveUp, Interruptible,
     table, locals, RunInv, StackExclusive, LockInv, ForkInv, TypeOK,
     WaitLocked
<1>7. ASSUME NEW p \in Slot, Fault(p) PROVE LockInv'
  BY <1>0, <1>7, SlotBasics DEF Fault, At, Running, Goto, table, locals,
     RunInv, StackExclusive, LockInv, ForkInv, TypeOK, WaitLocked
<1>8. ASSUME NEW p \in Slot, NEW call \in Calls,
             NEW n \in KillArgs \cup {0}, Syscall(p, call, n)
      PROVE  LockInv'
  BY <1>0, <1>8, SlotBasics DEF Syscall, At, Running, Goto, Start, Calls,
     table, locals, RunInv, StackExclusive, LockInv, ForkInv, TypeOK,
     WaitLocked
<1>9. ASSUME NEW p \in Slot, SyscallReturn(p) PROVE LockInv'
  BY <1>0, <1>9, SlotBasics DEF SyscallReturn, At, Running, Goto, table,
     locals, RunInv, StackExclusive, LockInv, ForkInv, TypeOK, WaitLocked
<1>10. ASSUME NEW p \in Slot, AllocSkip(p) PROVE LockInv'
  BY <1>0, <1>10, SlotBasics DEF AllocSkip, At, Running, Advance, table,
     locals, RunInv, StackExclusive, LockInv, ForkInv, TypeOK, WaitLocked
<1>11. ASSUME NEW p \in Slot, AllocFound(p) PROVE LockInv'
  BY <1>0, <1>11, SlotBasics DEF AllocFound, At, Running, allocpid, table,
     locals, RunInv, StackExclusive, LockInv, ForkInv, TypeOK, WaitLocked
<1>12. ASSUME NEW p \in Slot, AllocFail(p) PROVE LockInv'
  BY <1>0, <1>12, SlotBasics DEF AllocFail, At, Running, Goto, allocpid,
     freeproc, table, locals, RunInv, StackExclusive, LockInv, ForkInv,
     TypeOK, WaitLocked
<1>13. ASSUME NEW p \in Slot, AllocprocFull(p) PROVE LockInv'
  BY <1>0, <1>13, SlotBasics DEF AllocprocFull, At, Running, Goto, table,
     locals, RunInv, StackExclusive, LockInv, ForkInv, TypeOK, WaitLocked
<1>14. ASSUME NEW p \in Slot, ForkParent(p) PROVE LockInv'
  BY <1>0, <1>14, SlotBasics DEF ForkParent, At, Running, Goto, table, locals,
     RunInv, StackExclusive, LockInv, ForkInv, TypeOK, WaitLocked
<1>15. ASSUME NEW p \in Slot, ForkRun(p) PROVE LockInv'
  BY <1>0, <1>15, SlotBasics DEF ForkRun, At, Running, Goto, table, locals,
     RunInv, StackExclusive, LockInv, ForkInv, TypeOK, WaitLocked
<1>16. ASSUME NEW p \in Slot, ExitFiles(p) PROVE LockInv'
  BY <1>0, <1>16, SlotBasics DEF ExitFiles, At, Running, Goto, table, locals,
     RunInv, StackExclusive, LockInv, ForkInv, TypeOK, WaitLocked
<1>17. ASSUME NEW p \in Slot, ExitLock(p) PROVE LockInv'
  BY <1>0, <1>17, SlotBasics DEF ExitLock, At, Running, Goto, Start, table,
     locals, RunInv, StackExclusive, LockInv, ForkInv, TypeOK, WaitLocked
<1>18. ASSUME NEW p \in Slot, ReparentSkip(p) PROVE LockInv'
  BY <1>0, <1>18, SlotBasics DEF ReparentSkip, At, Running, Advance, table,
     locals, RunInv, StackExclusive, LockInv, ForkInv, TypeOK, WaitLocked
<1>19. ASSUME NEW p \in Slot, Reparent(p) PROVE LockInv'
  BY <1>0, <1>19, SlotBasics DEF Reparent, At, Running, Goto, table, locals,
     RunInv, StackExclusive, LockInv, ForkInv, TypeOK, WaitLocked
<1>20. ASSUME NEW p \in Slot, ReparentDone(p) PROVE LockInv'
  BY <1>0, <1>20, SlotBasics DEF ReparentDone, At, Running, Goto, table,
     locals, RunInv, StackExclusive, LockInv, ForkInv, TypeOK, WaitLocked
<1>21. ASSUME NEW p \in Slot, WakeupSkip(p) PROVE LockInv'
  BY <1>0, <1>21, SlotBasics DEF WakeupSkip, InWakeup, ToWake, WakeChan, At,
     Running, table, locals, RunInv, StackExclusive, LockInv, ForkInv, TypeOK,
     WaitLocked
<1>22. ASSUME NEW p \in Slot, Wakeup(p) PROVE LockInv'
  BY <1>0, <1>22, SlotBasics DEF Wakeup, InWakeup, ToWake, WakeChan, At,
     Running, table, locals, RunInv, StackExclusive, LockInv, ForkInv, TypeOK,
     WaitLocked
<1>23. ASSUME NEW p \in Slot, RewakeDone(p) PROVE LockInv'
  BY <1>0, <1>23, SlotBasics DEF RewakeDone, At, Running, Goto, Advance,
     table, locals, RunInv, StackExclusive, LockInv, ForkInv, TypeOK,
     WaitLocked
<1>24. ASSUME NEW p \in Slot, ExwakeDone(p) PROVE LockInv'
  BY <1>0, <1>24, SlotBasics DEF ExwakeDone, At, Running, Goto, table, locals,
     RunInv, StackExclusive, LockInv, ForkInv, TypeOK, WaitLocked
<1>25. ASSUME NEW p \in Slot, Zombie(p) PROVE LockInv'
  BY <1>0, <1>25, SlotBasics DEF Zombie, At, Running, Goto, GiveUp, table,
     locals, RunInv, StackExclusive, LockInv, ForkInv, TypeOK, WaitLocked
<1>26. ASSUME NEW p \in Slot, WaitLock(p) PROVE LockInv'
  BY <1>0, <1>26, SlotBasics DEF WaitLock, At, Running, Goto, Start, table,
     locals, RunInv, StackExclusive, LockInv, ForkInv, TypeOK, WaitLocked
<1>27. ASSUME NEW p \in Slot, ScanOther(p) PROVE LockInv'
  BY <1>0, <1>27, SlotBasics DEF ScanOther, At, Running, Advance, table,
     locals, RunInv, StackExclusive, LockInv, ForkInv, TypeOK, WaitLocked
<1>28. ASSUME NEW p \in Slot, ScanAlive(p) PROVE LockInv'
  BY <1>0, <1>28, SlotBasics DEF ScanAlive, ScanChild, At, Running, Advance,
     table, locals, RunInv, StackExclusive, LockInv, ForkInv, TypeOK,
     WaitLocked
<1>29. ASSUME NEW p \in Slot, Reap(p) PROVE LockInv'
  BY <1>0, <1>29, SlotBasics DEF Reap, ScanChild, At, Running, Goto, freeproc,
     table, locals, RunInv, StackExclusive, LockInv, ForkInv, TypeOK,
     WaitLocked
<1>30. ASSUME NEW p \in Slot, ReapFails(p) PROVE LockInv'
  BY <1>0, <1>30, SlotBasics DEF ReapFails, ScanChild, At, Running, Goto,
     table, locals, RunInv, StackExclusive, LockInv, ForkInv, TypeOK,
     WaitLocked
<1>31. ASSUME NEW p \in Slot, ScanDone(p) PROVE LockInv'
  BY <1>0, <1>31, SlotBasics DEF ScanDone, At, Running, Goto, table, locals,
     RunInv, StackExclusive, LockInv, ForkInv, TypeOK, WaitLocked
<1>32. ASSUME NEW p \in Slot, WaitSleep(p) PROVE LockInv'
  BY <1>0, <1>32, SlotBasics DEF WaitSleep, At, Running, Goto, GiveUp, table,
     locals, RunInv, StackExclusive, LockInv, ForkInv, TypeOK, WaitLocked
<1>33. ASSUME NEW p \in Slot, KillSkip(p) PROVE LockInv'
  BY <1>0, <1>33, SlotBasics DEF KillSkip, At, Running, Advance, table,
     locals, RunInv, StackExclusive, LockInv, ForkInv, TypeOK, WaitLocked
<1>34. ASSUME NEW p \in Slot, Kill(p) PROVE LockInv'
  BY <1>0, <1>34, SlotBasics DEF Kill, At, Running, Goto, table, locals,
     RunInv, StackExclusive, LockInv, ForkInv, TypeOK, WaitLocked
<1>35. ASSUME NEW p \in Slot, KillNobody(p) PROVE LockInv'
  BY <1>0, <1>35, SlotBasics DEF KillNobody, At, Running, Goto, table, locals,
     RunInv, StackExclusive, LockInv, ForkInv, TypeOK, WaitLocked
<1> QED
  BY <1>1, <1>2, <1>3, <1>4, <1>5, <1>6, <1>7, <1>8, <1>9, <1>10, <1>11,
     <1>12, <1>13, <1>14, <1>15, <1>16, <1>17, <1>18, <1>19, <1>20, <1>21,
     <1>22, <1>23, <1>24, <1>25, <1>26, <1>27, <1>28, <1>29, <1>30, <1>31,
     <1>32, <1>33, <1>34, <1>35 DEF Next, Timer, KernelStep, ForkStep,
     ExitStep, WaitStep, KillStep

\* Nobody touches the slot that fork() is filling.
LEMMA ForkStepInv == ProcInv /\ [Next]_vars => ForkInv'
<1> SUFFICES ASSUME ProcInv, [Next]_vars PROVE ForkInv'
  OBVIOUS
<1>0. TypeOK /\ RunInv /\ LockInv /\ ForkInv /\ ParentInv
  BY DEF ProcInv
<1>1. CASE UNCHANGED vars
  BY <1>0, <1>1 DEF vars, table, locals, RunInv, LockInv, ForkInv, ParentInv,
     TypeOK, WaitLocked, Dead
<1>2. ASSUME NEW c \in CPU, NEW p \in Slot, Dispatch(c, p) PROVE ForkInv'
  BY <1>0, <1>2, SlotBasics DEF Dispatch, table, locals, RunInv, LockInv,
     ForkInv, ParentInv, TypeOK, WaitLocked, Dead
<1>3. ASSUME NEW c \in CPU, SwitchOut(c) PROVE ForkInv'
  BY <1>0, <1>3, SlotBasics DEF SwitchOut, table, locals, RunInv, LockInv,
     ForkInv, ParentInv, TypeOK, WaitLocked, Dead
<1>4. ASSUME NEW p \in Slot, Resume(p) PROVE ForkInv'
  BY <1>0, <1>4, SlotBasics DEF Resume, Goto, table, locals, RunInv, LockInv,
     ForkInv, ParentInv, TypeOK, WaitLocked, Dead
<1>5. ASSUME NEW p \in Slot, TimerExit(p) PROVE ForkInv'
  BY <1>0, <1>5, SlotBasics DEF TimerExit, At, Running, Goto, table, locals,
     RunInv, LockInv, ForkInv, ParentInv, TypeOK, WaitLocked, Dead
<1>6. ASSUME NEW p \in Slot, TimerYield(p) PROVE ForkInv'
  BY <1>0, <1>6, SlotBasics DEF TimerYield, Running, GiveUp, Interruptible,
     table, locals, RunInv, LockInv, ForkInv, ParentInv, TypeOK, WaitLocked,
     Dead
<1>7. ASSUME NEW p \in Slot, Fault(p) PROVE ForkInv'
  BY <1>0, <1>7, SlotBasics DEF Fault, At, Running, Goto, table, locals,
     RunInv, LockInv, ForkInv, ParentInv, TypeOK, WaitLocked, Dead
<1>8. ASSUME NEW p \in Slot, NEW call \in Calls,
             NEW n \in KillArgs \cup {0}, Syscall(p, call, n)
      PROVE  ForkInv'
  BY <1>0, <1>8, SlotBasics DEF Syscall, At, Running, Goto, Start, Calls,
     table, locals, RunInv, LockInv, ForkInv, ParentInv, TypeOK, WaitLocked,
     Dead
<1>9. ASSUME NEW p \in Slot, SyscallReturn(p) PROVE ForkInv'
  BY <1>0, <1>9, SlotBasics DEF SyscallReturn, At, Running, Goto, table,
     locals, RunInv, LockInv, ForkInv, ParentInv, TypeOK, WaitLocked, Dead
<1>10. ASSUME NEW p \in Slot, AllocSkip(p) PROVE ForkInv'
  BY <1>0, <1>10, SlotBasics DEF AllocSkip, At, Running, Advance, table,
     locals, RunInv, LockInv, ForkInv, ParentInv, TypeOK, WaitLocked, Dead
<1>11. ASSUME NEW p \in Slot, AllocFound(p) PROVE ForkInv'
  BY <1>0, <1>11, SlotBasics DEF AllocFound, At, Running, allocpid, table,
     locals, RunInv, LockInv, ForkInv, ParentInv, TypeOK, WaitLocked, Dead
<1>12. ASSUME NEW p \in Slot, AllocFail(p) PROVE ForkInv'
  BY <1>0, <1>12, SlotBasics DEF AllocFail, At, Running, Goto, allocpid,
     freeproc, table, locals, RunInv, LockInv, ForkInv, ParentInv, TypeOK,
     WaitLocked, Dead
<1>13. ASSUME NEW p \in Slot, AllocprocFull(p) PROVE ForkInv'
  BY <1>0, <1>13, SlotBasics DEF AllocprocFull, At, Running, Goto, table,
     locals, RunInv, LockInv, ForkInv, ParentInv, TypeOK, WaitLocked, Dead
<1>14. ASSUME NEW p \in Slot, ForkParent(p) PROVE ForkInv'
  BY <1>0, <1>14, SlotBasics DEF ForkParent, At, Running, Goto, table, locals,
     RunInv, LockInv, ForkInv, ParentInv, TypeOK, WaitLocked, Dead
<1>15. ASSUME NEW p \in Slot, ForkRun(p) PROVE ForkInv'
  BY <1>0, <1>15, SlotBasics DEF ForkRun, At, Running, Goto, table, locals,
     RunInv, LockInv, ForkInv, ParentInv, TypeOK, WaitLocked, Dead
<1>16. ASSUME NEW p \in Slot, ExitFiles(p) PROVE ForkInv'
  BY <1>0, <1>16, SlotBasics DEF ExitFiles, At, Running, Goto, table, locals,
     RunInv, LockInv, ForkInv, ParentInv, TypeOK, WaitLocked, Dead
<1>17. ASSUME NEW p \in Slot, ExitLock(p) PROVE ForkInv'
  BY <1>0, <1>17, SlotBasics DEF ExitLock, At, Running, Goto, Start, table,
     locals, RunInv, LockInv, ForkInv, ParentInv, TypeOK, WaitLocked, Dead
<1>18. ASSUME NEW p \in Slot, ReparentSkip(p) PROVE ForkInv'
  BY <1>0, <1>18, SlotBasics DEF ReparentSkip, At, Running, Advance, table,
     locals, RunInv, LockInv, ForkInv, ParentInv, TypeOK, WaitLocked, Dead
<1>19. ASSUME NEW p \in Slot, Reparent(p) PROVE ForkInv'
  BY <1>0, <1>19, SlotBasics DEF Reparent, At, Running, Goto, table, locals,
     RunInv, LockInv, ForkInv, ParentInv, TypeOK, WaitLocked, Dead
<1>20. ASSUME NEW p \in Slot, ReparentDone(p) PROVE ForkInv'
  BY <1>0, <1>20, SlotBasics DEF ReparentDone, At, Running, Goto, table,
     locals, RunInv, LockInv, ForkInv, ParentInv, TypeOK, WaitLocked, Dead
<1>21. ASSUME NEW p \in Slot, WakeupSkip(p) PROVE ForkInv'
  BY <1>0, <1>21, SlotBasics DEF WakeupSkip, InWakeup, ToWake, WakeChan, At,
     Running, table, locals, RunInv, LockInv, ForkInv, ParentInv, TypeOK,
     WaitLocked, Dead
<1>22. ASSUME NEW p \in Slot, Wakeup(p) PROVE ForkInv'
  BY <1>0, <1>22, SlotBasics DEF Wakeup, InWakeup, ToWake, WakeChan, At,
     Running, table, locals, RunInv, LockInv, ForkInv, ParentInv, TypeOK,
     WaitLocked, Dead
<1>23. ASSUME NEW p \in Slot, RewakeDone(p) PROVE ForkInv'
  BY <1>0, <1>23, SlotBasics DEF RewakeDone, At, Running, Goto, Advance,
     table, locals, RunInv, LockInv, ForkInv, ParentInv, TypeOK, WaitLocked,
     Dead
<1>24. ASSUME NEW p \in Slot, ExwakeDone(p) PROVE ForkInv'
  BY <1>0, <1>24, SlotBasics DEF ExwakeDone, At, Running, Goto, table, locals,
     RunInv, LockInv, ForkInv, ParentInv, TypeOK, WaitLocked, Dead
<1>25. ASSUME NEW p \in Slot, Zombie(p) PROVE ForkInv'
  BY <1>0, <1>25, SlotBasics DEF Zombie, At, Running, Goto, GiveUp, table,
     locals, RunInv, LockInv, ForkInv, ParentInv, TypeOK, WaitLocked, Dead
<1>26. ASSUME NEW p \in Slot, WaitLock(p) PROVE ForkInv'
  BY <1>0, <1>26, SlotBasics DEF WaitLock, At, Running, Goto, Start, table,
     locals, RunInv, LockInv, ForkInv, ParentInv, TypeOK, WaitLocked, Dead
<1>27. ASSUME NEW p \in Slot, ScanOther(p) PROVE ForkInv'
  BY <1>0, <1>27, SlotBasics DEF ScanOther, At, Running, Advance, table,
     locals, RunInv, LockInv, ForkInv, ParentInv, TypeOK, WaitLocked, Dead
<1>28. ASSUME NEW p \in Slot, ScanAlive(p) PROVE ForkInv'
  BY <1>0, <1>28, SlotBasics DEF ScanAlive, ScanChild, At, Running, Advance,
     table, locals, RunInv, LockInv, ForkInv, ParentInv, TypeOK, WaitLocked,
     Dead
<1>29. ASSUME NEW p \in Slot, Reap(p) PROVE ForkInv'
  BY <1>0, <1>29, SlotBasics DEF Reap, ScanChild, At, Running, Goto, freeproc,
     table, locals, RunInv, LockInv, ForkInv, ParentInv, TypeOK, WaitLocked,
     Dead
<1>30. ASSUME NEW p \in Slot, ReapFails(p) PROVE ForkInv'
  BY <1>0, <1>30, SlotBasics DEF ReapFails, ScanChild, At, Running, Goto,
     table, locals, RunInv, LockInv, ForkInv, ParentInv, TypeOK, WaitLocked,
     Dead
<1>31. ASSUME NEW p \in Slot, ScanDone(p) PROVE ForkInv'
  BY <1>0, <1>31, SlotBasics DEF ScanDone, At, Running, Goto, table, locals,
     RunInv, LockInv, ForkInv, ParentInv, TypeOK, WaitLocked, Dead
<1>32. ASSUME NEW p \in Slot, WaitSleep(p) PROVE ForkInv'
  BY <1>0, <1>32, SlotBasics DEF WaitSleep, At, Running, Goto, GiveUp, table,
     locals, RunInv, LockInv, ForkInv, ParentInv, TypeOK, WaitLocked, Dead
<1>33. ASSUME NEW p \in Slot, KillSkip(p) PROVE ForkInv'
  BY <1>0, <1>33, SlotBasics DEF KillSkip, At, Running, Advance, table,
     locals, RunInv, LockInv, ForkInv, ParentInv, TypeOK, WaitLocked, Dead
<1>34. ASSUME NEW p \in Slot, Kill(p) PROVE ForkInv'
  BY <1>0, <1>34, SlotBasics DEF Kill, At, Running, Goto, table, locals,
     RunInv, LockInv, ForkInv, ParentInv, TypeOK, WaitLocked, Dead
<1>35. ASSUME NEW p \in Slot, KillNobody(p) PROVE ForkInv'
  BY <1>0, <1>35, SlotBasics DEF KillNobody, At, Running, Goto, table, locals,
     RunInv, LockInv, ForkInv, ParentInv, TypeOK, WaitLocked, Dead
<1> QED
  BY <1>1, <1>2, <1>3, <1>4, <1>5, <1>6, <1>7, <1>8, <1>9, <1>10, <1>11,
     <1>12, <1>13, <1>14, <1>15, <1>16, <1>17, <1>18, <1>19, <1>20, <1>21,
     <1>22, <1>23, <1>24, <1>25, <1>26, <1>27, <1>28, <1>29, <1>30, <1>31,
     <1>32, <1>33, <1>34, <1>35 DEF Next, Timer, KernelStep, ForkStep,
     ExitStep, WaitStep, KillStep

\* Children follow a parent that is alive.
LEMMA ParentStep == ProcInv /\ [Next]_vars => ParentInv'
<1> SUFFICES ASSUME ProcInv, [Next]_vars PROVE ParentInv'
  OBVIOUS
<1>0. TypeOK /\ RunInv /\ ForkInv /\ ParentInv /\ ReparentInv
  BY DEF ProcInv
<1>1. CASE UNCHANGED vars
  BY <1>0, <1>1 DEF vars, table, locals, RunInv, ForkInv, ParentInv,
     ReparentInv, TypeOK, Dead, ExitPCs
<1>2. ASSUME NEW c \in CPU, NEW p \in Slot, Dispatch(c, p) PROVE ParentInv'
  BY <1>0, <1>2, SlotBasics DEF Dispatch, table, locals, RunInv, ForkInv,
     ParentInv, ReparentInv, TypeOK, Dead, ExitPCs
<1>3. ASSUME NEW c \in CPU, SwitchOut(c) PROVE ParentInv'
  BY <1>0, <1>3, SlotBasics DEF SwitchOut, table, locals, RunInv, ForkInv,
     ParentInv, ReparentInv, TypeOK, Dead, ExitPCs
<1>4. ASSUME NEW p \in Slot, Resume(p) PROVE ParentInv'
  BY <1>0, <1>4, SlotBasics DEF Resume, Goto, table, locals, RunInv, ForkInv,
     ParentInv, ReparentInv, TypeOK, Dead, ExitPCs
<1>5. ASSUME NEW p \in Slot, TimerExit(p) PROVE ParentInv'
  BY <1>0, <1>5, SlotBasics DEF TimerExit, At, Running, Goto, table, locals,
     RunInv, ForkInv, ParentInv, ReparentInv, TypeOK, Dead, ExitPCs
<1>6. ASSUME NEW p \in Slot, TimerYield(p) PROVE ParentInv'
  BY <1>0, <1>6, SlotBasics DEF TimerYield, Running, GiveUp, Interruptible,
     table, locals, RunInv, ForkInv, ParentInv, ReparentInv, TypeOK, Dead,
     ExitPCs
<1>7. ASSUME NEW p \in Slot, Fault(p) PROVE ParentInv'
  BY <1>0, <1>7, SlotBasics DEF Fault, At, Running, Goto, table, locals,
     RunInv, ForkInv, ParentInv, ReparentInv, TypeOK, Dead, ExitPCs
<1>8. ASSUME NEW p \in Slot, NEW call \in Calls,
             NEW n \in KillArgs \cup {0}, Syscall(p, call, n)
      PROVE  ParentInv'
  BY <1>0, <1>8, SlotBasics DEF Syscall, At, Running, Goto, Start, Calls,
     table, locals, RunInv, ForkInv, ParentInv, ReparentInv, TypeOK, Dead,
     ExitPCs
<1>9. ASSUME NEW p \in Slot, SyscallReturn(p) PROVE ParentInv'
  BY <1>0, <1>9, SlotBasics DEF SyscallReturn, At, Running, Goto, table,
     locals, RunInv, ForkInv, ParentInv, ReparentInv, TypeOK, Dead, ExitPCs
<1>10. ASSUME NEW p \in Slot, AllocSkip(p) PROVE ParentInv'
  BY <1>0, <1>10, SlotBasics DEF AllocSkip, At, Running, Advance, table,
     locals, RunInv, ForkInv, ParentInv, ReparentInv, TypeOK, Dead, ExitPCs
<1>11. ASSUME NEW p \in Slot, AllocFound(p) PROVE ParentInv'
  BY <1>0, <1>11, SlotBasics DEF AllocFound, At, Running, allocpid, table,
     locals, RunInv, ForkInv, ParentInv, ReparentInv, TypeOK, Dead, ExitPCs
<1>12. ASSUME NEW p \in Slot, AllocFail(p) PROVE ParentInv'
  BY <1>0, <1>12, SlotBasics DEF AllocFail, At, Running, Goto, allocpid,
     freeproc, table, locals, RunInv, ForkInv, ParentInv, ReparentInv, TypeOK,
     Dead, ExitPCs
<1>13. ASSUME NEW p \in Slot, AllocprocFull(p) PROVE ParentInv'
  BY <1>0, <1>13, SlotBasics DEF AllocprocFull, At, Running, Goto, table,
     locals, RunInv, ForkInv, ParentInv, ReparentInv, TypeOK, Dead, ExitPCs
<1>14. ASSUME NEW p \in Slot, ForkParent(p) PROVE ParentInv'
  BY <1>0, <1>14, SlotBasics DEF ForkParent, At, Running, Goto, table, locals,
     RunInv, ForkInv, ParentInv, ReparentInv, TypeOK, Dead, ExitPCs
<1>15. ASSUME NEW p \in Slot, ForkRun(p) PROVE ParentInv'
  BY <1>0, <1>15, SlotBasics DEF ForkRun, At, Running, Goto, table, locals,
     RunInv, ForkInv, ParentInv, ReparentInv, TypeOK, Dead, ExitPCs
<1>16. ASSUME NEW p \in Slot, ExitFiles(p) PROVE ParentInv'
  BY <1>0, <1>16, SlotBasics DEF ExitFiles, At, Running, Goto, table, locals,
     RunInv, ForkInv, ParentInv, ReparentInv, TypeOK, Dead, ExitPCs
<1>17. ASSUME NEW p \in Slot, ExitLock(p) PROVE ParentInv'
  BY <1>0, <1>17, SlotBasics DEF ExitLock, At, Running, Goto, Start, table,
     locals, RunInv, ForkInv, ParentInv, ReparentInv, TypeOK, Dead, ExitPCs
<1>18. ASSUME NEW p \in Slot, ReparentSkip(p) PROVE ParentInv'
  BY <1>0, <1>18, SlotBasics DEF ReparentSkip, At, Running, Advance, table,
     locals, RunInv, ForkInv, ParentInv, ReparentInv, TypeOK, Dead, ExitPCs
<1>19. ASSUME NEW p \in Slot, Reparent(p) PROVE ParentInv'
  BY <1>0, <1>19, SlotBasics DEF Reparent, At, Running, Goto, table, locals,
     RunInv, ForkInv, ParentInv, ReparentInv, TypeOK, Dead, ExitPCs
<1>20. ASSUME NEW p \in Slot, ReparentDone(p) PROVE ParentInv'
  BY <1>0, <1>20, SlotBasics DEF ReparentDone, At, Running, Goto, table,
     locals, RunInv, ForkInv, ParentInv, ReparentInv, TypeOK, Dead, ExitPCs
<1>21. ASSUME NEW p \in Slot, WakeupSkip(p) PROVE ParentInv'
  BY <1>0, <1>21, SlotBasics DEF WakeupSkip, InWakeup, ToWake, WakeChan, At,
     Running, table, locals, RunInv, ForkInv, ParentInv, ReparentInv, TypeOK,
     Dead, ExitPCs
<1>22. ASSUME NEW p \in Slot, Wakeup(p) PROVE ParentInv'
  BY <1>0, <1>22, SlotBasics DEF Wakeup, InWakeup, ToWake, WakeChan, At,
     Running, table, locals, RunInv, ForkInv, ParentInv, ReparentInv, TypeOK,
     Dead, ExitPCs
<1>23. ASSUME NEW p \in Slot, RewakeDone(p) PROVE ParentInv'
  BY <1>0, <1>23, SlotBasics DEF RewakeDone, At, Running, Goto, Advance,
     table, locals, RunInv, ForkInv, ParentInv, ReparentInv, TypeOK, Dead,
     ExitPCs
<1>24. ASSUME NEW p \in Slot, ExwakeDone(p) PROVE ParentInv'
  BY <1>0, <1>24, SlotBasics DEF ExwakeDone, At, Running, Goto, table, locals,
     RunInv, ForkInv, ParentInv, ReparentInv, TypeOK, Dead, ExitPCs
<1>25. ASSUME NEW p \in Slot, Zombie(p) PROVE ParentInv'
  BY <1>0, <1>25, SlotBasics DEF Zombie, At, Running, Goto, GiveUp, table,
     locals, RunInv, ForkInv, ParentInv, ReparentInv, TypeOK, Dead, ExitPCs
<1>26. ASSUME NEW p \in Slot, WaitLock(p) PROVE ParentInv'
  BY <1>0, <1>26, SlotBasics DEF WaitLock, At, Running, Goto, Start, table,
     locals, RunInv, ForkInv, ParentInv, ReparentInv, TypeOK, Dead, ExitPCs
<1>27. ASSUME NEW p \in Slot, ScanOther(p) PROVE ParentInv'
  BY <1>0, <1>27, SlotBasics DEF ScanOther, At, Running, Advance, table,
     locals, RunInv, ForkInv, ParentInv, ReparentInv, TypeOK, Dead, ExitPCs
<1>28. ASSUME NEW p \in Slot, ScanAlive(p) PROVE ParentInv'
  BY <1>0, <1>28, SlotBasics DEF ScanAlive, ScanChild, At, Running, Advance,
     table, locals, RunInv, ForkInv, ParentInv, ReparentInv, TypeOK, Dead,
     ExitPCs
<1>29. ASSUME NEW p \in Slot, Reap(p) PROVE ParentInv'
  BY <1>0, <1>29, SlotBasics DEF Reap, ScanChild, At, Running, Goto, freeproc,
     table, locals, RunInv, ForkInv, ParentInv, ReparentInv, TypeOK, Dead,
     ExitPCs
<1>30. ASSUME NEW p \in Slot, ReapFails(p) PROVE ParentInv'
  BY <1>0, <1>30, SlotBasics DEF ReapFails, ScanChild, At, Running, Goto,
     table, locals, RunInv, ForkInv, ParentInv, ReparentInv, TypeOK, Dead,
     ExitPCs
<1>31. ASSUME NEW p \in Slot, ScanDone(p) PROVE ParentInv'
  BY <1>0, <1>31, SlotBasics DEF ScanDone, At, Running, Goto, table, locals,
     RunInv, ForkInv, ParentInv, ReparentInv, TypeOK, Dead, ExitPCs
<1>32. ASSUME NEW p \in Slot, WaitSleep(p) PROVE ParentInv'
  BY <1>0, <1>32, SlotBasics DEF WaitSleep, At, Running, Goto, GiveUp, table,
     locals, RunInv, ForkInv, ParentInv, ReparentInv, TypeOK, Dead, ExitPCs
<1>33. ASSUME NEW p \in Slot, KillSkip(p) PROVE ParentInv'
  BY <1>0, <1>33, SlotBasics DEF KillSkip, At, Running, Advance, table,
     locals, RunInv, ForkInv, ParentInv, ReparentInv, TypeOK, Dead, ExitPCs
<1>34. ASSUME NEW p \in Slot, Kill(p) PROVE ParentInv'
  BY <1>0, <1>34, SlotBasics DEF Kill, At, Running, Goto, table, locals,
     RunInv, ForkInv, ParentInv, ReparentInv, TypeOK, Dead, ExitPCs
<1>35. ASSUME NEW p \in Slot, KillNobody(p) PROVE ParentInv'
  BY <1>0, <1>35, SlotBasics DEF KillNobody, At, Running, Goto, table, locals,
     RunInv, ForkInv, ParentInv, ReparentInv, TypeOK, Dead, ExitPCs
<1> QED
  BY <1>1, <1>2, <1>3, <1>4, <1>5, <1>6, <1>7, <1>8, <1>9, <1>10, <1>11,
     <1>12, <1>13, <1>14, <1>15, <1>16, <1>17, <1>18, <1>19, <1>20, <1>21,
     <1>22, <1>23, <1>24, <1>25, <1>26, <1>27, <1>28, <1>29, <1>30, <1>31,
     <1>32, <1>33, <1>34, <1>35 DEF Next, Timer, KernelStep, ForkStep,
     ExitStep, WaitStep, KillStep

\* reparent() leaves no child behind.
LEMMA ReparentStep == ProcInv /\ [Next]_vars => ReparentInv'
<1> SUFFICES ASSUME ProcInv, [Next]_vars PROVE ReparentInv'
  OBVIOUS
<1>0. TypeOK /\ RunInv /\ LockInv /\ ReparentInv
  BY DEF ProcInv
<1>1. CASE UNCHANGED vars
  BY <1>0, <1>1 DEF vars, table, locals, RunInv, LockInv, ReparentInv, TypeOK,
     WaitLocked, ExitPCs
<1>2. ASSUME NEW c \in CPU, NEW p \in Slot, Dispatch(c, p) PROVE ReparentInv'
  BY <1>0, <1>2, SlotBasics DEF Dispatch, table, locals, RunInv, LockInv,
     ReparentInv, TypeOK, WaitLocked, ExitPCs
<1>3. ASSUME NEW c \in CPU, SwitchOut(c) PROVE ReparentInv'
  BY <1>0, <1>3, SlotBasics DEF SwitchOut, table, locals, RunInv, LockInv,
     ReparentInv, TypeOK, WaitLocked, ExitPCs
<1>4. ASSUME NEW p \in Slot, Resume(p) PROVE ReparentInv'
  BY <1>0, <1>4, SlotBasics DEF Resume, Goto, table, locals, RunInv, LockInv,
     ReparentInv, TypeOK, WaitLocked, ExitPCs
<1>5. ASSUME NEW p \in Slot, TimerExit(p) PROVE ReparentInv'
  BY <1>0, <1>5, SlotBasics DEF TimerExit, At, Running, Goto, table, locals,
     RunInv, LockInv, ReparentInv, TypeOK, WaitLocked, ExitPCs
<1>6. ASSUME NEW p \in Slot, TimerYield(p) PROVE ReparentInv'
  BY <1>0, <1>6, SlotBasics DEF TimerYield, Running, GiveUp, Interruptible,
     table, locals, RunInv, LockInv, ReparentInv, TypeOK, WaitLocked, ExitPCs
<1>7. ASSUME NEW p \in Slot, Fault(p) PROVE ReparentInv'
  BY <1>0, <1>7, SlotBasics DEF Fault, At, Running, Goto, table, locals,
     RunInv, LockInv, ReparentInv, TypeOK, WaitLocked, ExitPCs
<1>8. ASSUME NEW p \in Slot, NEW call \in Calls,
             NEW n \in KillArgs \cup {0}, Syscall(p, call, n)
      PROVE  ReparentInv'
  BY <1>0, <1>8, SlotBasics DEF Syscall, At, Running, Goto, Start, Calls,
     table, locals, RunInv, LockInv, ReparentInv, TypeOK, WaitLocked, ExitPCs
<1>9. ASSUME NEW p \in Slot, SyscallReturn(p) PROVE ReparentInv'
  BY <1>0, <1>9, SlotBasics DEF SyscallReturn, At, Running, Goto, table,
     locals, RunInv, LockInv, ReparentInv, TypeOK, WaitLocked, ExitPCs
<1>10. ASSUME NEW p \in Slot, AllocSkip(p) PROVE ReparentInv'
  BY <1>0, <1>10, SlotBasics DEF AllocSkip, At, Running, Advance, table,
     locals, RunInv, LockInv, ReparentInv, TypeOK, WaitLocked, ExitPCs
<1>11. ASSUME NEW p \in Slot, AllocFound(p) PROVE ReparentInv'
  BY <1>0, <1>11, SlotBasics DEF AllocFound, At, Running, allocpid, table,
     locals, RunInv, LockInv, ReparentInv, TypeOK, WaitLocked, ExitPCs
<1>12. ASSUME NEW p \in Slot, AllocFail(p) PROVE ReparentInv'
  BY <1>0, <1>12, SlotBasics DEF AllocFail, At, Running, Goto, allocpid,
     freeproc, table, locals, RunInv, LockInv, ReparentInv, TypeOK,
     WaitLocked, ExitPCs
<1>13. ASSUME NEW p \in Slot, AllocprocFull(p) PROVE ReparentInv'
  BY <1>0, <1>13, SlotBasics DEF AllocprocFull, At, Running, Goto, table,
     locals, RunInv, LockInv, ReparentInv, TypeOK, WaitLocked, ExitPCs
<1>14. ASSUME NEW p \in Slot, ForkParent(p) PROVE ReparentInv'
  BY <1>0, <1>14, SlotBasics DEF ForkParent, At, Running, Goto, table, locals,
     RunInv, LockInv, ReparentInv, TypeOK, WaitLocked, ExitPCs
<1>15. ASSUME NEW p \in Slot, ForkRun(p) PROVE ReparentInv'
  BY <1>0, <1>15, SlotBasics DEF ForkRun, At, Running, Goto, table, locals,
     RunInv, LockInv, ReparentInv, TypeOK, WaitLocked, ExitPCs
<1>16. ASSUME NEW p \in Slot, ExitFiles(p) PROVE ReparentInv'
  BY <1>0, <1>16, SlotBasics DEF ExitFiles, At, Running, Goto, table, locals,
     RunInv, LockInv, ReparentInv, TypeOK, WaitLocked, ExitPCs
<1>17. ASSUME NEW p \in Slot, ExitLock(p) PROVE ReparentInv'
  BY <1>0, <1>17, SlotFacts DEF ExitLock, At, Running, Goto, Start, table,
     locals, RunInv, LockInv, ReparentInv, TypeOK, WaitLocked, ExitPCs
<1>18. ASSUME NEW p \in Slot, ReparentSkip(p) PROVE ReparentInv'
  <2>1. at[p] \in Slot /\ at'[p] = at[p] + 1
    BY <1>0, <1>18 DEF ReparentSkip, Advance, TypeOK
  <2>2. \A q \in Slot : q < at'[p] => q < at[p] \/ q = at[p]
    BY <2>1, SlotFacts, Zenon
  <2>3. \A q \in Slot : q # p => at'[q] = at[q]
    BY <1>0, <1>18 DEF ReparentSkip, Advance, TypeOK
  <2>4. parent[at[p]] # p /\ pc[p] = "reparent" /\ UNCHANGED <<pc, parent, state>>
    BY <1>18 DEF ReparentSkip, At, table
  <2> QED
    BY <1>0, <2>1, <2>2, <2>3, <2>4, SlotFacts, Zenon DEF ReparentInv
<1>19. ASSUME NEW p \in Slot, Reparent(p) PROVE ReparentInv'
  BY <1>0, <1>19, SlotFacts DEF Reparent, At, Running, Goto, table, locals,
     RunInv, LockInv, ReparentInv, TypeOK, WaitLocked, ExitPCs
<1>20. ASSUME NEW p \in Slot, ReparentDone(p) PROVE ReparentInv'
  BY <1>0, <1>20, SlotFacts DEF ReparentDone, At, Running, Goto, table,
     locals, RunInv, LockInv, ReparentInv, TypeOK, WaitLocked, ExitPCs
<1>21. ASSUME NEW p \in Slot, WakeupSkip(p) PROVE ReparentInv'
  BY <1>0, <1>21, SlotFacts DEF WakeupSkip, InWakeup, ToWake, WakeChan, At,
     Running, table, locals, RunInv, LockInv, ReparentInv, TypeOK, WaitLocked,
     ExitPCs
<1>22. ASSUME NEW p \in Slot, Wakeup(p) PROVE ReparentInv'
  BY <1>0, <1>22, SlotFacts DEF Wakeup, InWakeup, ToWake, WakeChan, At,
     Running, table, locals, RunInv, LockInv, ReparentInv, TypeOK, WaitLocked,
     ExitPCs
<1>23. ASSUME NEW p \in Slot, RewakeDone(p) PROVE ReparentInv'
  BY <1>0, <1>23, SlotFacts DEF RewakeDone, At, Running, Goto, Advance, table,
     locals, RunInv, LockInv, ReparentInv, TypeOK, WaitLocked, ExitPCs
<1>24. ASSUME NEW p \in Slot, ExwakeDone(p) PROVE ReparentInv'
  BY <1>0, <1>24, SlotFacts DEF ExwakeDone, At, Running, Goto, table, locals,
     RunInv, LockInv, ReparentInv, TypeOK, WaitLocked, ExitPCs
<1>25. ASSUME NEW p \in Slot, Zombie(p) PROVE ReparentInv'
  BY <1>0, <1>25, SlotBasics DEF Zombie, At, Running, Goto, GiveUp, table,
     locals, RunInv, LockInv, ReparentInv, TypeOK, WaitLocked, ExitPCs
<1>26. ASSUME NEW p \in Slot, WaitLock(p) PROVE ReparentInv'
  BY <1>0, <1>26, SlotFacts DEF WaitLock, At, Running, Goto, Start, table,
     locals, RunInv, LockInv, ReparentInv, TypeOK, WaitLocked, ExitPCs
<1>27. ASSUME NEW p \in Slot, ScanOther(p) PROVE ReparentInv'
  BY <1>0, <1>27, SlotFacts DEF ScanOther, At, Running, Advance, table,
     locals, RunInv, LockInv, ReparentInv, TypeOK, WaitLocked, ExitPCs
<1>28. ASSUME NEW p \in Slot, ScanAlive(p) PROVE ReparentInv'
  BY <1>0, <1>28, SlotFacts DEF ScanAlive, ScanChild, At, Running, Advance,
     table, locals, RunInv, LockInv, ReparentInv, TypeOK, WaitLocked, ExitPCs
<1>29. ASSUME NEW p \in Slot, Reap(p) PROVE ReparentInv'
  BY <1>0, <1>29, SlotBasics DEF Reap, ScanChild, At, Running, Goto, freeproc,
     table, locals, RunInv, LockInv, ReparentInv, TypeOK, WaitLocked, ExitPCs
<1>30. ASSUME NEW p \in Slot, ReapFails(p) PROVE ReparentInv'
  BY <1>0, <1>30, SlotBasics DEF ReapFails, ScanChild, At, Running, Goto,
     table, locals, RunInv, LockInv, ReparentInv, TypeOK, WaitLocked, ExitPCs
<1>31. ASSUME NEW p \in Slot, ScanDone(p) PROVE ReparentInv'
  BY <1>0, <1>31, SlotFacts DEF ScanDone, At, Running, Goto, table, locals,
     RunInv, LockInv, ReparentInv, TypeOK, WaitLocked, ExitPCs
<1>32. ASSUME NEW p \in Slot, WaitSleep(p) PROVE ReparentInv'
  BY <1>0, <1>32, SlotBasics DEF WaitSleep, At, Running, Goto, GiveUp, table,
     locals, RunInv, LockInv, ReparentInv, TypeOK, WaitLocked, ExitPCs
<1>33. ASSUME NEW p \in Slot, KillSkip(p) PROVE ReparentInv'
  BY <1>0, <1>33, SlotBasics DEF KillSkip, At, Running, Advance, table,
     locals, RunInv, LockInv, ReparentInv, TypeOK, WaitLocked, ExitPCs
<1>34. ASSUME NEW p \in Slot, Kill(p) PROVE ReparentInv'
  BY <1>0, <1>34, SlotBasics DEF Kill, At, Running, Goto, table, locals,
     RunInv, LockInv, ReparentInv, TypeOK, WaitLocked, ExitPCs
<1>35. ASSUME NEW p \in Slot, KillNobody(p) PROVE ReparentInv'
  BY <1>0, <1>35, SlotBasics DEF KillNobody, At, Running, Goto, table, locals,
     RunInv, LockInv, ReparentInv, TypeOK, WaitLocked, ExitPCs
<1> QED
  BY <1>1, <1>2, <1>3, <1>4, <1>5, <1>6, <1>7, <1>8, <1>9, <1>10, <1>11,
     <1>12, <1>13, <1>14, <1>15, <1>16, <1>17, <1>18, <1>19, <1>20, <1>21,
     <1>22, <1>23, <1>24, <1>25, <1>26, <1>27, <1>28, <1>29, <1>30, <1>31,
     <1>32, <1>33, <1>34, <1>35 DEF Next, Timer, KernelStep, ForkStep,
     ExitStep, WaitStep, KillStep

\* No child that wait() has looked at exits while wait() holds wait_lock.
LEMMA ScanStep == ProcInv /\ [Next]_vars => ScanInv'
<1> SUFFICES ASSUME ProcInv, [Next]_vars PROVE ScanInv'
  OBVIOUS
<1>0. TypeOK /\ RunInv /\ LockInv /\ ForkInv /\ ParentInv /\ ScanInv
  BY DEF ProcInv
<1>1. CASE UNCHANGED vars
  BY <1>0, <1>1 DEF vars, table, locals, RunInv, LockInv, ForkInv, ParentInv,
     ScanInv, TypeOK, WaitLocked, Dead
<1>2. ASSUME NEW c \in CPU, NEW p \in Slot, Dispatch(c, p) PROVE ScanInv'
  BY <1>0, <1>2, SlotBasics DEF Dispatch, table, locals, RunInv, LockInv,
     ForkInv, ParentInv, ScanInv, TypeOK, WaitLocked, Dead
<1>3. ASSUME NEW c \in CPU, SwitchOut(c) PROVE ScanInv'
  BY <1>0, <1>3, SlotBasics DEF SwitchOut, table, locals, RunInv, LockInv,
     ForkInv, ParentInv, ScanInv, TypeOK, WaitLocked, Dead
<1>4. ASSUME NEW p \in Slot, Resume(p) PROVE ScanInv'
  BY <1>0, <1>4, SlotBasics DEF Resume, Goto, table, locals, RunInv, LockInv,
     ForkInv, ParentInv, ScanInv, TypeOK, WaitLocked, Dead
<1>5. ASSUME NEW p \in Slot, TimerExit(p) PROVE ScanInv'
  BY <1>0, <1>5, SlotBasics DEF TimerExit, At, Running, Goto, table, locals,
     RunInv, LockInv, ForkInv, ParentInv, ScanInv, TypeOK, WaitLocked, Dead
<1>6. ASSUME NEW p \in Slot, TimerYield(p) PROVE ScanInv'
  BY <1>0, <1>6, SlotBasics DEF TimerYield, Running, GiveUp, Interruptible,
     table, locals, RunInv, LockInv, ForkInv, ParentInv, ScanInv, TypeOK,
     WaitLocked, Dead
<1>7. ASSUME NEW p \in Slot, Fault(p) PROVE ScanInv'
  BY <1>0, <1>7, SlotBasics DEF Fault, At, Running, Goto, table, locals,
     RunInv, LockInv, ForkInv, ParentInv, ScanInv, TypeOK, WaitLocked, Dead
<1>8. ASSUME NEW p \in Slot, NEW call \in Calls,
             NEW n \in KillArgs \cup {0}, Syscall(p, call, n)
      PROVE  ScanInv'
  BY <1>0, <1>8, SlotBasics DEF Syscall, At, Running, Goto, Start, Calls,
     table, locals, RunInv, LockInv, ForkInv, ParentInv, ScanInv, TypeOK,
     WaitLocked, Dead
<1>9. ASSUME NEW p \in Slot, SyscallReturn(p) PROVE ScanInv'
  BY <1>0, <1>9, SlotBasics DEF SyscallReturn, At, Running, Goto, table,
     locals, RunInv, LockInv, ForkInv, ParentInv, ScanInv, TypeOK, WaitLocked,
     Dead
<1>10. ASSUME NEW p \in Slot, AllocSkip(p) PROVE ScanInv'
  BY <1>0, <1>10, SlotBasics, SMTT(20) DEF AllocSkip, At, Running, Advance, table,
     locals, RunInv, LockInv, ForkInv, ParentInv, ScanInv, TypeOK, WaitLocked,
     Dead
<1>11. ASSUME NEW p \in Slot, AllocFound(p) PROVE ScanInv'
  BY <1>0, <1>11, SlotBasics DEF AllocFound, At, Running, allocpid, table,
     locals, RunInv, LockInv, ForkInv, ParentInv, ScanInv, TypeOK, WaitLocked,
     Dead
<1>12. ASSUME NEW p \in Slot, AllocFail(p) PROVE ScanInv'
  BY <1>0, <1>12, SlotBasics DEF AllocFail, At, Running, Goto, allocpid,
     freeproc, table, locals, RunInv, LockInv, ForkInv, ParentInv, ScanInv,
     TypeOK, WaitLocked, Dead
<1>13. ASSUME NEW p \in Slot, AllocprocFull(p) PROVE ScanInv'
  BY <1>0, <1>13, SlotBasics DEF AllocprocFull, At, Running, Goto, table,
     locals, RunInv, LockInv, ForkInv, ParentInv, ScanInv, TypeOK, WaitLocked,
     Dead
<1>14. ASSUME NEW p \in Slot, ForkParent(p) PROVE ScanInv'
  BY <1>0, <1>14, SlotBasics DEF ForkParent, At, Running, Goto, table, locals,
     RunInv, LockInv, ForkInv, ParentInv, ScanInv, TypeOK, WaitLocked, Dead
<1>15. ASSUME NEW p \in Slot, ForkRun(p) PROVE ScanInv'
  BY <1>0, <1>15, SlotBasics DEF ForkRun, At, Running, Goto, table, locals,
     RunInv, LockInv, ForkInv, ParentInv, ScanInv, TypeOK, WaitLocked, Dead
<1>16. ASSUME NEW p \in Slot, ExitFiles(p) PROVE ScanInv'
  BY <1>0, <1>16, SlotBasics DEF ExitFiles, At, Running, Goto, table, locals,
     RunInv, LockInv, ForkInv, ParentInv, ScanInv, TypeOK, WaitLocked, Dead
<1>17. ASSUME NEW p \in Slot, ExitLock(p) PROVE ScanInv'
  BY <1>0, <1>17, SlotFacts DEF ExitLock, At, Running, Goto, Start, table,
     locals, RunInv, LockInv, ForkInv, ParentInv, ScanInv, TypeOK, WaitLocked,
     Dead
<1>18. ASSUME NEW p \in Slot, ReparentSkip(p) PROVE ScanInv'
  BY <1>0, <1>18, SlotFacts DEF ReparentSkip, At, Running, Advance, table,
     locals, RunInv, LockInv, ForkInv, ParentInv, ScanInv, TypeOK, WaitLocked,
     Dead
<1>19. ASSUME NEW p \in Slot, Reparent(p) PROVE ScanInv'
  BY <1>0, <1>19, SlotFacts DEF Reparent, At, Running, Goto, table, locals,
     RunInv, LockInv, ForkInv, ParentInv, ScanInv, TypeOK, WaitLocked, Dead
<1>20. ASSUME NEW p \in Slot, ReparentDone(p) PROVE ScanInv'
  BY <1>0, <1>20, SlotFacts, SMTT(20) DEF ReparentDone, At, Running, Goto, table,
     locals, RunInv, LockInv, ForkInv, ParentInv, ScanInv, TypeOK, WaitLocked,
     Dead
<1>21. ASSUME NEW p \in Slot, WakeupSkip(p) PROVE ScanInv'
  BY <1>0, <1>21, SlotFacts, SMTT(20) DEF WakeupSkip, InWakeup, ToWake, WakeChan, At,
     Running, table, locals, RunInv, LockInv, ForkInv, ParentInv, ScanInv,
     TypeOK, WaitLocked, Dead
<1>22. ASSUME NEW p \in Slot, Wakeup(p) PROVE ScanInv'
  BY <1>0, <1>22, SlotFacts, SMTT(20) DEF Wakeup, InWakeup, ToWake, WakeChan, At,
     Running, table, locals, RunInv, LockInv, ForkInv, ParentInv, ScanInv,
     TypeOK, WaitLocked, Dead
<1>23. ASSUME NEW p \in Slot, RewakeDone(p) PROVE ScanInv'
  BY <1>0, <1>23, SlotFacts, SMTT(20) DEF RewakeDone, At, Running, Goto, Advance, table,
     locals, RunInv, LockInv, ForkInv, ParentInv, ScanInv, TypeOK, WaitLocked,
     Dead
<1>24. ASSUME NEW p \in Slot, ExwakeDone(p) PROVE ScanInv'
  BY <1>0, <1>24, SlotFacts, SMTT(20) DEF ExwakeDone, At, Running, Goto, table, locals,
     RunInv, LockInv, ForkInv, ParentInv, ScanInv, TypeOK, WaitLocked, Dead
<1>25. ASSUME NEW p \in Slot, Zombie(p) PROVE ScanInv'
  BY <1>0, <1>25, SlotBasics DEF Zombie, At, Running, Goto, GiveUp, table,
     locals, RunInv, LockInv, ForkInv, ParentInv, ScanInv, TypeOK, WaitLocked,
     Dead
<1>26. ASSUME NEW p \in Slot, WaitLock(p) PROVE ScanInv'
  BY <1>0, <1>26, SlotFacts DEF WaitLock, At, Running, Goto, Start, table,
     locals, RunInv, LockInv, ForkInv, ParentInv, ScanInv, TypeOK, WaitLocked,
     Dead
<1>27. ASSUME NEW p \in Slot, ScanOther(p) PROVE ScanInv'
  <2>1. at[p] \in Slot /\ at'[p] = at[p] + 1
    BY <1>0, <1>27 DEF ScanOther, Advance, TypeOK
  <2>2. \A q \in Slot : q < at'[p] => q < at[p] \/ q = at[p]
    BY <2>1, SlotFacts, ZenonT(20)
  <2>3. \A q \in Slot : q # p => at'[q] = at[q]
    BY <1>0, <1>27 DEF ScanOther, Advance, TypeOK
  <2>4. parent[at[p]] # p /\ pc[p] = "scan" /\ UNCHANGED <<pc, parent, state>>
    BY <1>27 DEF ScanOther, At, table
  <2> QED
    BY <1>0, <2>1, <2>2, <2>3, <2>4, SlotFacts, Zenon DEF ScanInv
<1>28. ASSUME NEW p \in Slot, ScanAlive(p) PROVE ScanInv'
  BY <1>0, <1>28, SlotFacts DEF ScanAlive, ScanChild, At, Running, Advance,
     table, locals, RunInv, LockInv, ForkInv, ParentInv, ScanInv, TypeOK,
     WaitLocked, Dead
<1>29. ASSUME NEW p \in Slot, Reap(p) PROVE ScanInv'
  BY <1>0, <1>29, SlotBasics DEF Reap, ScanChild, At, Running, Goto, freeproc,
     table, locals, RunInv, LockInv, ForkInv, ParentInv, ScanInv, TypeOK,
     WaitLocked, Dead
<1>30. ASSUME NEW p \in Slot, ReapFails(p) PROVE ScanInv'
  BY <1>0, <1>30, SlotBasics DEF ReapFails, ScanChild, At, Running, Goto,
     table, locals, RunInv, LockInv, ForkInv, ParentInv, ScanInv, TypeOK,
     WaitLocked, Dead
<1>31. ASSUME NEW p \in Slot, ScanDone(p) PROVE ScanInv'
  BY <1>0, <1>31, SlotFacts DEF ScanDone, At, Running, Goto, table, locals,
     RunInv, LockInv, ForkInv, ParentInv, ScanInv, TypeOK, WaitLocked, Dead
<1>32. ASSUME NEW p \in Slot, WaitSleep(p) PROVE ScanInv'
  BY <1>0, <1>32, SlotBasics DEF WaitSleep, At, Running, Goto, GiveUp, table,
     locals, RunInv, LockInv, ForkInv, ParentInv, ScanInv, TypeOK, WaitLocked,
     Dead
<1>33. ASSUME NEW p \in Slot, KillSkip(p) PROVE ScanInv'
  BY <1>0, <1>33, SlotBasics, SMTT(20) DEF KillSkip, At, Running, Advance, table,
     locals, RunInv, LockInv, ForkInv, ParentInv, ScanInv, TypeOK, WaitLocked,
     Dead
<1>34. ASSUME NEW p \in Slot, Kill(p) PROVE ScanInv'
  BY <1>0, <1>34, SlotBasics DEF Kill, At, Running, Goto, table, locals,
     RunInv, LockInv, ForkInv, ParentInv, ScanInv, TypeOK, WaitLocked, Dead
<1>35. ASSUME NEW p \in Slot, KillNobody(p) PROVE ScanInv'
  BY <1>0, <1>35, SlotBasics DEF KillNobody, At, Running, Goto, table, locals,
     RunInv, LockInv, ForkInv, ParentInv, ScanInv, TypeOK, WaitLocked, Dead
<1> QED
  BY <1>1, <1>2, <1>3, <1>4, <1>5, <1>6, <1>7, <1>8, <1>9, <1>10, <1>11,
     <1>12, <1>13, <1>14, <1>15, <1>16, <1>17, <1>18, <1>19, <1>20, <1>21,
     <1>22, <1>23, <1>24, <1>25, <1>26, <1>27, <1>28, <1>29, <1>30, <1>31,
     <1>32, <1>33, <1>34, <1>35 DEF Next, Timer, KernelStep, ForkStep,
     ExitStep, WaitStep, KillStep

\* A woken parent does not sleep again before it gets wait_lock.
LEMMA WokenStep == ProcInv /\ [Next]_vars => WokenInv'
<1> SUFFICES ASSUME ProcInv, [Next]_vars PROVE WokenInv'
  OBVIOUS
<1>0. TypeOK /\ RunInv /\ LockInv /\ ParentInv /\ WokenInv
  BY DEF ProcInv
<1>1. CASE UNCHANGED vars
  BY <1>0, <1>1 DEF vars, table, locals, RunInv, LockInv, ParentInv, WokenInv,
     TypeOK, WaitLocked, Dead
<1>2. ASSUME NEW c \in CPU, NEW p \in Slot, Dispatch(c, p) PROVE WokenInv'
  BY <1>0, <1>2, SlotBasics DEF Dispatch, table, locals, RunInv, LockInv,
     ParentInv, WokenInv, TypeOK, WaitLocked, Dead
<1>3. ASSUME NEW c \in CPU, SwitchOut(c) PROVE WokenInv'
  BY <1>0, <1>3, SlotBasics DEF SwitchOut, table, locals, RunInv, LockInv,
     ParentInv, WokenInv, TypeOK, WaitLocked, Dead
<1>4. ASSUME NEW p \in Slot, Resume(p) PROVE WokenInv'
  BY <1>0, <1>4, SlotBasics DEF Resume, Goto, table, locals, RunInv, LockInv,
     ParentInv, WokenInv, TypeOK, WaitLocked, Dead
<1>5. ASSUME NEW p \in Slot, TimerExit(p) PROVE WokenInv'
  BY <1>0, <1>5, SlotBasics DEF TimerExit, At, Running, Goto, table, locals,
     RunInv, LockInv, ParentInv, WokenInv, TypeOK, WaitLocked, Dead
<1>6. ASSUME NEW p \in Slot, TimerYield(p) PROVE WokenInv'
  BY <1>0, <1>6, SlotBasics DEF TimerYield, Running, GiveUp, Interruptible,
     table, locals, RunInv, LockInv, ParentInv, WokenInv, TypeOK, WaitLocked,
     Dead
<1>7. ASSUME NEW p \in Slot, Fault(p) PROVE WokenInv'
  BY <1>0, <1>7, SlotBasics DEF Fault, At, Running, Goto, table, locals,
     RunInv, LockInv, ParentInv, WokenInv, TypeOK, WaitLocked, Dead
<1>8. ASSUME NEW p \in Slot, NEW call \in Calls,
             NEW n \in KillArgs \cup {0}, Syscall(p, call, n)
      PROVE  WokenInv'
  BY <1>0, <1>8, SlotBasics DEF Syscall, At, Running, Goto, Start, Calls,
     table, locals, RunInv, LockInv, ParentInv, WokenInv, TypeOK, WaitLocked,
     Dead
<1>9. ASSUME NEW p \in Slot, SyscallReturn(p) PROVE WokenInv'
  BY <1>0, <1>9, SlotBasics DEF SyscallReturn, At, Running, Goto, table,
     locals, RunInv, LockInv, ParentInv, WokenInv, TypeOK, WaitLocked, Dead
<1>10. ASSUME NEW p \in Slot, AllocSkip(p) PROVE WokenInv'
  BY <1>0, <1>10, SlotBasics DEF AllocSkip, At, Running, Advance, table,
     locals, RunInv, LockInv, ParentInv, WokenInv, TypeOK, WaitLocked, Dead
<1>11. ASSUME NEW p \in Slot, AllocFound(p) PROVE WokenInv'
  BY <1>0, <1>11, SlotBasics DEF AllocFound, At, Running, allocpid, table,
     locals, RunInv, LockInv, ParentInv, WokenInv, TypeOK, WaitLocked, Dead
<1>12. ASSUME NEW p \in Slot, AllocFail(p) PROVE WokenInv'
  BY <1>0, <1>12, SlotBasics DEF AllocFail, At, Running, Goto, allocpid,
     freeproc, table, locals, RunInv, LockInv, ParentInv, WokenInv, TypeOK,
     WaitLocked, Dead
<1>13. ASSUME NEW p \in Slot, AllocprocFull(p) PROVE WokenInv'
  BY <1>0, <1>13, SlotBasics DEF AllocprocFull, At, Running, Goto, table,
     locals, RunInv, LockInv, ParentInv, WokenInv, TypeOK, WaitLocked, Dead
<1>14. ASSUME NEW p \in Slot, ForkParent(p) PROVE WokenInv'
  BY <1>0, <1>14, SlotBasics DEF ForkParent, At, Running, Goto, table, locals,
     RunInv, LockInv, ParentInv, WokenInv, TypeOK, WaitLocked, Dead
<1>15. ASSUME NEW p \in Slot, ForkRun(p) PROVE WokenInv'
  BY <1>0, <1>15, SlotBasics DEF ForkRun, At, Running, Goto, table, locals,
     RunInv, LockInv, ParentInv, WokenInv, TypeOK, WaitLocked, Dead
<1>16. ASSUME NEW p \in Slot, ExitFiles(p) PROVE WokenInv'
  BY <1>0, <1>16, SlotBasics DEF ExitFiles, At, Running, Goto, table, locals,
     RunInv, LockInv, ParentInv, WokenInv, TypeOK, WaitLocked, Dead
<1>17. ASSUME NEW p \in Slot, ExitLock(p) PROVE WokenInv'
  BY <1>0, <1>17, SlotFacts DEF ExitLock, At, Running, Goto, Start, table,
     locals, RunInv, LockInv, ParentInv, WokenInv, TypeOK, WaitLocked, Dead
<1>18. ASSUME NEW p \in Slot, ReparentSkip(p) PROVE WokenInv'
  BY <1>0, <1>18, SlotFacts DEF ReparentSkip, At, Running, Advance, table,
     locals, RunInv, LockInv, ParentInv, WokenInv, TypeOK, WaitLocked, Dead
<1>19. ASSUME NEW p \in Slot, Reparent(p) PROVE WokenInv'
  BY <1>0, <1>19, SlotFacts DEF Reparent, At, Running, Goto, table, locals,
     RunInv, LockInv, ParentInv, WokenInv, TypeOK, WaitLocked, Dead
<1>20. ASSUME NEW p \in Slot, ReparentDone(p) PROVE WokenInv'
  BY <1>0, <1>20, SlotFacts DEF ReparentDone, At, Running, Goto, table,
     locals, RunInv, LockInv, ParentInv, WokenInv, TypeOK, WaitLocked, Dead
<1>21. ASSUME NEW p \in Slot, WakeupSkip(p) PROVE WokenInv'
  <2>1. wk[p] \in Slot /\ wk'[p] = wk[p] + 1
    BY <1>0, <1>21 DEF WakeupSkip, InWakeup, TypeOK
  <2>2. \A q \in Slot : q < wk'[p] => q < wk[p] \/ q = wk[p]
    BY <2>1, SlotFacts, ZenonT(20)
  <2>3. \A q \in Slot : q # p => wk'[q] = wk[q]
    BY <1>0, <1>21 DEF WakeupSkip, TypeOK
  <2>4. UNCHANGED <<pc, parent, state>>
    BY <1>21 DEF WakeupSkip, table
  <2>5. ASSUME pc[p] = "exwake", parent[p] = wk[p]
        PROVE  state[wk[p]] # "SLEEPING"
    BY <1>0, <1>21, <2>1, <2>5, SlotFacts, Zenon
    DEF WakeupSkip, ToWake, WakeChan, RunInv, ParentInv
  <2> QED
    BY <1>0, <2>1, <2>2, <2>3, <2>4, <2>5, SlotFacts, Zenon DEF WokenInv
<1>22. ASSUME NEW p \in Slot, Wakeup(p) PROVE WokenInv'
  BY <1>0, <1>22, SlotFacts DEF Wakeup, InWakeup, ToWake, WakeChan, At,
     Running, table, locals, RunInv, LockInv, ParentInv, WokenInv, TypeOK,
     WaitLocked, Dead
<1>23. ASSUME NEW p \in Slot, RewakeDone(p) PROVE WokenInv'
  BY <1>0, <1>23, SlotFacts DEF RewakeDone, At, Running, Goto, Advance, table,
     locals, RunInv, LockInv, ParentInv, WokenInv, TypeOK, WaitLocked, Dead
<1>24. ASSUME NEW p \in Slot, ExwakeDone(p) PROVE WokenInv'
  BY <1>0, <1>24, SlotFacts DEF ExwakeDone, At, Running, Goto, table, locals,
     RunInv, LockInv, ParentInv, WokenInv, TypeOK, WaitLocked, Dead
<1>25. ASSUME NEW p \in Slot, Zombie(p) PROVE WokenInv'
  BY <1>0, <1>25, SlotBasics DEF Zombie, At, Running, Goto, GiveUp, table,
     locals, RunInv, LockInv, ParentInv, WokenInv, TypeOK, WaitLocked, Dead
<1>26. ASSUME NEW p \in Slot, WaitLock(p) PROVE WokenInv'
  BY <1>0, <1>26, SlotFacts DEF WaitLock, At, Running, Goto, Start, table,
     locals, RunInv, LockInv, ParentInv, WokenInv, TypeOK, WaitLocked, Dead
<1>27. ASSUME NEW p \in Slot, ScanOther(p) PROVE WokenInv'
  BY <1>0, <1>27, SlotFacts DEF ScanOther, At, Running, Advance, table,
     locals, RunInv, LockInv, ParentInv, WokenInv, TypeOK, WaitLocked, Dead
<1>28. ASSUME NEW p \in Slot, ScanAlive(p) PROVE WokenInv'
  BY <1>0, <1>28, SlotFacts DEF ScanAlive, ScanChild, At, Running, Advance,
     table, locals, RunInv, LockInv, ParentInv, WokenInv, TypeOK, WaitLocked,
     Dead
<1>29. ASSUME NEW p \in Slot, Reap(p) PROVE WokenInv'
  BY <1>0, <1>29, SlotBasics DEF Reap, ScanChild, At, Running, Goto, freeproc,
     table, locals, RunInv, LockInv, ParentInv, WokenInv, TypeOK, WaitLocked,
     Dead
<1>30. ASSUME NEW p \in Slot, ReapFails(p) PROVE WokenInv'
  BY <1>0, <1>30, SlotBasics DEF ReapFails, ScanChild, At, Running, Goto,
     table, locals, RunInv, LockInv, ParentInv, WokenInv, TypeOK, WaitLocked,
     Dead
<1>31. ASSUME NEW p \in Slot, ScanDone(p) PROVE WokenInv'
  BY <1>0, <1>31, SlotFacts DEF ScanDone, At, Running, Goto, table, locals,
     RunInv, LockInv, ParentInv, WokenInv, TypeOK, WaitLocked, Dead
<1>32. ASSUME NEW p \in Slot, WaitSleep(p) PROVE WokenInv'
  BY <1>0, <1>32, SlotBasics DEF WaitSleep, At, Running, Goto, GiveUp, table,
     locals, RunInv, LockInv, ParentInv, WokenInv, TypeOK, WaitLocked, Dead
<1>33. ASSUME NEW p \in Slot, KillSkip(p) PROVE WokenInv'
  BY <1>0, <1>33, SlotBasics DEF KillSkip, At, Running, Advance, table,
     locals, RunInv, LockInv, ParentInv, WokenInv, TypeOK, WaitLocked, Dead
<1>34. ASSUME NEW p \in Slot, Kill(p) PROVE WokenInv'
  BY <1>0, <1>34, SlotBasics DEF Kill, At, Running, Goto, table, locals,
     RunInv, LockInv, ParentInv, WokenInv, TypeOK, WaitLocked, Dead
<1>35. ASSUME NEW p \in Slot, KillNobody(p) PROVE WokenInv'
  BY <1>0, <1>35, SlotBasics DEF KillNobody, At, Running, Goto, table, locals,
     RunInv, LockInv, ParentInv, WokenInv, TypeOK, WaitLocked, Dead
<1> QED
  BY <1>1, <1>2, <1>3, <1>4, <1>5, <1>6, <1>7, <1>8, <1>9, <1>10, <1>11,
     <1>12, <1>13, <1>14, <1>15, <1>16, <1>17, <1>18, <1>19, <1>20, <1>21,
     <1>22, <1>23, <1>24, <1>25, <1>26, <1>27, <1>28, <1>29, <1>30, <1>31,
     <1>32, <1>33, <1>34, <1>35 DEF Next, Timer, KernelStep, ForkStep,
     ExitStep, WaitStep, KillStep

\* Whoever sleeps in wait() has no zombie child that nobody announces.
LEMMA NoLostExitStep == ProcInv /\ [Next]_vars => NoLostExit'
<1> SUFFICES ASSUME ProcInv, [Next]_vars PROVE NoLostExit'
  OBVIOUS
<1>0. TypeOK /\ RunInv /\ LockInv /\ ParentInv /\ ScanInv /\ WokenInv /\ NoLostExit
  BY DEF ProcInv
<1>1. CASE UNCHANGED vars
  BY <1>0, <1>1 DEF vars, table, locals, RunInv, LockInv, ParentInv, ScanInv,
     WokenInv, NoLostExit, TypeOK, WaitLocked, ExitPCs
<1>2. ASSUME NEW c \in CPU, NEW p \in Slot, Dispatch(c, p) PROVE NoLostExit'
  BY <1>0, <1>2, SlotBasics, SMTT(20) DEF Dispatch, table, locals, RunInv, LockInv,
     ParentInv, ScanInv, WokenInv, NoLostExit, TypeOK, WaitLocked, ExitPCs
<1>3. ASSUME NEW c \in CPU, SwitchOut(c) PROVE NoLostExit'
  BY <1>0, <1>3, SlotBasics, SMTT(20) DEF SwitchOut, table, locals, RunInv, LockInv,
     ParentInv, ScanInv, WokenInv, NoLostExit, TypeOK, WaitLocked, ExitPCs
<1>4. ASSUME NEW p \in Slot, Resume(p) PROVE NoLostExit'
  BY <1>0, <1>4, SlotBasics DEF Resume, Goto, table, locals, RunInv, LockInv,
     ParentInv, ScanInv, WokenInv, NoLostExit, TypeOK, WaitLocked, ExitPCs
<1>5. ASSUME NEW p \in Slot, TimerExit(p) PROVE NoLostExit'
  BY <1>0, <1>5, SlotBasics DEF TimerExit, At, Running, Goto, table, locals,
     RunInv, LockInv, ParentInv, ScanInv, WokenInv, NoLostExit, TypeOK,
     WaitLocked, ExitPCs
<1>6. ASSUME NEW p \in Slot, TimerYield(p) PROVE NoLostExit'
  BY <1>0, <1>6, SlotBasics DEF TimerYield, Running, GiveUp, Interruptible,
     table, locals, RunInv, LockInv, ParentInv, ScanInv, WokenInv, NoLostExit,
     TypeOK, WaitLocked, ExitPCs
<1>7. ASSUME NEW p \in Slot, Fault(p) PROVE NoLostExit'
  BY <1>0, <1>7, SlotBasics DEF Fault, At, Running, Goto, table, locals,
     RunInv, LockInv, ParentInv, ScanInv, WokenInv, NoLostExit, TypeOK,
     WaitLocked, ExitPCs
<1>8. ASSUME NEW p \in Slot, NEW call \in Calls,
             NEW n \in KillArgs \cup {0}, Syscall(p, call, n)
      PROVE  NoLostExit'
  BY <1>0, <1>8, SlotBasics DEF Syscall, At, Running, Goto, Start, Calls,
     table, locals, RunInv, LockInv, ParentInv, ScanInv, WokenInv, NoLostExit,
     TypeOK, WaitLocked, ExitPCs
<1>9. ASSUME NEW p \in Slot, SyscallReturn(p) PROVE NoLostExit'
  BY <1>0, <1>9, SlotBasics DEF SyscallReturn, At, Running, Goto, table,
     locals, RunInv, LockInv, ParentInv, ScanInv, WokenInv, NoLostExit,
     TypeOK, WaitLocked, ExitPCs
<1>10. ASSUME NEW p \in Slot, AllocSkip(p) PROVE NoLostExit'
  BY <1>0, <1>10, SlotBasics DEF AllocSkip, At, Running, Advance, table,
     locals, RunInv, LockInv, ParentInv, ScanInv, WokenInv, NoLostExit,
     TypeOK, WaitLocked, ExitPCs
<1>11. ASSUME NEW p \in Slot, AllocFound(p) PROVE NoLostExit'
  BY <1>0, <1>11, SlotBasics DEF AllocFound, At, Running, allocpid, table,
     locals, RunInv, LockInv, ParentInv, ScanInv, WokenInv, NoLostExit,
     TypeOK, WaitLocked, ExitPCs
<1>12. ASSUME NEW p \in Slot, AllocFail(p) PROVE NoLostExit'
  BY <1>0, <1>12, SlotBasics DEF AllocFail, At, Running, Goto, allocpid,
     freeproc, table, locals, RunInv, LockInv, ParentInv, ScanInv, WokenInv,
     NoLostExit, TypeOK, WaitLocked, ExitPCs
<1>13. ASSUME NEW p \in Slot, AllocprocFull(p) PROVE NoLostExit'
  BY <1>0, <1>13, SlotBasics DEF AllocprocFull, At, Running, Goto, table,
     locals, RunInv, LockInv, ParentInv, ScanInv, WokenInv, NoLostExit,
     TypeOK, WaitLocked, ExitPCs
<1>14. ASSUME NEW p \in Slot, ForkParent(p) PROVE NoLostExit'
  BY <1>0, <1>14, SlotBasics DEF ForkParent, At, Running, Goto, table, locals,
     RunInv, LockInv, ParentInv, ScanInv, WokenInv, NoLostExit, TypeOK,
     WaitLocked, ExitPCs
<1>15. ASSUME NEW p \in Slot, ForkRun(p) PROVE NoLostExit'
  BY <1>0, <1>15, SlotBasics, SMTT(20) DEF ForkRun, At, Running, Goto, table, locals,
     RunInv, LockInv, ParentInv, ScanInv, WokenInv, NoLostExit, TypeOK,
     WaitLocked, ExitPCs
<1>16. ASSUME NEW p \in Slot, ExitFiles(p) PROVE NoLostExit'
  BY <1>0, <1>16, SlotBasics DEF ExitFiles, At, Running, Goto, table, locals,
     RunInv, LockInv, ParentInv, ScanInv, WokenInv, NoLostExit, TypeOK,
     WaitLocked, ExitPCs
<1>17. ASSUME NEW p \in Slot, ExitLock(p) PROVE NoLostExit'
  BY <1>0, <1>17, SlotFacts DEF ExitLock, At, Running, Goto, Start, table,
     locals, RunInv, LockInv, ParentInv, ScanInv, WokenInv, NoLostExit,
     TypeOK, WaitLocked, ExitPCs
<1>18. ASSUME NEW p \in Slot, ReparentSkip(p) PROVE NoLostExit'
  BY <1>0, <1>18, SlotFacts DEF ReparentSkip, At, Running, Advance, table,
     locals, RunInv, LockInv, ParentInv, ScanInv, WokenInv, NoLostExit,
     TypeOK, WaitLocked, ExitPCs
<1>19. ASSUME NEW p \in Slot, Reparent(p) PROVE NoLostExit'
  BY <1>0, <1>19, SlotFacts DEF Reparent, At, Running, Goto, table, locals,
     RunInv, LockInv, ParentInv, ScanInv, WokenInv, NoLostExit, TypeOK,
     WaitLocked, ExitPCs
<1>20. ASSUME NEW p \in Slot, ReparentDone(p) PROVE NoLostExit'
  BY <1>0, <1>20, SlotFacts DEF ReparentDone, At, Running, Goto, table,
     locals, RunInv, LockInv, ParentInv, ScanInv, WokenInv, NoLostExit,
     TypeOK, WaitLocked, ExitPCs
<1>21. ASSUME NEW p \in Slot, WakeupSkip(p) PROVE NoLostExit'
  BY <1>0, <1>21, SlotFacts DEF WakeupSkip, InWakeup, ToWake, WakeChan, At,
     Running, table, locals, RunInv, LockInv, ParentInv, ScanInv, WokenInv,
     NoLostExit, TypeOK, WaitLocked, ExitPCs
<1>22. ASSUME NEW p \in Slot, Wakeup(p) PROVE NoLostExit'
  BY <1>0, <1>22, SlotFacts DEF Wakeup, InWakeup, ToWake, WakeChan, At,
     Running, table, locals, RunInv, LockInv, ParentInv, ScanInv, WokenInv,
     NoLostExit, TypeOK, WaitLocked, ExitPCs
<1>23. ASSUME NEW p \in Slot, RewakeDone(p) PROVE NoLostExit'
  BY <1>0, <1>23, SlotFacts DEF RewakeDone, At, Running, Goto, Advance, table,
     locals, RunInv, LockInv, ParentInv, ScanInv, WokenInv, NoLostExit,
     TypeOK, WaitLocked, ExitPCs
<1>24. ASSUME NEW p \in Slot, ExwakeDone(p) PROVE NoLostExit'
  BY <1>0, <1>24, SlotFacts DEF ExwakeDone, At, Running, Goto, table, locals,
     RunInv, LockInv, ParentInv, ScanInv, WokenInv, NoLostExit, TypeOK,
     WaitLocked, ExitPCs
<1>25. ASSUME NEW p \in Slot, Zombie(p) PROVE NoLostExit'
  BY <1>0, <1>25, SlotBasics DEF Zombie, At, Running, Goto, GiveUp, table,
     locals, RunInv, LockInv, ParentInv, ScanInv, WokenInv, NoLostExit,
     TypeOK, WaitLocked, ExitPCs
<1>26. ASSUME NEW p \in Slot, WaitLock(p) PROVE NoLostExit'
  BY <1>0, <1>26, SlotFacts, SMTT(20) DEF WaitLock, At, Running, Goto, Start, table,
     locals, RunInv, LockInv, ParentInv, ScanInv, WokenInv, NoLostExit,
     TypeOK, WaitLocked, ExitPCs
<1>27. ASSUME NEW p \in Slot, ScanOther(p) PROVE NoLostExit'
  BY <1>0, <1>27, SlotFacts, SMTT(20) DEF ScanOther, At, Running, Advance, table,
     locals, RunInv, LockInv, ParentInv, ScanInv, WokenInv, NoLostExit,
     TypeOK, WaitLocked, ExitPCs
<1>28. ASSUME NEW p \in Slot, ScanAlive(p) PROVE NoLostExit'
  BY <1>0, <1>28, SlotFacts, SMTT(20) DEF ScanAlive, ScanChild, At, Running, Advance,
     table, locals, RunInv, LockInv, ParentInv, ScanInv, WokenInv, NoLostExit,
     TypeOK, WaitLocked, ExitPCs
<1>29. ASSUME NEW p \in Slot, Reap(p) PROVE NoLostExit'
  BY <1>0, <1>29, SlotBasics DEF Reap, ScanChild, At, Running, Goto, freeproc,
     table, locals, RunInv, LockInv, ParentInv, ScanInv, WokenInv, NoLostExit,
     TypeOK, WaitLocked, ExitPCs
<1>30. ASSUME NEW p \in Slot, ReapFails(p) PROVE NoLostExit'
  BY <1>0, <1>30, SlotBasics DEF ReapFails, ScanChild, At, Running, Goto,
     table, locals, RunInv, LockInv, ParentInv, ScanInv, WokenInv, NoLostExit,
     TypeOK, WaitLocked, ExitPCs
<1>31. ASSUME NEW p \in Slot, ScanDone(p) PROVE NoLostExit'
  BY <1>0, <1>31, SlotFacts DEF ScanDone, At, Running, Goto, table, locals,
     RunInv, LockInv, ParentInv, ScanInv, WokenInv, NoLostExit, TypeOK,
     WaitLocked, ExitPCs
<1>32. ASSUME NEW p \in Slot, WaitSleep(p) PROVE NoLostExit'
  BY <1>0, <1>32, SlotBasics DEF WaitSleep, At, Running, Goto, GiveUp, table,
     locals, RunInv, LockInv, ParentInv, ScanInv, WokenInv, NoLostExit,
     TypeOK, WaitLocked, ExitPCs
<1>33. ASSUME NEW p \in Slot, KillSkip(p) PROVE NoLostExit'
  BY <1>0, <1>33, SlotBasics DEF KillSkip, At, Running, Advance, table,
     locals, RunInv, LockInv, ParentInv, ScanInv, WokenInv, NoLostExit,
     TypeOK, WaitLocked, ExitPCs
<1>34. ASSUME NEW p \in Slot, Kill(p) PROVE NoLostExit'
  BY <1>0, <1>34, SlotBasics DEF Kill, At, Running, Goto, table, locals,
     RunInv, LockInv, ParentInv, ScanInv, WokenInv, NoLostExit, TypeOK,
     WaitLocked, ExitPCs
<1>35. ASSUME NEW p \in Slot, KillNobody(p) PROVE NoLostExit'
  BY <1>0, <1>35, SlotBasics DEF KillNobody, At, Running, Goto, table, locals,
     RunInv, LockInv, ParentInv, ScanInv, WokenInv, NoLostExit, TypeOK,
     WaitLocked, ExitPCs
<1> QED
  BY <1>1, <1>2, <1>3, <1>4, <1>5, <1>6, <1>7, <1>8, <1>9, <1>10, <1>11,
     <1>12, <1>13, <1>14, <1>15, <1>16, <1>17, <1>18, <1>19, <1>20, <1>21,
     <1>22, <1>23, <1>24, <1>25, <1>26, <1>27, <1>28, <1>29, <1>30, <1>31,
     <1>32, <1>33, <1>34, <1>35 DEF Next, Timer, KernelStep, ForkStep,
     ExitStep, WaitStep, KillStep

\* The first process, alone and not yet running, satisfies the invariant.
LEMMA InitInv == Init => ProcInv
<1> SUFFICES ASSUME Init PROVE ProcInv
  OBVIOUS
<1>1. TypeOK
  BY SlotFacts, ConstAssumption DEF Init, TypeOK, PCs, PStates
<1>2. RunInv /\ LockInv
  BY SlotFacts DEF Init, RunInv, StackExclusive, LockInv, WaitLocked, ExitPCs
<1>3. ForkInv /\ ParentInv
  BY SlotFacts DEF Init, ForkInv, ParentInv, Dead
<1>4. ReparentInv /\ ScanInv /\ WokenInv /\ NoLostExit
  BY SlotFacts DEF Init, ReparentInv, ScanInv, WokenInv, NoLostExit
<1> QED
  BY <1>1, <1>2, <1>3, <1>4 DEF ProcInv

\* ProcInv holds in every state the process table can reach.
THEOREM ProcInvariant == Spec => []ProcInv
<1>1. ProcInv /\ [Next]_vars => ProcInv'
  BY TypeStep, RunStep, LockStep, ForkStepInv, ParentStep, ReparentStep,
     ScanStep, WokenStep, NoLostExitStep DEF ProcInv
<1> QED
  BY InitInv, <1>1, PTL DEF Spec

\* The type invariant alone.
THEOREM TypeCorrect == Spec => []TypeOK
  BY ProcInvariant, PTL DEF ProcInv

\* sched() and scheduler() hand a kernel stack over without ever sharing it,
\* on any number of CPUs.
THEOREM StacksAreExclusive == Spec => []StackExclusive
  BY ProcInvariant, PTL DEF ProcInv, RunInv

\* exit() leaves no child without a parent that can wait() for it.
THEOREM ParentsLive == Spec => []ParentAlive
<1>1. ProcInv => ParentAlive
  BY DEF ProcInv, TypeOK, ParentInv, Dead, ParentAlive
<1> QED
  BY <1>1, ProcInvariant, PTL

\* wait() misses no exit.
THEOREM ExitsAreNotLost == Spec => []NoLostExit
  BY ProcInvariant, PTL DEF ProcInv

\* pids stay below the counter of allocpid(), which only grows.
PidInv == PidsUnique /\ \A p \in Slot : pid[p] < nextpid

\* No two slots share a pid.
THEOREM PidsAreUnique == Spec => []PidsUnique
<1>1. Init => PidInv
  BY DEF Init, PidInv, PidsUnique
<1>2. ProcInv /\ PidInv /\ [Next]_vars => PidInv'
  <2> SUFFICES ASSUME ProcInv, PidInv, [Next]_vars PROVE PidInv'
    OBVIOUS
  <2>0. TypeOK
    BY DEF ProcInv
  <2>1. ASSUME NEW p \in Slot, AllocFound(p) PROVE PidInv'
    BY <2>0, <2>1 DEF AllocFound, allocpid, TypeOK, PidInv, PidsUnique
  <2>2. ASSUME NEW p \in Slot, AllocFail(p) PROVE PidInv'
    BY <2>0, <2>2 DEF AllocFail, allocpid, freeproc, TypeOK, PidInv, PidsUnique
  <2>3. ASSUME NEW p \in Slot, Reap(p) PROVE PidInv'
    BY <2>0, <2>3
    DEF Reap, ScanChild, freeproc, TypeOK, PidInv, PidsUnique
  <2>4. CASE UNCHANGED <<pid, nextpid>>
    BY <2>4, SMTT(20) DEF PidInv, PidsUnique
  <2>5. ASSUME NEW p \in Slot, KernelStep(p) PROVE PidInv'
    BY <2>1, <2>2, <2>3, <2>4, <2>5, Zenon
    DEF KernelStep, ForkStep, AllocSkip, AllocprocFull, ForkParent, ForkRun,
        ExitStep, ExitFiles, ExitLock, ReparentSkip, Reparent, ReparentDone,
        WakeupSkip, Wakeup, RewakeDone, ExwakeDone, Zombie, WaitStep,
        WaitLock, ScanOther, ScanAlive, ReapFails, ScanDone, WaitSleep,
        KillStep, KillSkip, Kill, KillNobody, SyscallReturn, table
  <2> QED
    BY <2>4, <2>5
    DEF Next, Dispatch, SwitchOut, Resume, Timer, TimerExit, TimerYield,
        Fault, Syscall, vars, table
<1> QED
  BY <1>1, <1>2, ProcInvariant, PTL DEF Spec, PidInv

\* What kill() can find: an unused slot has no pid and is not killed, and
\* nobody passes kill() the pid 0.
KillInv ==
  \A p \in Slot :
    /\ state[p] = "UNUSED" => pid[p] = 0 /\ ~killed[p]
    /\ pc[p] = "kill" => arg[p] \in KillArgs


\* kill() marks only a process that has a pid.
LEMMA KillStepInv == ProcInv /\ KillInv /\ 0 \notin KillArgs /\ [Next]_vars => KillInv'
<1> SUFFICES ASSUME ProcInv, KillInv, 0 \notin KillArgs, [Next]_vars PROVE KillInv'
  OBVIOUS
<1>0. TypeOK /\ RunInv /\ KillInv
  BY DEF ProcInv
<1>1. CASE UNCHANGED vars
  BY <1>0, <1>1 DEF vars, table, locals, KillInv, RunInv, TypeOK
<1>2. ASSUME NEW c \in CPU, NEW p \in Slot, Dispatch(c, p) PROVE KillInv'
  BY <1>0, <1>2, SlotBasics DEF Dispatch, table, locals, KillInv, RunInv,
     TypeOK
<1>3. ASSUME NEW c \in CPU, SwitchOut(c) PROVE KillInv'
  BY <1>0, <1>3, SlotBasics DEF SwitchOut, table, locals, KillInv, RunInv,
     TypeOK
<1>4. ASSUME NEW p \in Slot, Resume(p) PROVE KillInv'
  BY <1>0, <1>4, SlotBasics DEF Resume, Goto, table, locals, KillInv, RunInv,
     TypeOK
<1>5. ASSUME NEW p \in Slot, TimerExit(p) PROVE KillInv'
  BY <1>0, <1>5, SlotBasics DEF TimerExit, At, Running, Goto, table, locals,
     KillInv, RunInv, TypeOK
<1>6. ASSUME NEW p \in Slot, TimerYield(p) PROVE KillInv'
  BY <1>0, <1>6, SlotBasics DEF TimerYield, Running, GiveUp, Interruptible,
     table, locals, KillInv, RunInv, TypeOK
<1>7. ASSUME NEW p \in Slot, Fault(p) PROVE KillInv'
  BY <1>0, <1>7, SlotBasics DEF Fault, At, Running, Goto, table, locals,
     KillInv, RunInv, TypeOK
<1>8. ASSUME NEW p \in Slot, NEW call \in Calls,
             NEW n \in KillArgs \cup {0}, Syscall(p, call, n)
      PROVE  KillInv'
  BY <1>0, <1>8, SlotBasics, SMTT(20) DEF Syscall, At, Running, Goto, Start, Calls,
     table, locals, KillInv, RunInv, TypeOK
<1>9. ASSUME NEW p \in Slot, SyscallReturn(p) PROVE KillInv'
  BY <1>0, <1>9, SlotBasics, SMTT(20) DEF SyscallReturn, At, Running, Goto, table,
     locals, KillInv, RunInv, TypeOK
<1>10. ASSUME NEW p \in Slot, AllocSkip(p) PROVE KillInv'
  BY <1>0, <1>10, SlotBasics, SMTT(20) DEF AllocSkip, At, Running, Advance, table,
     locals, KillInv, RunInv, TypeOK
<1>11. ASSUME NEW p \in Slot, AllocFound(p) PROVE KillInv'
  BY <1>0, <1>11, SlotBasics, SMTT(20) DEF AllocFound, At, Running, allocpid, table,
     locals, KillInv, RunInv, TypeOK
<1>12. ASSUME NEW p \in Slot, AllocFail(p) PROVE KillInv'
  BY <1>0, <1>12, SlotBasics DEF AllocFail, At, Running, Goto, allocpid,
     freeproc, table, locals, KillInv, RunInv, TypeOK
<1>13. ASSUME NEW p \in Slot, AllocprocFull(p) PROVE KillInv'
  BY <1>0, <1>13, SlotBasics DEF AllocprocFull, At, Running, Goto, table,
     locals, KillInv, RunInv, TypeOK
<1>14. ASSUME NEW p \in Slot, ForkParent(p) PROVE KillInv'
  BY <1>0, <1>14, SlotBasics, SMTT(20) DEF ForkParent, At, Running, Goto, table, locals,
     KillInv, RunInv, TypeOK
<1>15. ASSUME NEW p \in Slot, ForkRun(p) PROVE KillInv'
  BY <1>0, <1>15, SlotBasics DEF ForkRun, At, Running, Goto, table, locals,
     KillInv, RunInv, TypeOK
<1>16. ASSUME NEW p \in Slot, ExitFiles(p) PROVE KillInv'
  BY <1>0, <1>16, SlotBasics DEF ExitFiles, At, Running, Goto, table, locals,
     KillInv, RunInv, TypeOK
<1>17. ASSUME NEW p \in Slot, ExitLock(p) PROVE KillInv'
  BY <1>0, <1>17, SlotBasics, SMTT(20) DEF ExitLock, At, Running, Goto, Start, table,
     locals, KillInv, RunInv, TypeOK
<1>18. ASSUME NEW p \in Slot, ReparentSkip(p) PROVE KillInv'
  BY <1>0, <1>18, SlotBasics, SMTT(20) DEF ReparentSkip, At, Running, Advance, table,
     locals, KillInv, RunInv, TypeOK
<1>19. ASSUME NEW p \in Slot, Reparent(p) PROVE KillInv'
  BY <1>0, <1>19, SlotBasics, SMTT(20) DEF Reparent, At, Running, Goto, table, locals,
     KillInv, RunInv, TypeOK
<1>20. ASSUME NEW p \in Slot, ReparentDone(p) PROVE KillInv'
  BY <1>0, <1>20, SlotBasics, SMTT(20) DEF ReparentDone, At, Running, Goto, table,
     locals, KillInv, RunInv, TypeOK
<1>21. ASSUME NEW p \in Slot, WakeupSkip(p) PROVE KillInv'
  BY <1>0, <1>21, SlotBasics, SMTT(20) DEF WakeupSkip, InWakeup, ToWake, WakeChan, At,
     Running, table, locals, KillInv, RunInv, TypeOK
<1>22. ASSUME NEW p \in Slot, Wakeup(p) PROVE KillInv'
  BY <1>0, <1>22, SlotBasics, SMTT(20) DEF Wakeup, InWakeup, ToWake, WakeChan, At,
     Running, table, locals, KillInv, RunInv, TypeOK
<1>23. ASSUME NEW p \in Slot, RewakeDone(p) PROVE KillInv'
  BY <1>0, <1>23, SlotBasics DEF RewakeDone, At, Running, Goto, Advance,
     table, locals, KillInv, RunInv, TypeOK
<1>24. ASSUME NEW p \in Slot, ExwakeDone(p) PROVE KillInv'
  BY <1>0, <1>24, SlotBasics, SMTT(20) DEF ExwakeDone, At, Running, Goto, table, locals,
     KillInv, RunInv, TypeOK
<1>25. ASSUME NEW p \in Slot, Zombie(p) PROVE KillInv'
  BY <1>0, <1>25, SlotBasics, SMTT(20) DEF Zombie, At, Running, Goto, GiveUp, table,
     locals, KillInv, RunInv, TypeOK
<1>26. ASSUME NEW p \in Slot, WaitLock(p) PROVE KillInv'
  BY <1>0, <1>26, SlotBasics, SMTT(20) DEF WaitLock, At, Running, Goto, Start, table,
     locals, KillInv, RunInv, TypeOK
<1>27. ASSUME NEW p \in Slot, ScanOther(p) PROVE KillInv'
  BY <1>0, <1>27, SlotBasics, SMTT(20) DEF ScanOther, At, Running, Advance, table,
     locals, KillInv, RunInv, TypeOK
<1>28. ASSUME NEW p \in Slot, ScanAlive(p) PROVE KillInv'
  BY <1>0, <1>28, SlotBasics, SMTT(20) DEF ScanAlive, ScanChild, At, Running, Advance,
     table, locals, KillInv, RunInv, TypeOK
<1>29. ASSUME NEW p \in Slot, Reap(p) PROVE KillInv'
  BY <1>0, <1>29, SlotBasics, SMTT(20) DEF Reap, ScanChild, At, Running, Goto, freeproc,
     table, locals, KillInv, RunInv, TypeOK
<1>30. ASSUME NEW p \in Slot, ReapFails(p) PROVE KillInv'
  BY <1>0, <1>30, SlotBasics, SMTT(20) DEF ReapFails, ScanChild, At, Running, Goto,
     table, locals, KillInv, RunInv, TypeOK
<1>31. ASSUME NEW p \in Slot, ScanDone(p) PROVE KillInv'
  BY <1>0, <1>31, SlotBasics, SMTT(20) DEF ScanDone, At, Running, Goto, table, locals,
     KillInv, RunInv, TypeOK
<1>32. ASSUME NEW p \in Slot, WaitSleep(p) PROVE KillInv'
  BY <1>0, <1>32, SlotBasics, SMTT(20) DEF WaitSleep, At, Running, Goto, GiveUp, table,
     locals, KillInv, RunInv, TypeOK
<1>33. ASSUME NEW p \in Slot, KillSkip(p) PROVE KillInv'
  BY <1>0, <1>33, SlotBasics, SMTT(20) DEF KillSkip, At, Running, Advance, table,
     locals, KillInv, RunInv, TypeOK
<1>34. ASSUME NEW p \in Slot, Kill(p) PROVE KillInv'
  BY <1>0, <1>34, SlotBasics, SMTT(20) DEF Kill, At, Running, Goto, table, locals,
     KillInv, RunInv, TypeOK
<1>35. ASSUME NEW p \in Slot, KillNobody(p) PROVE KillInv'
  BY <1>0, <1>35, SlotBasics, SMTT(20) DEF KillNobody, At, Running, Goto, table, locals,
     KillInv, RunInv, TypeOK
<1> QED
  BY <1>1, <1>2, <1>3, <1>4, <1>5, <1>6, <1>7, <1>8, <1>9, <1>10, <1>11,
     <1>12, <1>13, <1>14, <1>15, <1>16, <1>17, <1>18, <1>19, <1>20, <1>21,
     <1>22, <1>23, <1>24, <1>25, <1>26, <1>27, <1>28, <1>29, <1>30, <1>31,
     <1>32, <1>33, <1>34, <1>35 DEF Next, Timer, KernelStep, ForkStep,
     ExitStep, WaitStep, KillStep

\* The step that NewbornAlive allows.
Newborn ==
  \A p \in Slot : state[p] = "UNUSED" /\ state'[p] = "USED" => ~killed'[p]

\* Only allocproc() makes a slot USED, and it leaves p->killed alone.
LEMMA NewbornStep == ProcInv /\ KillInv /\ [Next]_vars => Newborn
<1> SUFFICES ASSUME ProcInv, KillInv, [Next]_vars PROVE Newborn
  OBVIOUS
<1>0. TypeOK /\ RunInv /\ KillInv
  BY DEF ProcInv
<1>1. CASE UNCHANGED vars
  BY <1>0, <1>1 DEF vars, table, locals, TypeOK, Newborn
<1>2. ASSUME NEW c \in CPU, NEW p \in Slot, Dispatch(c, p) PROVE Newborn
  BY <1>0, <1>2 DEF Dispatch, table, locals, KillInv, RunInv,
     TypeOK, Newborn
<1>3. ASSUME NEW c \in CPU, SwitchOut(c) PROVE Newborn
  BY <1>0, <1>3 DEF SwitchOut, table, locals, KillInv, RunInv,
     TypeOK, Newborn
<1>4. ASSUME NEW p \in Slot, Resume(p) PROVE Newborn
  BY <1>0, <1>4 DEF Resume, Goto, table, locals, KillInv, RunInv,
     TypeOK, Newborn
<1>5. ASSUME NEW p \in Slot, TimerExit(p) PROVE Newborn
  BY <1>0, <1>5 DEF TimerExit, At, Running, Goto, table, locals,
     TypeOK, Newborn
<1>6. ASSUME NEW p \in Slot, TimerYield(p) PROVE Newborn
  BY <1>0, <1>6 DEF TimerYield, Running, GiveUp, Interruptible,
     table, locals, TypeOK, Newborn
<1>7. ASSUME NEW p \in Slot, Fault(p) PROVE Newborn
  BY <1>0, <1>7 DEF Fault, At, Running, Goto, table, locals,
     TypeOK, Newborn
<1>8. ASSUME NEW p \in Slot, NEW call \in Calls,
             NEW n \in KillArgs \cup {0}, Syscall(p, call, n)
      PROVE  Newborn
  BY <1>0, <1>8 DEF Syscall, At, Running, Goto, Start, Calls,
     table, locals, TypeOK, Newborn
<1>9. ASSUME NEW p \in Slot, SyscallReturn(p) PROVE Newborn
  BY <1>0, <1>9 DEF SyscallReturn, At, Running, Goto, table,
     locals, TypeOK, Newborn
<1>10. ASSUME NEW p \in Slot, AllocSkip(p) PROVE Newborn
  BY <1>0, <1>10 DEF AllocSkip, At, Running, Advance, table,
     locals, TypeOK, Newborn
<1>11. ASSUME NEW p \in Slot, AllocFound(p) PROVE Newborn
  BY <1>0, <1>11 DEF AllocFound, At, Running, allocpid, table,
     locals, KillInv, RunInv, TypeOK, Newborn
<1>12. ASSUME NEW p \in Slot, AllocFail(p) PROVE Newborn
  BY <1>0, <1>12 DEF AllocFail, At, Running, Goto, allocpid,
     freeproc, table, locals, TypeOK, Newborn
<1>13. ASSUME NEW p \in Slot, AllocprocFull(p) PROVE Newborn
  BY <1>0, <1>13 DEF AllocprocFull, At, Running, Goto, table,
     locals, TypeOK, Newborn
<1>14. ASSUME NEW p \in Slot, ForkParent(p) PROVE Newborn
  BY <1>0, <1>14 DEF ForkParent, At, Running, Goto, table, locals,
     TypeOK, Newborn
<1>15. ASSUME NEW p \in Slot, ForkRun(p) PROVE Newborn
  BY <1>0, <1>15 DEF ForkRun, At, Running, Goto, table, locals,
     TypeOK, Newborn
<1>16. ASSUME NEW p \in Slot, ExitFiles(p) PROVE Newborn
  BY <1>0, <1>16 DEF ExitFiles, At, Running, Goto, table, locals,
     TypeOK, Newborn
<1>17. ASSUME NEW p \in Slot, ExitLock(p) PROVE Newborn
  BY <1>0, <1>17 DEF ExitLock, At, Running, Goto, Start, table,
     locals, TypeOK, Newborn
<1>18. ASSUME NEW p \in Slot, ReparentSkip(p) PROVE Newborn
  BY <1>0, <1>18 DEF ReparentSkip, At, Running, Advance, table,
     locals, TypeOK, Newborn
<1>19. ASSUME NEW p \in Slot, Reparent(p) PROVE Newborn
  BY <1>0, <1>19 DEF Reparent, At, Running, Goto, table, locals,
     TypeOK, Newborn
<1>20. ASSUME NEW p \in Slot, ReparentDone(p) PROVE Newborn
  BY <1>0, <1>20 DEF ReparentDone, At, Running, Goto, table,
     locals, TypeOK, Newborn
<1>21. ASSUME NEW p \in Slot, WakeupSkip(p) PROVE Newborn
  BY <1>0, <1>21 DEF WakeupSkip, InWakeup, ToWake, WakeChan, At,
     Running, table, locals, TypeOK, Newborn
<1>22. ASSUME NEW p \in Slot, Wakeup(p) PROVE Newborn
  BY <1>0, <1>22 DEF Wakeup, InWakeup, ToWake, WakeChan, At,
     Running, table, locals, TypeOK, Newborn
<1>23. ASSUME NEW p \in Slot, RewakeDone(p) PROVE Newborn
  BY <1>0, <1>23 DEF RewakeDone, At, Running, Goto, Advance,
     table, locals, TypeOK, Newborn
<1>24. ASSUME NEW p \in Slot, ExwakeDone(p) PROVE Newborn
  BY <1>0, <1>24 DEF ExwakeDone, At, Running, Goto, table, locals,
     TypeOK, Newborn
<1>25. ASSUME NEW p \in Slot, Zombie(p) PROVE Newborn
  BY <1>0, <1>25 DEF Zombie, At, Running, Goto, GiveUp, table,
     locals, TypeOK, Newborn
<1>26. ASSUME NEW p \in Slot, WaitLock(p) PROVE Newborn
  BY <1>0, <1>26 DEF WaitLock, At, Running, Goto, Start, table,
     locals, TypeOK, Newborn
<1>27. ASSUME NEW p \in Slot, ScanOther(p) PROVE Newborn
  BY <1>0, <1>27 DEF ScanOther, At, Running, Advance, table,
     locals, TypeOK, Newborn
<1>28. ASSUME NEW p \in Slot, ScanAlive(p) PROVE Newborn
  BY <1>0, <1>28 DEF ScanAlive, ScanChild, At, Running, Advance,
     table, locals, TypeOK, Newborn
<1>29. ASSUME NEW p \in Slot, Reap(p) PROVE Newborn
  BY <1>0, <1>29 DEF Reap, ScanChild, At, Running, Goto, freeproc,
     table, locals, TypeOK, Newborn
<1>30. ASSUME NEW p \in Slot, ReapFails(p) PROVE Newborn
  BY <1>0, <1>30 DEF ReapFails, ScanChild, At, Running, Goto,
     table, locals, TypeOK, Newborn
<1>31. ASSUME NEW p \in Slot, ScanDone(p) PROVE Newborn
  BY <1>0, <1>31 DEF ScanDone, At, Running, Goto, table, locals,
     TypeOK, Newborn
<1>32. ASSUME NEW p \in Slot, WaitSleep(p) PROVE Newborn
  BY <1>0, <1>32 DEF WaitSleep, At, Running, Goto, GiveUp, table,
     locals, TypeOK, Newborn
<1>33. ASSUME NEW p \in Slot, KillSkip(p) PROVE Newborn
  BY <1>0, <1>33 DEF KillSkip, At, Running, Advance, table,
     locals, TypeOK, Newborn
<1>34. ASSUME NEW p \in Slot, Kill(p) PROVE Newborn
  BY <1>0, <1>34 DEF Kill, At, Running, Goto, table, locals,
     TypeOK, Newborn
<1>35. ASSUME NEW p \in Slot, KillNobody(p) PROVE Newborn
  BY <1>0, <1>35 DEF KillNobody, At, Running, Goto, table, locals,
     TypeOK, Newborn
<1> QED
  BY <1>1, <1>2, <1>3, <1>4, <1>5, <1>6, <1>7, <1>8, <1>9, <1>10, <1>11,
     <1>12, <1>13, <1>14, <1>15, <1>16, <1>17, <1>18, <1>19, <1>20, <1>21,
     <1>22, <1>23, <1>24, <1>25, <1>26, <1>27, <1>28, <1>29, <1>30, <1>31,
     <1>32, <1>33, <1>34, <1>35 DEF Next, Timer, KernelStep, ForkStep,
     ExitStep, WaitStep, KillStep

\* Unless a program calls kill(0), no process is born killed.
THEOREM NobodyBornKilled == 0 \notin KillArgs => (Spec => NewbornAlive)
<1> SUFFICES ASSUME 0 \notin KillArgs PROVE Spec => NewbornAlive
  OBVIOUS
<1>1. Init => KillInv
  BY SlotBasics DEF Init, KillInv
<1>2. ProcInv /\ KillInv /\ [Next]_vars => KillInv'
  BY KillStepInv
<1>3. ProcInv /\ KillInv /\ [Next]_vars => [Newborn]_vars
  BY NewbornStep
<1>4. Spec => [][Newborn]_vars
  BY <1>1, <1>2, <1>3, ProcInvariant, PTL DEF Spec
<1> QED
  BY <1>4 DEF NewbornAlive, Newborn
=============================================================================
