----------------------------- MODULE PipeProofs -----------------------------
(* Proofs about Pipe, for any number of processes and any size of the pipe. *)
EXTENDS Pipe, Modular, TLAPS

\* A counter stays an unsigned int.
LEMMA BumpType == \A x \in 0..(UINT - 1) : Bump(x) \in 0..(UINT - 1)
  <1> SUFFICES ASSUME NEW x \in 0..(UINT - 1) PROVE Bump(x) \in 0..(UINT - 1)
    OBVIOUS
  <1>1. UINT \in Nat /\ UINT > 0
    BY ConstAssumption
  <1>2. x + 1 \in Nat
    BY <1>1
  <1>3. (x + 1) % UINT \in 0..(UINT - 1)
    BY <1>1, <1>2
  <1> QED
    BY <1>3 DEF Bump

\* A counter taken modulo PIPESIZE is an index of data[].
LEMMA IndexType == \A x \in 0..(UINT - 1) : x % PIPESIZE \in 0..(PIPESIZE - 1)
  <1> SUFFICES ASSUME NEW x \in 0..(UINT - 1) PROVE x % PIPESIZE \in 0..(PIPESIZE - 1)
    OBVIOUS
  <1>1. PIPESIZE \in Nat /\ PIPESIZE > 0 /\ x \in Nat
    BY ConstAssumption
  <1> QED
    BY <1>1

\* The bounds of the loop variables.
LEMMA MaxNFacts == 0 \in 0..MaxN /\ \A a, b \in 0..MaxN : a < b => a + 1 \in 0..MaxN
  BY ConstAssumption

\* The initial state.
LEMMA InitInv == Init => PipeInv
  <1> SUFFICES ASSUME Init PROVE PipeInv
    OBVIOUS
  <1>1. TypeOK
    BY ConstAssumption, MaxNFacts DEF Init, TypeOK, PipeTypes, FileTypes,
        ProcTypes, LocalTypes, PCs, End
  <1>2. LockInv
    BY ConstAssumption DEF Init, LockInv, Holding
  <1>3. RefInv
    <2>1. ASSUME NEW e \in End PROVE ref[e] = Cardinality(Holders(e))
      <3>1. Holders(e) = {Creator}
        BY <2>1, ConstAssumption DEF Init, Holders, End
      <3> QED
        BY <2>1, <3>1, FS_Singleton, Zenon DEF Init
    <2> QED
      BY <2>1 DEF Init, RefInv, Writing, Reading, End
  <1>4. CloseInv /\ FreeInv
    BY DEF Init, CloseInv, FreeInv, End
  <1> QED
    BY <1>1, <1>2, <1>3, <1>4 DEF PipeInv

\* An open descriptor is counted.
LEMMA HolderCounts ==
  ASSUME TypeOK, RefInv, NEW p \in Proc, NEW e \in ofile[p]
  PROVE  e \in End /\ ref[e] \in Nat /\ ref[e] # 0
  <1>1. e \in End
    BY DEF TypeOK, FileTypes
  <1>2. IsFiniteSet(Holders(e)) /\ p \in Holders(e)
    BY FS_Subset, ConstAssumption DEF Holders
  <1>3. Cardinality(Holders(e)) # 0
    BY <1>2, FS_EmptySet
  <1> QED
    BY <1>1, <1>3 DEF TypeOK, FileTypes, RefInv


\* A step of process p preserves the types.
LEMMA TypeStep ==
  ASSUME PipeInv, NEW p \in Proc, StepOf(p)
  PROVE  TypeOK'
  <1> USE DEF Goto, pipe, files
  <1>0. PipeTypes /\ FileTypes /\ ProcTypes /\ LocalTypes /\ TypeOK /\ LockInv /\ RefInv /\ CloseInv /\ FreeInv
    BY DEF PipeInv, TypeOK
  <1>1. CASE PipeCloseWrite(p)
    <2>1. PipeTypes'
      BY <1>0, <1>1, BumpType, Zenon DEF PipeCloseWrite, PipeTypes, AfterClose,
          WakeReaders, GotoWaking
    <2>2. FileTypes'
      BY <1>0, <1>1 DEF PipeCloseWrite, FileTypes, AfterClose, WakeReaders, GotoWaking
    <2>3. ProcTypes'
      BY <1>0, <1>1 DEF PipeCloseWrite, ProcTypes, PCs, Writing, Reading, End,
          AfterClose, WakeReaders, GotoWaking
    <2>4. LocalTypes'
      BY <1>0, <1>1, MaxNFacts DEF PipeCloseWrite, LocalTypes, AfterClose,
          WakeReaders, GotoWaking
    <2> QED
      BY <2>1, <2>2, <2>3, <2>4 DEF TypeOK
  <1>2. CASE PipeCloseRead(p)
    <2>1. PipeTypes'
      BY <1>0, <1>2, BumpType, Zenon DEF PipeCloseRead, PipeTypes, AfterClose,
          WakeWriters, GotoWaking
    <2>2. FileTypes'
      BY <1>0, <1>2 DEF PipeCloseRead, FileTypes, AfterClose, WakeWriters, GotoWaking
    <2>3. ProcTypes'
      BY <1>0, <1>2 DEF PipeCloseRead, ProcTypes, PCs, Writing, Reading, End,
          AfterClose, WakeWriters, GotoWaking
    <2>4. LocalTypes'
      BY <1>0, <1>2, MaxNFacts DEF PipeCloseRead, LocalTypes, AfterClose,
          WakeWriters, GotoWaking
    <2> QED
      BY <2>1, <2>2, <2>3, <2>4 DEF TypeOK
  <1>3. CASE KFree(p)
    <2>1. PipeTypes'
      BY <1>0, <1>3, BumpType DEF KFree, PipeTypes
    <2>2. FileTypes'
      BY <1>0, <1>3 DEF KFree, FileTypes
    <2>3. ProcTypes'
      BY <1>0, <1>3 DEF KFree, ProcTypes, PCs, Writing, Reading, End
    <2>4. LocalTypes'
      BY <1>0, <1>3, MaxNFacts DEF KFree, LocalTypes
    <2> QED
      BY <2>1, <2>2, <2>3, <2>4 DEF TypeOK
  <1>4. CASE WriteWoken(p)
    <2>1. PipeTypes'
      BY <1>0, <1>4, BumpType DEF WriteWoken, PipeTypes
    <2>2. FileTypes'
      BY <1>0, <1>4 DEF WriteWoken, FileTypes
    <2>3. ProcTypes'
      BY <1>0, <1>4 DEF WriteWoken, ProcTypes, PCs, Writing, Reading, End
    <2>4. LocalTypes'
      BY <1>0, <1>4, MaxNFacts DEF WriteWoken, LocalTypes
    <2> QED
      BY <2>1, <2>2, <2>3, <2>4 DEF TypeOK
  <1>5. CASE WriteFails(p)
    <2>1. PipeTypes'
      BY <1>0, <1>5, BumpType DEF WriteFails, PipeTypes, Return
    <2>2. FileTypes'
      BY <1>0, <1>5 DEF WriteFails, FileTypes, Return
    <2>3. ProcTypes'
      BY <1>0, <1>5 DEF WriteFails, ProcTypes, PCs, Writing, Reading, End, Return
    <2>4. LocalTypes'
      BY <1>0, <1>5, MaxNFacts DEF WriteFails, LocalTypes, Return
    <2> QED
      BY <2>1, <2>2, <2>3, <2>4 DEF TypeOK
  <1>6. CASE WriteFull(p)
    <2>1. PipeTypes'
      BY <1>0, <1>6, BumpType DEF WriteFull, PipeTypes, WakeReaders, GotoWaking
    <2>2. FileTypes'
      BY <1>0, <1>6 DEF WriteFull, FileTypes, WakeReaders, GotoWaking
    <2>3. ProcTypes'
      BY <1>0, <1>6 DEF WriteFull, ProcTypes, PCs, Writing, Reading, End,
          WakeReaders, GotoWaking
    <2>4. LocalTypes'
      BY <1>0, <1>6, MaxNFacts DEF WriteFull, LocalTypes, WakeReaders, GotoWaking
    <2> QED
      BY <2>1, <2>2, <2>3, <2>4 DEF TypeOK
  <1>7. CASE WriteSleep(p)
    <2>1. PipeTypes'
      BY <1>0, <1>7, BumpType DEF WriteSleep, PipeTypes
    <2>2. FileTypes'
      BY <1>0, <1>7 DEF WriteSleep, FileTypes
    <2>3. ProcTypes'
      BY <1>0, <1>7 DEF WriteSleep, ProcTypes, PCs, Writing, Reading, End
    <2>4. LocalTypes'
      BY <1>0, <1>7, MaxNFacts DEF WriteSleep, LocalTypes
    <2> QED
      BY <2>1, <2>2, <2>3, <2>4 DEF TypeOK
  <1>8. CASE WriteDone(p)
    <2>1. PipeTypes'
      BY <1>0, <1>8, BumpType DEF WriteDone, PipeTypes, Return, WakeReaders, GotoWaking
    <2>2. FileTypes'
      BY <1>0, <1>8 DEF WriteDone, FileTypes, Return, WakeReaders, GotoWaking
    <2>3. ProcTypes'
      BY <1>0, <1>8 DEF WriteDone, ProcTypes, PCs, Writing, Reading, End,
          Return, WakeReaders, GotoWaking
    <2>4. LocalTypes'
      BY <1>0, <1>8, MaxNFacts DEF WriteDone, LocalTypes, Return, WakeReaders,
          GotoWaking
    <2> QED
      BY <2>1, <2>2, <2>3, <2>4 DEF TypeOK
  <1>9. CASE ReadWoken(p)
    <2>1. PipeTypes'
      BY <1>0, <1>9, BumpType DEF ReadWoken, PipeTypes
    <2>2. FileTypes'
      BY <1>0, <1>9 DEF ReadWoken, FileTypes
    <2>3. ProcTypes'
      BY <1>0, <1>9 DEF ReadWoken, ProcTypes, PCs, Writing, Reading, End
    <2>4. LocalTypes'
      BY <1>0, <1>9, MaxNFacts DEF ReadWoken, LocalTypes
    <2> QED
      BY <2>1, <2>2, <2>3, <2>4 DEF TypeOK
  <1>10. CASE ReadFails(p)
    <2>1. PipeTypes'
      BY <1>0, <1>10, BumpType DEF ReadFails, PipeTypes, Return
    <2>2. FileTypes'
      BY <1>0, <1>10 DEF ReadFails, FileTypes, Return
    <2>3. ProcTypes'
      BY <1>0, <1>10 DEF ReadFails, ProcTypes, PCs, Writing, Reading, End, Return
    <2>4. LocalTypes'
      BY <1>0, <1>10, MaxNFacts DEF ReadFails, LocalTypes, Return
    <2> QED
      BY <2>1, <2>2, <2>3, <2>4 DEF TypeOK
  <1>11. CASE ReadEmpty(p)
    <2>1. PipeTypes'
      BY <1>0, <1>11, BumpType DEF ReadEmpty, PipeTypes
    <2>2. FileTypes'
      BY <1>0, <1>11 DEF ReadEmpty, FileTypes
    <2>3. ProcTypes'
      BY <1>0, <1>11 DEF ReadEmpty, ProcTypes, PCs, Writing, Reading, End
    <2>4. LocalTypes'
      BY <1>0, <1>11, MaxNFacts DEF ReadEmpty, LocalTypes
    <2> QED
      BY <2>1, <2>2, <2>3, <2>4 DEF TypeOK
  <1>12. CASE ReadSleep(p)
    <2>1. PipeTypes'
      BY <1>0, <1>12, BumpType DEF ReadSleep, PipeTypes
    <2>2. FileTypes'
      BY <1>0, <1>12 DEF ReadSleep, FileTypes
    <2>3. ProcTypes'
      BY <1>0, <1>12 DEF ReadSleep, ProcTypes, PCs, Writing, Reading, End
    <2>4. LocalTypes'
      BY <1>0, <1>12, MaxNFacts DEF ReadSleep, LocalTypes
    <2> QED
      BY <2>1, <2>2, <2>3, <2>4 DEF TypeOK
  <1>13. CASE ReadStart(p)
    <2>1. PipeTypes'
      BY <1>0, <1>13, BumpType DEF ReadStart, PipeTypes
    <2>2. FileTypes'
      BY <1>0, <1>13 DEF ReadStart, FileTypes
    <2>3. ProcTypes'
      BY <1>0, <1>13 DEF ReadStart, ProcTypes, PCs, Writing, Reading, End
    <2>4. LocalTypes'
      BY <1>0, <1>13, MaxNFacts DEF ReadStart, LocalTypes
    <2> QED
      BY <2>1, <2>2, <2>3, <2>4 DEF TypeOK
  <1>14. CASE ReadByte(p)
    <2>1. PipeTypes'
      BY <1>0, <1>14, BumpType, IndexType, Zenon DEF ReadByte, PipeTypes, NextByte
    <2>2. FileTypes'
      BY <1>0, <1>14 DEF ReadByte, FileTypes
    <2>3. ProcTypes'
      BY <1>0, <1>14 DEF ReadByte, ProcTypes, PCs, Writing, Reading, End
    <2>4. LocalTypes'
      BY <1>0, <1>14, MaxNFacts DEF ReadByte, LocalTypes
    <2> QED
      BY <2>1, <2>2, <2>3, <2>4 DEF TypeOK
  <1>15. CASE ReadFault(p)
    <2>1. PipeTypes'
      BY <1>0, <1>15, BumpType DEF ReadFault, PipeTypes, Return, WakeWriters, GotoWaking
    <2>2. FileTypes'
      BY <1>0, <1>15 DEF ReadFault, FileTypes, Return, WakeWriters, GotoWaking
    <2>3. ProcTypes'
      BY <1>0, <1>15 DEF ReadFault, ProcTypes, PCs, Writing, Reading, End,
          Return, WakeWriters, GotoWaking
    <2>4. LocalTypes'
      BY <1>0, <1>15, MaxNFacts DEF ReadFault, LocalTypes, Return, WakeWriters,
          GotoWaking
    <2> QED
      BY <2>1, <2>2, <2>3, <2>4 DEF TypeOK
  <1>16. CASE ReadDone(p)
    <2>1. PipeTypes'
      BY <1>0, <1>16, BumpType DEF ReadDone, PipeTypes, Return, WakeWriters, GotoWaking
    <2>2. FileTypes'
      BY <1>0, <1>16 DEF ReadDone, FileTypes, Return, WakeWriters, GotoWaking
    <2>3. ProcTypes'
      BY <1>0, <1>16 DEF ReadDone, ProcTypes, PCs, Writing, Reading, End,
          Return, WakeWriters, GotoWaking
    <2>4. LocalTypes'
      BY <1>0, <1>16, MaxNFacts DEF ReadDone, LocalTypes, Return, WakeWriters,
          GotoWaking
    <2> QED
      BY <2>1, <2>2, <2>3, <2>4 DEF TypeOK
  <1>17. CASE Kill(p)
    <2>1. PipeTypes'
      BY <1>0, <1>17, BumpType DEF Kill, PipeTypes
    <2>2. FileTypes'
      BY <1>0, <1>17 DEF Kill, FileTypes
    <2>3. ProcTypes'
      BY <1>0, <1>17 DEF Kill, ProcTypes, PCs, Writing, Reading, End
    <2>4. LocalTypes'
      BY <1>0, <1>17, MaxNFacts DEF Kill, LocalTypes
    <2> QED
      BY <2>1, <2>2, <2>3, <2>4 DEF TypeOK
  <1>18. ASSUME NEW b \in Byte, WriteByte(p, b) PROVE TypeOK'
    <2>1. PipeTypes'
      BY <1>0, <1>18, BumpType, Zenon DEF WriteByte, PipeTypes
    <2>2. FileTypes'
      BY <1>0, <1>18 DEF WriteByte, FileTypes
    <2>3. ProcTypes'
      BY <1>0, <1>18 DEF WriteByte, ProcTypes, PCs, Writing, Reading, End
    <2>4. LocalTypes'
      BY <1>0, <1>18, MaxNFacts DEF WriteByte, LocalTypes
    <2> QED
      BY <2>1, <2>2, <2>3, <2>4 DEF TypeOK
  <1>19. ASSUME NEW c \in Proc, Fork(p, c) PROVE TypeOK'
    <2>1. PipeTypes'
      BY <1>0, <1>19, BumpType DEF Fork, PipeTypes
    <2>2. FileTypes'
      BY <1>0, <1>19 DEF Fork, FileTypes
    <2>3. ProcTypes'
      BY <1>0, <1>19 DEF Fork, ProcTypes, PCs, Writing, Reading, End
    <2>4. LocalTypes'
      BY <1>0, <1>19, MaxNFacts DEF Fork, LocalTypes
    <2> QED
      BY <2>1, <2>2, <2>3, <2>4 DEF TypeOK
  <1>20. ASSUME NEW e \in End, FileClose(p, e) PROVE TypeOK'
    <2>1. PipeTypes'
      BY <1>0, <1>20, BumpType DEF FileClose, PipeTypes, PipeClosing
    <2>2. FileTypes'
      BY <1>0, <1>20, HolderCounts DEF FileClose, FileTypes, PipeClosing
    <2>3. ProcTypes'
      BY <1>0, <1>20 DEF FileClose, ProcTypes, PCs, Writing, Reading, End, PipeClosing
    <2>4. LocalTypes'
      BY <1>0, <1>20, MaxNFacts DEF FileClose, LocalTypes, PipeClosing
    <2> QED
      BY <2>1, <2>2, <2>3, <2>4 DEF TypeOK
  <1>21. ASSUME NEW m \in 0..MaxN, WriteCall(p, m) PROVE TypeOK'
    <2>1. PipeTypes'
      BY <1>0, <1>21, BumpType DEF WriteCall, PipeTypes
    <2>2. FileTypes'
      BY <1>0, <1>21 DEF WriteCall, FileTypes
    <2>3. ProcTypes'
      BY <1>0, <1>21 DEF WriteCall, ProcTypes, PCs, Writing, Reading, End
    <2>4. LocalTypes'
      BY <1>0, <1>21, MaxNFacts DEF WriteCall, LocalTypes
    <2> QED
      BY <2>1, <2>2, <2>3, <2>4 DEF TypeOK
  <1>22. ASSUME NEW m \in 0..MaxN, ReadCall(p, m) PROVE TypeOK'
    <2>1. PipeTypes'
      BY <1>0, <1>22, BumpType DEF ReadCall, PipeTypes
    <2>2. FileTypes'
      BY <1>0, <1>22 DEF ReadCall, FileTypes
    <2>3. ProcTypes'
      BY <1>0, <1>22 DEF ReadCall, ProcTypes, PCs, Writing, Reading, End
    <2>4. LocalTypes'
      BY <1>0, <1>22, MaxNFacts, SMTT(30) DEF ReadCall, LocalTypes
    <2> QED
      BY <2>1, <2>2, <2>3, <2>4 DEF TypeOK
  <1> QED
    BY <1>1, <1>2, <1>3, <1>4, <1>5, <1>6, <1>7, <1>8, <1>9, <1>10, <1>11,
        <1>12, <1>13, <1>14, <1>15, <1>16, <1>17, <1>18, <1>19, <1>20, <1>21,
        <1>22, SMTT(30)
    DEF StepOf, KernelStep

\* A step of process p preserves that the holder of the lock is where its pc says.
LEMMA LockStep ==
  ASSUME PipeInv, NEW p \in Proc, StepOf(p)
  PROVE  LockInv'
  <1> USE DEF Goto, pipe, files
  <1>0. PipeTypes /\ FileTypes /\ ProcTypes /\ LocalTypes /\ TypeOK /\ LockInv /\ RefInv /\ CloseInv /\ FreeInv
    BY DEF PipeInv, TypeOK
  <1>1. CASE PipeCloseWrite(p)
    BY <1>0, <1>1, ConstAssumption DEF PipeCloseWrite, AfterClose, WakeReaders,
        GotoWaking, ProcTypes, LockInv, Holding
  <1>2. CASE PipeCloseRead(p)
    BY <1>0, <1>2, ConstAssumption DEF PipeCloseRead, AfterClose, WakeWriters,
        GotoWaking, ProcTypes, LockInv, Holding
  <1>3. CASE KFree(p)
    BY <1>0, <1>3, ConstAssumption DEF KFree, ProcTypes, LockInv, Holding
  <1>4. CASE WriteWoken(p)
    BY <1>0, <1>4, ConstAssumption DEF WriteWoken, ProcTypes, LockInv, Holding
  <1>5. CASE WriteFails(p)
    BY <1>0, <1>5, ConstAssumption DEF WriteFails, Return, ProcTypes, LockInv, Holding
  <1>6. CASE WriteFull(p)
    BY <1>0, <1>6, ConstAssumption DEF WriteFull, WakeReaders, GotoWaking,
        ProcTypes, LockInv, Holding
  <1>7. CASE WriteSleep(p)
    BY <1>0, <1>7, ConstAssumption DEF WriteSleep, ProcTypes, LockInv, Holding
  <1>8. CASE WriteDone(p)
    BY <1>0, <1>8, ConstAssumption DEF WriteDone, Return, WakeReaders,
        GotoWaking, ProcTypes, LockInv, Holding
  <1>9. CASE ReadWoken(p)
    BY <1>0, <1>9, ConstAssumption DEF ReadWoken, ProcTypes, LockInv, Holding
  <1>10. CASE ReadFails(p)
    BY <1>0, <1>10, ConstAssumption DEF ReadFails, Return, ProcTypes, LockInv, Holding
  <1>11. CASE ReadEmpty(p)
    BY <1>0, <1>11, ConstAssumption DEF ReadEmpty, ProcTypes, LockInv, Holding
  <1>12. CASE ReadSleep(p)
    BY <1>0, <1>12, ConstAssumption DEF ReadSleep, ProcTypes, LockInv, Holding
  <1>13. CASE ReadStart(p)
    BY <1>0, <1>13, ConstAssumption DEF ReadStart, ProcTypes, LockInv, Holding
  <1>14. CASE ReadByte(p)
    BY <1>0, <1>14, ConstAssumption DEF ReadByte, ProcTypes, LockInv, Holding
  <1>15. CASE ReadFault(p)
    BY <1>0, <1>15, ConstAssumption DEF ReadFault, Return, WakeWriters,
        GotoWaking, ProcTypes, LockInv, Holding
  <1>16. CASE ReadDone(p)
    BY <1>0, <1>16, ConstAssumption DEF ReadDone, Return, WakeWriters,
        GotoWaking, ProcTypes, LockInv, Holding
  <1>17. CASE Kill(p)
    BY <1>0, <1>17, ConstAssumption DEF Kill, ProcTypes, LockInv, Holding
  <1>18. ASSUME NEW b \in Byte, WriteByte(p, b) PROVE LockInv'
    BY <1>0, <1>18, ConstAssumption DEF WriteByte, ProcTypes, LockInv, Holding
  <1>19. ASSUME NEW c \in Proc, Fork(p, c) PROVE LockInv'
    BY <1>0, <1>19, ConstAssumption DEF Fork, ProcTypes, LockInv, Holding
  <1>20. ASSUME NEW e \in End, FileClose(p, e) PROVE LockInv'
    BY <1>0, <1>20, ConstAssumption DEF FileClose, PipeClosing, ProcTypes,
        LockInv, Holding
  <1>21. ASSUME NEW m \in 0..MaxN, WriteCall(p, m) PROVE LockInv'
    BY <1>0, <1>21, ConstAssumption, ZenonT(20) DEF WriteCall, ProcTypes, LockInv, Holding
  <1>22. ASSUME NEW m \in 0..MaxN, ReadCall(p, m) PROVE LockInv'
    BY <1>0, <1>22, ConstAssumption, SMTT(30) DEF ReadCall, ProcTypes, LockInv, Holding
  <1> QED
    BY <1>1, <1>2, <1>3, <1>4, <1>5, <1>6, <1>7, <1>8, <1>9, <1>10, <1>11,
        <1>12, <1>13, <1>14, <1>15, <1>16, <1>17, <1>18, <1>19, <1>20, <1>21,
        <1>22
    DEF StepOf, KernelStep

\* A step of process p preserves the count of the descriptors.
LEMMA RefStep ==
  ASSUME PipeInv, NEW p \in Proc, StepOf(p)
  PROVE  RefInv'
  <1> USE DEF Goto, pipe, files
  <1>0. PipeTypes /\ FileTypes /\ ProcTypes /\ LocalTypes /\ TypeOK /\ LockInv /\ RefInv /\ CloseInv /\ FreeInv
    BY DEF PipeInv, TypeOK
  <1>1. CASE PipeCloseWrite(p)
    BY <1>0, <1>1 DEF PipeCloseWrite, AfterClose, WakeReaders, GotoWaking,
        FileTypes, ProcTypes, RefInv, Holders, Writing, Reading, End
  <1>2. CASE PipeCloseRead(p)
    BY <1>0, <1>2 DEF PipeCloseRead, AfterClose, WakeWriters, GotoWaking,
        FileTypes, ProcTypes, RefInv, Holders, Writing, Reading, End
  <1>3. CASE KFree(p)
    BY <1>0, <1>3 DEF KFree, FileTypes, ProcTypes, RefInv, Holders, Writing,
        Reading, End
  <1>4. CASE WriteWoken(p)
    BY <1>0, <1>4 DEF WriteWoken, FileTypes, ProcTypes, RefInv, Holders,
        Writing, Reading, End
  <1>5. CASE WriteFails(p)
    BY <1>0, <1>5 DEF WriteFails, Return, FileTypes, ProcTypes, RefInv,
        Holders, Writing, Reading, End
  <1>6. CASE WriteFull(p)
    BY <1>0, <1>6 DEF WriteFull, WakeReaders, GotoWaking, FileTypes, ProcTypes,
        RefInv, Holders, Writing, Reading, End
  <1>7. CASE WriteSleep(p)
    BY <1>0, <1>7 DEF WriteSleep, FileTypes, ProcTypes, RefInv, Holders,
        Writing, Reading, End
  <1>8. CASE WriteDone(p)
    BY <1>0, <1>8 DEF WriteDone, Return, WakeReaders, GotoWaking, FileTypes,
        ProcTypes, RefInv, Holders, Writing, Reading, End
  <1>9. CASE ReadWoken(p)
    BY <1>0, <1>9 DEF ReadWoken, FileTypes, ProcTypes, RefInv, Holders,
        Writing, Reading, End
  <1>10. CASE ReadFails(p)
    BY <1>0, <1>10 DEF ReadFails, Return, FileTypes, ProcTypes, RefInv,
        Holders, Writing, Reading, End
  <1>11. CASE ReadEmpty(p)
    BY <1>0, <1>11 DEF ReadEmpty, FileTypes, ProcTypes, RefInv, Holders,
        Writing, Reading, End
  <1>12. CASE ReadSleep(p)
    BY <1>0, <1>12 DEF ReadSleep, FileTypes, ProcTypes, RefInv, Holders,
        Writing, Reading, End
  <1>13. CASE ReadStart(p)
    BY <1>0, <1>13 DEF ReadStart, FileTypes, ProcTypes, RefInv, Holders,
        Writing, Reading, End
  <1>14. CASE ReadByte(p)
    BY <1>0, <1>14 DEF ReadByte, FileTypes, ProcTypes, RefInv, Holders,
        Writing, Reading, End
  <1>15. CASE ReadFault(p)
    BY <1>0, <1>15 DEF ReadFault, Return, WakeWriters, GotoWaking, FileTypes,
        ProcTypes, RefInv, Holders, Writing, Reading, End
  <1>16. CASE ReadDone(p)
    BY <1>0, <1>16 DEF ReadDone, Return, WakeWriters, GotoWaking, FileTypes,
        ProcTypes, RefInv, Holders, Writing, Reading, End
  <1>17. CASE Kill(p)
    BY <1>0, <1>17 DEF Kill, FileTypes, ProcTypes, RefInv, Holders, Writing,
        Reading, End
  <1>18. ASSUME NEW b \in Byte, WriteByte(p, b) PROVE RefInv'
    BY <1>0, <1>18 DEF WriteByte, FileTypes, ProcTypes, RefInv, Holders,
        Writing, Reading, End
  <1>19. ASSUME NEW c \in Proc, Fork(p, c) PROVE RefInv'
    <2> USE <1>0
    <2>1. ASSUME NEW x \in End PROVE ref'[x] = Cardinality(Holders(x)')
      <3>1. IsFiniteSet(Holders(x))
        BY FS_Subset, ConstAssumption DEF Holders
      <3>2. CASE x \in ofile[p]
        <4>1. c \notin Holders(x)
          BY <1>19 DEF Fork, RefInv, Holders
        <4>2. Holders(x)' = Holders(x) \cup {c}
          BY <1>19, <3>2 DEF Fork, FileTypes, Holders
        <4>3. Cardinality(Holders(x)') = Cardinality(Holders(x)) + 1
          BY <3>1, <4>1, <4>2, FS_AddElement, Zenon
        <4>4. ref'[x] = ref[x] + 1
          BY <1>19, <3>2 DEF Fork
        <4> QED
          BY <4>3, <4>4 DEF RefInv
      <3>3. CASE x \notin ofile[p]
        <4>1. Holders(x)' = Holders(x)
          BY <1>19, <3>3 DEF Fork, FileTypes, RefInv, Holders
        <4> QED
          BY <1>19, <2>1, <3>3, <4>1 DEF Fork, RefInv
      <3> QED
        BY <3>2, <3>3, ZenonT(20)
    <2>2. \A q \in Proc :
            /\ pc'[q] \in Writing => "write" \in ofile'[q]
            /\ pc'[q] \in Reading => "read" \in ofile'[q]
            /\ pc'[q] = "unborn" => ofile'[q] = {}
      BY <1>19 DEF Fork, FileTypes, ProcTypes, RefInv, Writing, Reading
    <2> QED
      BY <2>1, <2>2 DEF RefInv
  <1>20. ASSUME NEW e \in End, FileClose(p, e) PROVE RefInv'
    <2> USE <1>0
    <2>1. ASSUME NEW x \in End PROVE ref'[x] = Cardinality(Holders(x)')
      <3>1. IsFiniteSet(Holders(x))
        BY FS_Subset, ConstAssumption DEF Holders
      <3>2. CASE x = e
        <4>1. p \in Holders(x)
          BY <1>20, <3>2 DEF FileClose, Holders
        <4>2. Holders(x)' = Holders(x) \ {p}
          BY <1>20, <3>2 DEF FileClose, FileTypes, Holders
        <4>3. Cardinality(Holders(x)') = Cardinality(Holders(x)) - 1
          BY <3>1, <4>1, <4>2, FS_RemoveElement, Zenon
        <4>4. ref'[x] = ref[x] - 1
          BY <1>20, <3>2 DEF FileClose, FileTypes
        <4> QED
          BY <4>3, <4>4 DEF RefInv
      <3>3. CASE x # e
        <4>1. Holders(x)' = Holders(x)
          BY <1>20, <3>3 DEF FileClose, FileTypes, Holders
        <4> QED
          BY <1>20, <2>1, <3>3, <4>1 DEF FileClose, RefInv, FileTypes
      <3> QED
        BY <3>2, <3>3
    <2>2. \A q \in Proc :
            /\ pc'[q] \in Writing => "write" \in ofile'[q]
            /\ pc'[q] \in Reading => "read" \in ofile'[q]
            /\ pc'[q] = "unborn" => ofile'[q] = {}
      BY <1>20 DEF FileClose, FileTypes, ProcTypes, RefInv, Writing, Reading,
          PipeClosing
    <2> QED
      BY <2>1, <2>2 DEF RefInv
  <1>21. ASSUME NEW m \in 0..MaxN, WriteCall(p, m) PROVE RefInv'
    BY <1>0, <1>21 DEF WriteCall, FileTypes, ProcTypes, RefInv, Holders,
        Writing, Reading, End
  <1>22. ASSUME NEW m \in 0..MaxN, ReadCall(p, m) PROVE RefInv'
    BY <1>0, <1>22, SMTT(30) DEF ReadCall, FileTypes, ProcTypes, RefInv,
        Holders, Writing, Reading, End
  <1> QED
    BY <1>1, <1>2, <1>3, <1>4, <1>5, <1>6, <1>7, <1>8, <1>9, <1>10, <1>11,
        <1>12, <1>13, <1>14, <1>15, <1>16, <1>17, <1>18, <1>19, <1>20, <1>21,
        <1>22
    DEF StepOf, KernelStep

\* A step of process p preserves the order in which an end is closed.
LEMMA CloseStep ==
  ASSUME PipeInv, NEW p \in Proc, StepOf(p)
  PROVE  CloseInv'
  <1> USE DEF Goto, pipe, files
  <1>0. PipeTypes /\ FileTypes /\ ProcTypes /\ LocalTypes /\ TypeOK /\ LockInv /\ RefInv /\ CloseInv /\ FreeInv
    BY DEF PipeInv, TypeOK
  <1>1. CASE PipeCloseWrite(p)
    BY <1>0, <1>1 DEF PipeCloseWrite, AfterClose, WakeReaders, GotoWaking,
        FileTypes, ProcTypes, PipeTypes, RefInv, CloseInv, Writing, Reading,
        Holding, End
  <1>2. CASE PipeCloseRead(p)
    BY <1>0, <1>2, ZenonT(20) DEF PipeCloseRead, AfterClose, WakeWriters, GotoWaking,
        FileTypes, ProcTypes, PipeTypes, RefInv, CloseInv, Writing, Reading,
        Holding, End
  <1>3. CASE KFree(p)
    BY <1>0, <1>3 DEF KFree, FileTypes, ProcTypes, PipeTypes, RefInv, CloseInv,
        Writing, Reading, Holding, End
  <1>4. CASE WriteWoken(p)
    BY <1>0, <1>4, ZenonT(20) DEF WriteWoken, FileTypes, ProcTypes, PipeTypes, RefInv,
        CloseInv, Writing, Reading, Holding, End
  <1>5. CASE WriteFails(p)
    BY <1>0, <1>5, ZenonT(20) DEF WriteFails, Return, FileTypes, ProcTypes,
        PipeTypes, RefInv, CloseInv, Writing, Reading, Holding, End
  <1>6. CASE WriteFull(p)
    BY <1>0, <1>6 DEF WriteFull, WakeReaders, GotoWaking, FileTypes, ProcTypes,
        PipeTypes, RefInv, CloseInv, Writing, Reading, Holding, End
  <1>7. CASE WriteSleep(p)
    BY <1>0, <1>7, ZenonT(20) DEF WriteSleep, FileTypes, ProcTypes, PipeTypes, RefInv,
        CloseInv, Writing, Reading, Holding, End
  <1>8. CASE WriteDone(p)
    BY <1>0, <1>8, ZenonT(20) DEF WriteDone, Return, WakeReaders, GotoWaking, FileTypes,
        ProcTypes, PipeTypes, RefInv, CloseInv, Writing, Reading, Holding, End
  <1>9. CASE ReadWoken(p)
    BY <1>0, <1>9 DEF ReadWoken, FileTypes, ProcTypes, PipeTypes, RefInv,
        CloseInv, Writing, Reading, Holding, End
  <1>10. CASE ReadFails(p)
    BY <1>0, <1>10 DEF ReadFails, Return, FileTypes, ProcTypes, PipeTypes,
        RefInv, CloseInv, Writing, Reading, Holding, End
  <1>11. CASE ReadEmpty(p)
    BY <1>0, <1>11 DEF ReadEmpty, FileTypes, ProcTypes, PipeTypes, RefInv,
        CloseInv, Writing, Reading, Holding, End
  <1>12. CASE ReadSleep(p)
    BY <1>0, <1>12 DEF ReadSleep, FileTypes, ProcTypes, PipeTypes, RefInv,
        CloseInv, Writing, Reading, Holding, End
  <1>13. CASE ReadStart(p)
    BY <1>0, <1>13 DEF ReadStart, FileTypes, ProcTypes, PipeTypes, RefInv,
        CloseInv, Writing, Reading, Holding, End
  <1>14. CASE ReadByte(p)
    BY <1>0, <1>14 DEF ReadByte, FileTypes, ProcTypes, PipeTypes, RefInv,
        CloseInv, Writing, Reading, Holding, End
  <1>15. CASE ReadFault(p)
    BY <1>0, <1>15, SMTT(30) DEF ReadFault, Return, WakeWriters, GotoWaking,
        FileTypes, ProcTypes, PipeTypes, RefInv, CloseInv, Writing, Reading,
        Holding, End
  <1>16. CASE ReadDone(p)
    BY <1>0, <1>16 DEF ReadDone, Return, WakeWriters, GotoWaking, FileTypes,
        ProcTypes, PipeTypes, RefInv, CloseInv, Writing, Reading, Holding, End
  <1>17. CASE Kill(p)
    BY <1>0, <1>17, ZenonT(20) DEF Kill, FileTypes, ProcTypes, PipeTypes, RefInv, CloseInv,
        Writing, Reading, Holding, End
  <1>18. ASSUME NEW b \in Byte, WriteByte(p, b) PROVE CloseInv'
    BY <1>0, <1>18, ZenonT(20) DEF WriteByte, FileTypes, ProcTypes, PipeTypes,
        RefInv, CloseInv, Writing, Reading, Holding, End
  <1>19. ASSUME NEW c \in Proc, Fork(p, c) PROVE CloseInv'
    <2>1. \A x \in End : ref'[x] # 0 <=> ref[x] # 0
      BY <1>0, <1>19, HolderCounts DEF Fork, FileTypes
    <2>2. \A q \in Proc : \A l \in {"closeread", "closewrite"} : pc'[q] = l <=> pc[q] = l
      BY <1>0, <1>19 DEF Fork, ProcTypes
    <2>3. UNCHANGED <<readopen, writeopen>>
      BY <1>19 DEF Fork
    <2> QED
      BY <1>0, <2>1, <2>2, <2>3 DEF CloseInv, End
  <1>20. ASSUME NEW e \in End, FileClose(p, e) PROVE CloseInv'
    <2>0. ref[e] \in Nat /\ ref[e] # 0
      BY <1>0, <1>20, HolderCounts DEF FileClose
    <2>1. UNCHANGED <<readopen, writeopen>> /\ \A q \in Proc : q # p => pc'[q] = pc[q]
      BY <1>0, <1>20 DEF FileClose, ProcTypes
    <2>2. \A x \in End : x # e => ref'[x] = ref[x]
      BY <1>0, <1>20 DEF FileClose, FileTypes
    <2>3. pc[p] = "user" /\ e \in {"read", "write"}
      BY <1>20 DEF FileClose, End
    <2>4. CASE ref[e] > 1
      <3>1. pc' = pc /\ ref'[e] # 0
        BY <1>0, <1>20, <2>0, <2>4, SMTT(30) DEF FileClose, FileTypes, ProcTypes
      <3> QED
        BY <1>0, <2>0, <2>1, <2>2, <3>1 DEF CloseInv, End
    <2>5. CASE ~(ref[e] > 1)
      <3>1. ref'[e] = 0 /\ pc'[p] = PipeClosing(e)
        BY <1>0, <1>20, <2>0, <2>5, SMTT(30) DEF FileClose, FileTypes, ProcTypes
      <3> QED
        BY <1>0, <2>0, <2>1, <2>2, <2>3, <3>1, SMTT(30) DEF CloseInv, End, PipeClosing
    <2> QED
      BY <2>4, <2>5
  <1>21. ASSUME NEW m \in 0..MaxN, WriteCall(p, m) PROVE CloseInv'
    BY <1>0, <1>21, ZenonT(20) DEF WriteCall, FileTypes, ProcTypes, PipeTypes,
        RefInv, CloseInv, Writing, Reading, Holding, End
  <1>22. ASSUME NEW m \in 0..MaxN, ReadCall(p, m) PROVE CloseInv'
    BY <1>0, <1>22, SMTT(30) DEF ReadCall, FileTypes, ProcTypes, PipeTypes,
        RefInv, CloseInv, Writing, Reading, Holding, End
  <1> QED
    BY <1>1, <1>2, <1>3, <1>4, <1>5, <1>6, <1>7, <1>8, <1>9, <1>10, <1>11,
        <1>12, <1>13, <1>14, <1>15, <1>16, <1>17, <1>18, <1>19, <1>20, <1>21,
        <1>22
    DEF StepOf, KernelStep

\* A step of process p preserves that the page is freed once.
LEMMA FreeStep ==
  ASSUME PipeInv, NEW p \in Proc, StepOf(p)
  PROVE  FreeInv'
  <1> USE DEF Goto, pipe, files
  <1>0. PipeTypes /\ FileTypes /\ ProcTypes /\ LocalTypes /\ TypeOK /\ LockInv /\ RefInv /\ CloseInv /\ FreeInv
    BY DEF PipeInv, TypeOK
  <1>1. CASE PipeCloseWrite(p)
    BY <1>0, <1>1 DEF PipeCloseWrite, AfterClose, WakeReaders, GotoWaking,
        ProcTypes, PipeTypes, FileTypes, CloseInv, FreeInv, RefInv, Writing,
        Reading, End
  <1>2. CASE PipeCloseRead(p)
    BY <1>0, <1>2, ZenonT(20) DEF PipeCloseRead, AfterClose, WakeWriters, GotoWaking,
        ProcTypes, PipeTypes, FileTypes, CloseInv, FreeInv, RefInv, Writing,
        Reading, End
  <1>3. CASE KFree(p)
    BY <1>0, <1>3 DEF KFree, ProcTypes, PipeTypes, FileTypes, CloseInv,
        FreeInv, RefInv, Writing, Reading, End
  <1>4. CASE WriteWoken(p)
    BY <1>0, <1>4 DEF WriteWoken, ProcTypes, PipeTypes, FileTypes, CloseInv,
        FreeInv, RefInv, Writing, Reading, End
  <1>5. CASE WriteFails(p)
    BY <1>0, <1>5, ZenonT(20) DEF WriteFails, Return, ProcTypes, PipeTypes,
        FileTypes, CloseInv, FreeInv, RefInv, Writing, Reading, End
  <1>6. CASE WriteFull(p)
    BY <1>0, <1>6, ZenonT(20) DEF WriteFull, WakeReaders, GotoWaking, ProcTypes, PipeTypes,
        FileTypes, CloseInv, FreeInv, RefInv, Writing, Reading, End
  <1>7. CASE WriteSleep(p)
    BY <1>0, <1>7 DEF WriteSleep, ProcTypes, PipeTypes, FileTypes, CloseInv,
        FreeInv, RefInv, Writing, Reading, End
  <1>8. CASE WriteDone(p)
    BY <1>0, <1>8 DEF WriteDone, Return, WakeReaders, GotoWaking, ProcTypes,
        PipeTypes, FileTypes, CloseInv, FreeInv, RefInv, Writing, Reading, End
  <1>9. CASE ReadWoken(p)
    BY <1>0, <1>9 DEF ReadWoken, ProcTypes, PipeTypes, FileTypes, CloseInv,
        FreeInv, RefInv, Writing, Reading, End
  <1>10. CASE ReadFails(p)
    BY <1>0, <1>10 DEF ReadFails, Return, ProcTypes, PipeTypes, FileTypes,
        CloseInv, FreeInv, RefInv, Writing, Reading, End
  <1>11. CASE ReadEmpty(p)
    BY <1>0, <1>11 DEF ReadEmpty, ProcTypes, PipeTypes, FileTypes, CloseInv,
        FreeInv, RefInv, Writing, Reading, End
  <1>12. CASE ReadSleep(p)
    BY <1>0, <1>12 DEF ReadSleep, ProcTypes, PipeTypes, FileTypes, CloseInv,
        FreeInv, RefInv, Writing, Reading, End
  <1>13. CASE ReadStart(p)
    BY <1>0, <1>13, ZenonT(20) DEF ReadStart, ProcTypes, PipeTypes, FileTypes,
        CloseInv, FreeInv, RefInv, Writing, Reading, End
  <1>14. CASE ReadByte(p)
    BY <1>0, <1>14, ZenonT(20) DEF ReadByte, ProcTypes, PipeTypes, FileTypes,
        CloseInv, FreeInv, RefInv, Writing, Reading, End
  <1>15. CASE ReadFault(p)
    BY <1>0, <1>15, ZenonT(20) DEF ReadFault, Return, WakeWriters, GotoWaking,
        ProcTypes, PipeTypes, FileTypes, CloseInv, FreeInv, RefInv, Writing,
        Reading, End
  <1>16. CASE ReadDone(p)
    BY <1>0, <1>16 DEF ReadDone, Return, WakeWriters, GotoWaking, ProcTypes,
        PipeTypes, FileTypes, CloseInv, FreeInv, RefInv, Writing, Reading, End
  <1>17. CASE Kill(p)
    BY <1>0, <1>17, ZenonT(20) DEF Kill, ProcTypes, PipeTypes, FileTypes,
        CloseInv, FreeInv, RefInv, Writing, Reading, End
  <1>18. ASSUME NEW b \in Byte, WriteByte(p, b) PROVE FreeInv'
    BY <1>0, <1>18, ZenonT(20) DEF WriteByte, ProcTypes, PipeTypes, FileTypes,
        CloseInv, FreeInv, RefInv, Writing, Reading, End
  <1>19. ASSUME NEW c \in Proc, Fork(p, c) PROVE FreeInv'
    BY <1>0, <1>19, ZenonT(20) DEF Fork, ProcTypes, PipeTypes, FileTypes,
        CloseInv, FreeInv, RefInv, Writing, Reading, End
  <1>20. ASSUME NEW e \in End, FileClose(p, e) PROVE FreeInv'
    BY <1>0, <1>20, ZenonT(20) DEF FileClose, PipeClosing, ProcTypes, PipeTypes,
        FileTypes, CloseInv, FreeInv, RefInv, Writing, Reading, End
  <1>21. ASSUME NEW m \in 0..MaxN, WriteCall(p, m) PROVE FreeInv'
    BY <1>0, <1>21, ZenonT(20) DEF WriteCall, ProcTypes, PipeTypes, FileTypes,
        CloseInv, FreeInv, RefInv, Writing, Reading, End
  <1>22. ASSUME NEW m \in 0..MaxN, ReadCall(p, m) PROVE FreeInv'
    BY <1>0, <1>22 DEF ReadCall, ProcTypes, PipeTypes, FileTypes, CloseInv,
        FreeInv, RefInv, Writing, Reading, End
  <1> QED
    BY <1>1, <1>2, <1>3, <1>4, <1>5, <1>6, <1>7, <1>8, <1>9, <1>10, <1>11,
        <1>12, <1>13, <1>14, <1>15, <1>16, <1>17, <1>18, <1>19, <1>20, <1>21,
        <1>22
    DEF StepOf, KernelStep

\* The invariant of the pipe's references, flags and page: it is inductive.
THEOREM PipeInvariant == Spec => []PipeInv
  <1>1. PipeInv /\ [Next]_vars => PipeInv'
    <2> SUFFICES ASSUME PipeInv, [Next]_vars PROVE PipeInv'
      BY SMTT(30), ZenonT(20)
    <2>1. CASE UNCHANGED vars
      BY <2>1, SMTT(30) DEF vars, pipe, files, PipeInv, TypeOK, PipeTypes,
          FileTypes, ProcTypes, LocalTypes, LockInv, RefInv, CloseInv, FreeInv,
          Holders
    <2>2. ASSUME NEW p \in Proc, StepOf(p) PROVE PipeInv'
      BY <2>2, TypeStep, LockStep, RefStep, CloseStep, FreeStep DEF PipeInv
    <2>3. CASE Next
      BY <2>2, <2>3 DEF Next
    <2> QED
      BY <2>1, <2>3
  <1> QED
    BY InitInv, <1>1, PTL DEF Spec

\* The page is freed once, after the last process has left the pipe.
THEOREM FreedOnce == Spec => []NoUseAfterFree
  <1>1. PipeInv => NoUseAfterFree
    <2> SUFFICES ASSUME PipeInv, freed > 0 PROVE
            /\ freed = 1
            /\ lock = NoOne
            /\ \A p \in Proc : pc[p] \in {"unborn", "user"} /\ ofile[p] = {}
      BY DEF NoUseAfterFree
    <2>1. freed = 1 /\ ~readopen /\ ~writeopen /\ \A p \in Proc : pc[p] # "kfree"
      BY DEF PipeInv, FreeInv
    <2>2. /\ \A e \in End : ref[e] = 0
          /\ \A p \in Proc : pc[p] # "closeread" /\ pc[p] # "closewrite"
      BY <2>1 DEF PipeInv, CloseInv, End
    <2>3. \A e \in End : Holders(e) = {}
      <3> SUFFICES ASSUME NEW e \in End PROVE Holders(e) = {}
        BY ZenonT(20)
      <3>1. IsFiniteSet(Holders(e)) /\ Cardinality(Holders(e)) = 0
        BY <2>2, FS_Subset, ConstAssumption DEF Holders, PipeInv, RefInv
      <3> QED
        BY <3>1, FS_EmptySet
    <2>4. \A p \in Proc : ofile[p] = {}
      BY <2>3 DEF Holders, PipeInv, TypeOK, FileTypes
    <2>5. \A p \in Proc : pc[p] \notin Writing /\ pc[p] \notin Reading
      BY <2>4 DEF PipeInv, RefInv
    <2>6. \A p \in Proc : pc[p] \in {"unborn", "user"}
      BY <2>1, <2>2, <2>5 DEF PipeInv, TypeOK, ProcTypes, PCs
    <2>7. lock = NoOne
      BY <2>6 DEF PipeInv, TypeOK, ProcTypes, LockInv, Holding
    <2> QED
      BY <2>1, <2>4, <2>6, <2>7
  <1> QED
    BY <1>1, PipeInvariant, PTL

\* Every field keeps its type, the counters their width included.
THEOREM TypeCorrect == Spec => []TypeOK
  <1>1. PipeInv => TypeOK
    BY DEF PipeInv
  <1> QED
    BY <1>1, PipeInvariant, PTL
-----------------------------------------------------------------------------
(* The ring, across the wrap of the counters *)

\* How far nwrite is ahead of nread, without the remainder.
LEMMA CountIs ==
  ASSUME NEW r \in 0..(UINT - 1), NEW w \in 0..(UINT - 1)
  PROVE  (w + UINT - r) % UINT = IF r <= w THEN w - r ELSE w + UINT - r
  <1> DEFINE x == w + UINT - r
  <1>1. UINT \in Nat \ {0} /\ x \in Int
    BY ConstAssumption
  <1>2. IF r <= w THEN UINT <= x /\ x < UINT + UINT ELSE 0 <= x /\ x < UINT
    BY <1>1
  <1>3. x % UINT = IF r <= w THEN x - UINT ELSE x
    <2> HIDE DEF x
    <2> QED
      BY <1>1, <1>2, ModNear, Zenon
  <1> QED
    BY <1>1, <1>3

\* The counter of a full pipe, without the remainder.
LEMMA SumIs ==
  ASSUME NEW r \in 0..(UINT - 1)
  PROVE  (r + PIPESIZE) % UINT =
           IF r + PIPESIZE < UINT THEN r + PIPESIZE ELSE r + PIPESIZE - UINT
  <1> DEFINE x == r + PIPESIZE
  <1>1. UINT \in Nat \ {0} /\ x \in Int /\ 0 <= x /\ x < UINT + UINT
    BY ConstAssumption
  <1>2. x % UINT = IF x < UINT THEN x ELSE x - UINT
    <2> HIDE DEF x
    <2> QED
      BY <1>1, ModNear
  <1> QED
    BY <1>2, ConstAssumption

\* x++ without the remainder.
LEMMA BumpIs ==
  ASSUME NEW x \in 0..(UINT - 1)
  PROVE  Bump(x) = IF x = UINT - 1 THEN 0 ELSE x + 1
  <1>1. UINT \in Nat \ {0} /\ x + 1 \in Int
    BY ConstAssumption
  <1> QED
    BY <1>1, ModNear DEF Bump

\* The tests of the code, in terms of the number of bytes in the pipe.
LEMMA CountFacts ==
  ASSUME TypeOK
  PROVE  /\ Count \in 0..(UINT - 1)
         /\ Empty <=> Count = 0
         /\ Full <=> Count = PIPESIZE
  <1>1. nread \in 0..(UINT - 1) /\ nwrite \in 0..(UINT - 1)
    BY DEF TypeOK, PipeTypes
  <1>2. Count = IF nread <= nwrite THEN nwrite - nread ELSE nwrite + UINT - nread
    BY <1>1, CountIs DEF Count
  <1>3. (nread + PIPESIZE) % UINT =
          IF nread + PIPESIZE < UINT THEN nread + PIPESIZE ELSE nread + PIPESIZE - UINT
    BY <1>1, SumIs
  <1>4. UINT \in Nat /\ PIPESIZE \in Nat /\ PIPESIZE < UINT
    BY ConstAssumption
  <1> QED
    BY <1>1, <1>2, <1>3, <1>4 DEF Empty, Full

\* Storing a byte counts it.
LEMMA CountPut ==
  ASSUME TypeOK, Count < PIPESIZE, nwrite' = Bump(nwrite), nread' = nread
  PROVE  Count' = Count + 1
  <1>1. nread \in 0..(UINT - 1) /\ nwrite \in 0..(UINT - 1)
    BY DEF TypeOK, PipeTypes
  <1>2. Count = IF nread <= nwrite THEN nwrite - nread ELSE nwrite + UINT - nread
    BY <1>1, CountIs DEF Count
  <1>3. nwrite' = IF nwrite = UINT - 1 THEN 0 ELSE nwrite + 1
    BY <1>1, BumpIs
  <1>4. UINT \in Nat /\ PIPESIZE \in Nat /\ PIPESIZE < UINT
    BY ConstAssumption
  <1>5. nwrite' \in 0..(UINT - 1)
    BY <1>1, <1>3, <1>4
  <1>6. Count' = IF nread <= nwrite' THEN nwrite' - nread ELSE nwrite' + UINT - nread
    BY <1>1, <1>5, CountIs DEF Count
  <1> QED
    BY <1>1, <1>2, <1>3, <1>4, <1>6

\* Taking one uncounts it.
LEMMA CountTake ==
  ASSUME TypeOK, Count > 0, nread' = Bump(nread), nwrite' = nwrite
  PROVE  Count' = Count - 1
  <1>1. nread \in 0..(UINT - 1) /\ nwrite \in 0..(UINT - 1)
    BY DEF TypeOK, PipeTypes
  <1>2. Count = IF nread <= nwrite THEN nwrite - nread ELSE nwrite + UINT - nread
    BY <1>1, CountIs DEF Count
  <1>3. nread' = IF nread = UINT - 1 THEN 0 ELSE nread + 1
    BY <1>1, BumpIs
  <1>4. UINT \in Nat
    BY ConstAssumption
  <1>5. nread' \in 0..(UINT - 1)
    BY <1>1, <1>3, <1>4
  <1>6. Count' = IF nread' <= nwrite THEN nwrite - nread' ELSE nwrite + UINT - nread'
    BY <1>1, <1>5, CountIs DEF Count
  <1> QED
    BY <1>1, <1>2, <1>3, <1>4, <1>6

\* The index does not notice the wrap, as PIPESIZE divides 2^32.
LEMMA IndexWraps ==
  ASSUME NEW x \in Int
  PROVE  (x + UINT) % PIPESIZE = x % PIPESIZE
  <1>1. PIPESIZE \in Nat \ {0} /\ UINT \in Int /\ UINT % PIPESIZE = 0
    BY ConstAssumption
  <1>2. UINT \div PIPESIZE \in Int /\ UINT = PIPESIZE * (UINT \div PIPESIZE)
    BY <1>1, DivMod
  <1> QED
    BY <1>1, <1>2, ModAdd, Zenon

\* The byte that a reader finds at place k of the pipe.
Slot(k) == (nread + k - 1) % PIPESIZE

\* The next byte goes to the first place behind the others, and to none of
\* theirs.
LEMMA PutSlot ==
  ASSUME TypeOK, Count < PIPESIZE
  PROVE  /\ nwrite % PIPESIZE = Slot(Count + 1)
         /\ \A k \in 1..Count : Slot(k) # nwrite % PIPESIZE
         /\ nwrite % PIPESIZE \in 0..(PIPESIZE - 1)
  <1>1. nread \in 0..(UINT - 1) /\ nwrite \in 0..(UINT - 1)
    BY DEF TypeOK, PipeTypes
  <1>2. Count = IF nread <= nwrite THEN nwrite - nread ELSE nwrite + UINT - nread
    BY <1>1, CountIs DEF Count
  <1>3. PIPESIZE \in Nat \ {0} /\ UINT \in Nat
    BY ConstAssumption
  <1>4. Count \in 0..(UINT - 1)
    BY CountFacts
  <1>5. nread + (Count + 1) - 1 = IF nread <= nwrite THEN nwrite ELSE nwrite + UINT
    BY <1>1, <1>2, <1>3
  <1>6. nwrite % PIPESIZE = Slot(Count + 1)
    BY <1>1, <1>5, IndexWraps DEF Slot
  <1>7. ASSUME NEW k \in 1..Count PROVE Slot(k) # Slot(Count + 1)
    <2> DEFINE x == nread + k - 1
               e == Count + 1 - k
    <2>1. x \in Int /\ e \in 1..(PIPESIZE - 1) /\ x + e = nread + (Count + 1) - 1
      BY <1>1, <1>3, <1>4
    <2>2. (x + e) % PIPESIZE # x % PIPESIZE
      BY <1>3, <2>1, ModApart, Zenon
    <2> QED
      BY <2>1, <2>2 DEF Slot
  <1> QED
    BY <1>1, <1>6, <1>7, IndexType

\* When the first byte is taken, the others move up.
LEMMA TakeSlot ==
  ASSUME TypeOK, nread' = Bump(nread), NEW k \in Nat
  PROVE  Slot(k)' = Slot(k + 1)
  <1>1. nread \in 0..(UINT - 1) /\ UINT \in Nat
    BY ConstAssumption DEF TypeOK, PipeTypes
  <1>2. nread' = IF nread = UINT - 1 THEN 0 ELSE nread + 1
    BY <1>1, BumpIs
  <1>3. CASE nread = UINT - 1
    <2>1. nread + (k + 1) - 1 = (nread' + k - 1) + UINT /\ nread' + k - 1 \in Int
      BY <1>1, <1>2, <1>3
    <2> QED
      BY <2>1, IndexWraps DEF Slot
  <1>4. CASE nread # UINT - 1
    <2>1. nread + (k + 1) - 1 = nread' + k - 1
      BY <1>1, <1>2, <1>4, SMTT(30)
    <2> QED
      BY <2>1 DEF Slot
  <1> QED
    BY <1>3, <1>4

-----------------------------------------------------------------------------
(* The calls: end of file, and who sleeps *)

\* What a step may do to the pipe: nothing, store, take, or close an end.
Idles == UNCHANGED <<data, nread, nwrite, readopen, writeopen, out>>

Stores(p, b) ==
  /\ pc[p] = "w" /\ readopen /\ Count < PIPESIZE
  /\ data' = [data EXCEPT ![nwrite % PIPESIZE] = b] /\ nwrite' = Bump(nwrite)
  /\ UNCHANGED <<nread, readopen, writeopen, out>>

Takes(p) ==
  /\ pc[p] = "rcopy" /\ Count > 0
  /\ nread' = Bump(nread)
  /\ out' \in {out, NextByte}
  /\ UNCHANGED <<data, nwrite, readopen, writeopen>>

Closes ==
  /\ UNCHANGED <<data, nread, nwrite, out>>
  /\ \/ readopen /\ ~readopen' /\ writeopen' = writeopen
     \/ writeopen /\ ~writeopen' /\ readopen' = readopen

\* Every step is one of these.
LEMMA PipeSteps ==
  ASSUME PipeInv, RingInv, NEW p \in Proc, StepOf(p)
  PROVE  Idles \/ (\E b \in Byte : Stores(p, b)) \/ Takes(p) \/ Closes
  <1>0. /\ TypeOK /\ CloseInv /\ Count \in 0..(UINT - 1) /\ PIPESIZE \in Nat
        /\ (Empty <=> Count = 0) /\ (Full <=> Count = PIPESIZE) /\ Count <= PIPESIZE
    BY CountFacts, ConstAssumption, ZenonT(20) DEF PipeInv, RingInv
  <1>1. CASE PipeCloseWrite(p)
    BY <1>0, <1>1 DEF PipeCloseWrite, CloseInv, Closes, TypeOK, PipeTypes
  <1>2. CASE PipeCloseRead(p)
    BY <1>0, <1>2, ZenonT(20) DEF PipeCloseRead, CloseInv, Closes, TypeOK, PipeTypes
  <1>3. ASSUME NEW b \in Byte, WriteByte(p, b) PROVE Stores(p, b)
    BY <1>0, <1>3, SMTT(30) DEF WriteByte, GiveUp, Stores
  <1>4. CASE ReadByte(p)
    BY <1>0, <1>4, SMTT(30) DEF ReadByte, Takes
  <1>5. CASE ReadFault(p)
    BY <1>0, <1>5, SMTT(20) DEF ReadFault, Takes
  <1>6. CASE KFree(p) \/ WriteWoken(p) \/ WriteFails(p) \/ WriteFull(p) \/ WriteSleep(p)
             \/ WriteDone(p) \/ ReadWoken(p) \/ ReadFails(p) \/ ReadEmpty(p)
    BY <1>6, Zenon DEF KFree, WriteWoken, WriteFails, WriteFull, WriteSleep,
        WriteDone, ReadWoken,
                ReadFails, ReadEmpty, Idles, pipe
  <1>7. CASE \/ ReadSleep(p) \/ ReadStart(p) \/ ReadDone(p) \/ Kill(p)
             \/ (\E c \in Proc : Fork(p, c)) \/ (\E e \in End : FileClose(p, e))
             \/ (\E m \in 0..MaxN : WriteCall(p, m) \/ ReadCall(p, m))
    BY <1>7 DEF ReadSleep, ReadStart, ReadDone, Kill, Fork, FileClose,
        WriteCall, ReadCall,
                Idles, pipe
  <1> QED
    BY <1>1, <1>2, <1>3, <1>4, <1>5, <1>6, <1>7, SMTT(30) DEF StepOf, KernelStep

\* A step of process p preserves that the ring is not overfull.
LEMMA RingStep ==
  ASSUME PipeInv, RingInv, NEW p \in Proc, StepOf(p)
  PROVE  RingInv'
  <1>0. TypeOK /\ Count \in 0..(UINT - 1) /\ PIPESIZE \in Nat /\ Count <= PIPESIZE
    BY CountFacts, ConstAssumption DEF PipeInv, RingInv
  <1>1. CASE Idles \/ Closes
    BY <1>1 DEF Idles, Closes, RingInv, Count
  <1>2. ASSUME NEW b \in Byte, Stores(p, b) PROVE RingInv'
    <2>1. Count' = Count + 1 /\ Count < PIPESIZE
      BY <1>0, <1>2, CountPut DEF Stores
    <2> QED
      BY <1>0, <2>1 DEF RingInv
  <1>3. CASE Takes(p)
    <2>1. Count' = Count - 1
      BY <1>0, <1>3, CountTake, ZenonT(20) DEF Takes
    <2> QED
      BY <1>0, <2>1 DEF RingInv
  <1> QED
    BY <1>1, <1>2, <1>3, PipeSteps

\* A step of process p preserves that a reader starts with a byte, or at the
\* end.
LEMMA EofStep ==
  ASSUME PipeInv, EofInv, NEW p \in Proc, StepOf(p)
  PROVE  EofInv'
  <1> USE DEF Goto, pipe, files
  <1>0. /\ EofInv /\ LockInv /\ pc \in [Proc -> PCs] /\ i \in [Proc -> 0..MaxN]
        /\ MaxN \in Nat /\ NoOne \notin Proc
    BY ConstAssumption DEF PipeInv, TypeOK, ProcTypes, LocalTypes
  <1>1. CASE PipeCloseWrite(p)
    BY <1>0, <1>1 DEF PipeCloseWrite, AfterClose, WakeReaders, GotoWaking,
        EofInv, Empty, ReadWaits, LockInv, Holding
  <1>2. CASE PipeCloseRead(p)
    BY <1>0, <1>2, ZenonT(20) DEF PipeCloseRead, AfterClose, WakeWriters,
        GotoWaking, EofInv, Empty, ReadWaits, LockInv, Holding
  <1>3. CASE KFree(p) \/ WriteWoken(p) \/ WriteFails(p)
    BY <1>0, <1>3, ZenonT(20) DEF KFree, WriteWoken, WriteFails, GiveUp, Return,
        EofInv, Empty, ReadWaits, LockInv, Holding
  <1>4. CASE WriteFull(p)
    BY <1>0, <1>4, SMTT(30) DEF WriteFull, GiveUp, WakeReaders, GotoWaking,
        EofInv, Empty, ReadWaits, LockInv, Holding
  <1>5. CASE WriteSleep(p) \/ ReadWoken(p) \/ ReadFails(p)
    BY <1>0, <1>5 DEF WriteSleep, ReadWoken, ReadFails, Return, EofInv, Empty,
        ReadWaits, LockInv, Holding
  <1>6. CASE WriteDone(p)
    BY <1>0, <1>6, ZenonT(20) DEF WriteDone, Return, WakeReaders, GotoWaking,
        EofInv, Empty, ReadWaits, LockInv, Holding
  <1>7. CASE ReadEmpty(p) \/ ReadSleep(p) \/ ReadStart(p)
    BY <1>0, <1>7 DEF ReadEmpty, ReadSleep, ReadStart, ReadWaits, EofInv,
        Empty, ReadWaits, LockInv, Holding
  <1>8. CASE ReadByte(p)
    BY <1>0, <1>8 DEF ReadByte, EofInv, Empty, ReadWaits, LockInv, Holding
  <1>9. CASE ReadFault(p)
    BY <1>0, <1>9 DEF ReadFault, Return, WakeWriters, GotoWaking, EofInv,
        Empty, ReadWaits, LockInv, Holding
  <1>10. CASE ReadDone(p)
    BY <1>0, <1>10 DEF ReadDone, Return, WakeWriters, GotoWaking, EofInv,
        Empty, ReadWaits, LockInv, Holding
  <1>11. CASE Kill(p)
    BY <1>0, <1>11, ZenonT(20) DEF Kill, EofInv, Empty, ReadWaits, LockInv, Holding
  <1>12. ASSUME NEW b \in Byte, WriteByte(p, b) PROVE EofInv'
    BY <1>0, <1>12 DEF WriteByte, GiveUp, EofInv, Empty, ReadWaits, LockInv, Holding
  <1>13. ASSUME NEW c \in Proc, Fork(p, c) PROVE EofInv'
    BY <1>0, <1>13, ZenonT(20) DEF Fork, EofInv, Empty, ReadWaits, LockInv, Holding
  <1>14. ASSUME NEW e \in End, FileClose(p, e) PROVE EofInv'
    BY <1>0, <1>14, ZenonT(20) DEF FileClose, PipeClosing, EofInv, Empty,
        ReadWaits, LockInv, Holding
  <1>15. ASSUME NEW m \in 0..MaxN, WriteCall(p, m) \/ ReadCall(p, m) PROVE EofInv'
    BY <1>0, <1>15 DEF WriteCall, ReadCall, EofInv, Empty, ReadWaits, LockInv, Holding
  <1> QED
    BY <1>1, <1>2, <1>3, <1>4, <1>5, <1>6, <1>7, <1>8, <1>9, <1>10, <1>11,
        <1>12, <1>13, <1>14, <1>15, SMTT(30)
       DEF StepOf, KernelStep

\* Who is in a call has its end open.
LEMMA EndsOpen ==
  ASSUME PipeInv, NEW q \in Proc
  PROVE  /\ pc[q] \in Reading => readopen
         /\ pc[q] \in Writing => writeopen
  <1>1. TypeOK /\ RefInv /\ CloseInv
    BY DEF PipeInv
  <1>2. ASSUME pc[q] \in Reading PROVE readopen
    <2>1. "read" \in ofile[q]
      BY <1>1, <1>2 DEF RefInv
    <2> QED
      BY <1>1, <2>1, HolderCounts DEF CloseInv
  <1>3. ASSUME pc[q] \in Writing PROVE writeopen
    <2>1. "write" \in ofile[q]
      BY <1>1, <1>3, SMTT(30) DEF RefInv
    <2> QED
      BY <1>1, <2>1, HolderCounts, ZenonT(20) DEF CloseInv
  <1> QED
    BY <1>2, <1>3

\* A step of process p preserves that a sleeper waits, or will be woken.
LEMMA SleepStep ==
  ASSUME PipeInv, SleepInv, NEW p \in Proc, StepOf(p)
  PROVE  SleepInv'
  <1> USE DEF Goto, pipe, files
  <1>0. /\ SleepInv /\ LockInv /\ pc \in [Proc -> PCs] /\ killed \in [Proc -> BOOLEAN]
        /\ NoOne \notin Proc
        /\ \A q \in Proc : pc[q] \in Reading => readopen
        /\ \A q \in Proc : pc[q] \in Writing => writeopen
    BY ConstAssumption, EndsOpen, ZenonT(20) DEF PipeInv, TypeOK, ProcTypes
  <1>1. CASE PipeCloseWrite(p)
    BY <1>0, <1>1, ZenonT(20) DEF PipeCloseWrite, AfterClose, WakeReaders,
        GotoWaking, SleepInv, Empty, Full, ReadWaits, LockInv, Holding,
        Reading, Writing
  <1>2. CASE PipeCloseRead(p)
    BY <1>0, <1>2, ZenonT(20) DEF PipeCloseRead, AfterClose, WakeWriters,
        GotoWaking, SleepInv, Empty, Full, ReadWaits, LockInv, Holding,
        Reading, Writing
  <1>3. CASE KFree(p) \/ WriteWoken(p) \/ WriteFails(p)
    BY <1>0, <1>3, SMTT(20) DEF KFree, WriteWoken, WriteFails, GiveUp, Return,
        SleepInv, Empty, Full, ReadWaits, LockInv, Holding, Reading, Writing
  <1>4. CASE WriteFull(p)
    BY <1>0, <1>4, Zenon DEF WriteFull, GiveUp, WakeReaders, GotoWaking,
        SleepInv, Empty, Full, ReadWaits, LockInv, Holding, Reading, Writing
  <1>5. CASE WriteSleep(p) \/ ReadWoken(p) \/ ReadFails(p)
    BY <1>0, <1>5, SMTT(20) DEF WriteSleep, ReadWoken, ReadFails, Return,
        SleepInv, Empty, Full, ReadWaits, LockInv, Holding, Reading, Writing
  <1>6. CASE WriteDone(p)
    BY <1>0, <1>6, ZenonT(20) DEF WriteDone, Return, WakeReaders, GotoWaking,
        SleepInv, Empty, Full, ReadWaits, LockInv, Holding, Reading, Writing
  <1>7. CASE ReadEmpty(p) \/ ReadSleep(p) \/ ReadStart(p)
    BY <1>0, <1>7, SMTT(20) DEF ReadEmpty, ReadSleep, ReadStart, ReadWaits,
        SleepInv, Empty, Full, ReadWaits, LockInv, Holding, Reading, Writing
  <1>8. CASE ReadByte(p)
    BY <1>0, <1>8, ZenonT(20) DEF ReadByte, SleepInv, Empty, Full, ReadWaits,
        LockInv, Holding, Reading, Writing
  <1>9. CASE ReadFault(p)
    BY <1>0, <1>9, ZenonT(20) DEF ReadFault, Return, WakeWriters, GotoWaking,
        SleepInv, Empty, Full, ReadWaits, LockInv, Holding, Reading, Writing
  <1>10. CASE ReadDone(p)
    BY <1>0, <1>10 DEF ReadDone, Return, WakeWriters, GotoWaking, SleepInv,
        Empty, Full, ReadWaits, LockInv, Holding, Reading, Writing
  <1>11. CASE Kill(p)
    BY <1>0, <1>11, ZenonT(20) DEF Kill, SleepInv, Empty, Full, ReadWaits,
        LockInv, Holding, Reading, Writing
  <1>12. ASSUME NEW b \in Byte, WriteByte(p, b) PROVE SleepInv'
    BY <1>0, <1>12, ZenonT(20) DEF WriteByte, GiveUp, SleepInv, Empty, Full,
        ReadWaits, LockInv, Holding, Reading, Writing
  <1>13. ASSUME NEW c \in Proc, Fork(p, c) PROVE SleepInv'
    BY <1>0, <1>13, ZenonT(20) DEF Fork, SleepInv, Empty, Full, ReadWaits,
        LockInv, Holding, Reading, Writing
  <1>14. ASSUME NEW e \in End, FileClose(p, e) PROVE SleepInv'
    BY <1>0, <1>14, SMTT(20) DEF FileClose, PipeClosing, SleepInv, Empty, Full,
        ReadWaits, LockInv, Holding, Reading, Writing
  <1>15. ASSUME NEW m \in 0..MaxN, WriteCall(p, m) \/ ReadCall(p, m) PROVE SleepInv'
    <2>1. Empty' = Empty /\ Full' = Full /\ UNCHANGED <<killed, readopen, writeopen>>
      BY <1>15, ZenonT(20) DEF WriteCall, ReadCall, Empty, Full
    <2>2. /\ pc[p] = "user" /\ pc'[p] \in {"w", "r"}
          /\ \A q \in Proc \ {p} : pc'[q] = pc[q]
      BY <1>0, <1>15 DEF WriteCall, ReadCall
    <2>3. \A q \in Proc : pc[q] \in {"w", "rcopy"} => pc'[q] = pc[q]
      BY <2>2, Zenon
    <2> QED
      BY <1>0, <2>1, <2>2, <2>3, ZenonT(20) DEF SleepInv
  <1> QED
    BY <1>1, <1>2, <1>3, <1>4, <1>5, <1>6, <1>7, <1>8, <1>9, <1>10, <1>11,
        <1>12, <1>13, <1>14, <1>15
       DEF StepOf, KernelStep

\* What the calls rely on holds throughout.
THEOREM CallInvariant == Spec => [](PipeInv /\ CallInv)
  <1>1. Init => CallInv
    <2> SUFFICES ASSUME Init PROVE CallInv
      OBVIOUS
    <2>1. Count = 0 /\ PIPESIZE \in Nat
      BY InitInv, CountFacts, ConstAssumption DEF Init, PipeInv, Empty
    <2>2. RingInv
      BY <2>1 DEF RingInv
    <2>3. EofInv /\ SleepInv
      BY DEF Init, EofInv, SleepInv
    <2> QED
      BY <2>2, <2>3 DEF CallInv
  <1>2. PipeInv /\ CallInv /\ [Next]_vars => CallInv'
    <2>1. ASSUME CallInv, UNCHANGED vars PROVE CallInv'
      BY <2>1 DEF vars, pipe, files, CallInv, RingInv, Count, EofInv, SleepInv,
          Empty, Full
    <2>2. ASSUME PipeInv, CallInv, NEW p \in Proc, StepOf(p) PROVE CallInv'
      BY <2>2, RingStep, EofStep, SleepStep DEF CallInv
    <2> QED
      BY <2>1, <2>2, ZenonT(20) DEF Next
  <1> QED
    BY <1>1, <1>2, PipeInvariant, PTL DEF Spec

\* The two steps in which piperead() returns the number of bytes it copied;
\* in every other step a process in the second loop stays there.
LEMMA ReturnSteps ==
  ASSUME TypeOK, NEW p \in Proc, NEW q \in Proc, StepOf(q), ReadReturns(p)
  PROVE  ReadDone(p) \/ ReadFault(p)
  <1>0. pc \in [Proc -> PCs] /\ pc[p] = "rcopy" /\ pc'[p] = "user"
    BY DEF TypeOK, ProcTypes, ReadReturns
  <1>1. CASE PipeCloseWrite(q) \/ PipeCloseRead(q) \/ KFree(q)
    BY <1>0, <1>1 DEF PipeCloseWrite, PipeCloseRead, KFree, WakeReaders,
        WakeWriters, GotoWaking, Goto
  <1>2. CASE WriteWoken(q) \/ WriteFails(q) \/ WriteFull(q) \/ WriteSleep(q)
    BY <1>0, <1>2 DEF WriteWoken, WriteFails, WriteFull, WriteSleep,
        WakeReaders, GotoWaking, Goto
  <1>3. CASE WriteDone(q)
    BY <1>0, <1>3 DEF WriteDone, WakeReaders, GotoWaking
  <1>4. ASSUME NEW b \in Byte, WriteByte(q, b) PROVE FALSE
    BY <1>0, <1>4 DEF WriteByte
  <1>5. CASE ReadWoken(q) \/ ReadFails(q) \/ ReadEmpty(q) \/ ReadSleep(q)
    BY <1>0, <1>5 DEF ReadWoken, ReadFails, ReadEmpty, ReadSleep, Goto
  <1>6. CASE ReadStart(q) \/ ReadByte(q)
    BY <1>0, <1>6 DEF ReadStart, ReadByte, Goto
  <1>7. CASE ReadFault(q) \/ ReadDone(q)
    BY <1>0, <1>7 DEF ReadFault, ReadDone, WakeWriters, GotoWaking
  <1>8. ASSUME NEW c \in Proc, Fork(q, c) PROVE FALSE
    BY <1>0, <1>8 DEF Fork, Goto
  <1>9. ASSUME NEW e \in End, FileClose(q, e) PROVE FALSE
    BY <1>0, <1>9 DEF FileClose, Goto
  <1>10. ASSUME NEW m \in 0..MaxN, WriteCall(q, m) \/ ReadCall(q, m) PROVE FALSE
    BY <1>0, <1>10 DEF WriteCall, ReadCall, Goto
  <1>11. CASE Kill(q)
    BY <1>0, <1>11 DEF Kill, Goto
  <1> QED
    BY <1>1, <1>2, <1>3, <1>4, <1>5, <1>6, <1>7, <1>8, <1>9, <1>10, <1>11
    DEF StepOf, KernelStep

\* piperead() returns 0 at the end of the stream, or when copyout() fails on
\* the first byte: a pipe that is open and empty makes it wait instead.
THEOREM EofIsFinal == Spec => EofMeansClosed
  <1>1. ASSUME PipeInv, CallInv, NEW p \in Proc, NEW q \in Proc, StepOf(q),
               ReadReturns(p), i[p] = 0, n[p] > 0
        PROVE  \/ Empty /\ ~writeopen /\ UNCHANGED nread
               \/ ~Empty /\ nread' = Bump(nread) /\ UNCHANGED out
    <2>1. CASE ReadDone(p)
      BY <1>1, <2>1 DEF ReadDone, CallInv, EofInv, pipe
    <2>2. CASE ReadFault(p)
      BY <2>2 DEF ReadFault
    <2> QED
      BY <1>1, <2>1, <2>2, ReturnSteps DEF PipeInv
  <1>2. PipeInv /\ CallInv /\ [Next]_vars =>
          [\A p \in Proc :
             ReadReturns(p) /\ i[p] = 0 /\ n[p] > 0 =>
               \/ Empty /\ ~writeopen /\ UNCHANGED nread
               \/ ~Empty /\ nread' = Bump(nread) /\ UNCHANGED out]_vars
    BY <1>1, ZenonT(20) DEF Next
  <1> QED
    BY <1>2, CallInvariant, PTL DEF EofMeansClosed, Spec

\* As long as nobody is killed no wakeup() is missed in piperead() or in
\* pipewrite().
THEOREM SleepersHaveReason == Spec => []SleeperMustWait
  <1>1. PipeInv /\ CallInv => SleeperMustWait
    BY ConstAssumption DEF PipeInv, CallInv, LockInv, Holding, SleepInv, SleeperMustWait
  <1> QED
    BY <1>1, CallInvariant, PTL

-----------------------------------------------------------------------------
(* The pipe is a queue *)

\* What Append and Tail do to a sequence, and when two sequences are equal.
LEMMA SeqAppend ==
  ASSUME NEW S, NEW s \in Seq(S), NEW b \in S
  PROVE  /\ Append(s, b) \in Seq(S) /\ Len(Append(s, b)) = Len(s) + 1
         /\ \A k \in 1..Len(s) : Append(s, b)[k] = s[k]
         /\ Append(s, b)[Len(s) + 1] = b
  OBVIOUS

\* See SeqAppend.
LEMMA SeqTail ==
  ASSUME NEW S, NEW s \in Seq(S), s # <<>>
  PROVE  /\ Tail(s) \in Seq(S) /\ Len(Tail(s)) = Len(s) - 1 /\ Head(s) = s[1]
         /\ \A k \in 1..(Len(s) - 1) : Tail(s)[k] = s[k + 1]
  OBVIOUS

\* See SeqAppend.
LEMMA SeqSame ==
  ASSUME NEW S, NEW s \in Seq(S), NEW t \in Seq(S), Len(s) = Len(t),
         \A k \in 1..Len(s) : s[k] = t[k]
  PROVE  s = t
  OBVIOUS

\* See SeqAppend.
LEMMA SeqNone ==
  ASSUME NEW S, NEW s \in Seq(S), Len(s) = 0
  PROVE  s = <<>>
  OBVIOUS

\* A function on 1..m is a sequence.
LEMMA SeqOf ==
  ASSUME NEW S, NEW m \in Nat, NEW s \in [1..m -> S]
  PROVE  s \in Seq(S) /\ Len(s) = m
  OBVIOUS

\* The queue as a sequence.
QueueInv ==
  /\ Queue \in Seq(Byte \cup {Junk}) /\ Len(Queue) = Count
  /\ \A k \in 1..Count : Queue[k] = data[Slot(k)]

\* The abstract queue is the bytes between nread and nwrite.
LEMMA QueueIs == TypeOK => QueueInv
  <1> SUFFICES ASSUME TypeOK PROVE QueueInv
    OBVIOUS
  <1>1. Count \in Nat /\ nread \in 0..(UINT - 1) /\ UINT \in Nat /\ PIPESIZE \in Nat \ {0}
    BY CountFacts, ConstAssumption DEF TypeOK, PipeTypes
  <1>2. ASSUME NEW k \in 1..Count PROVE data[Slot(k)] \in Byte \cup {Junk}
    <2>1. nread + k - 1 \in Int
      BY <1>1
    <2>2. Slot(k) \in 0..(PIPESIZE - 1)
      BY <1>1, <2>1, DivMod DEF Slot
    <2> QED
      BY <2>2 DEF TypeOK, PipeTypes
  <1>3. Queue \in [1..Count -> Byte \cup {Junk}] /\ \A k \in 1..Count : Queue[k] = data[Slot(k)]
    BY <1>2 DEF Queue, Slot
  <1>4. Queue \in Seq(Byte \cup {Junk}) /\ Len(Queue) = Count
    BY <1>1, <1>3, SeqOf
  <1> QED
    BY <1>3, <1>4 DEF QueueInv

\* The same after a step.
LEMMA QueueLater == TypeOK' => QueueInv'
  BY QueueIs, PTL

\* Storing a byte appends it to the queue.
LEMMA PutRefines ==
  ASSUME TypeOK, TypeOK', NEW p \in Proc, NEW b \in Byte, Stores(p, b)
  PROVE  F!Put(b)
  <1>1. /\ Queue \in Seq(Byte \cup {Junk}) /\ Len(Queue) = Count
        /\ \A k \in 1..Count : Queue[k] = data[Slot(k)]
    BY QueueIs DEF QueueInv
  <1>2. /\ Queue' \in Seq(Byte \cup {Junk}) /\ Len(Queue') = Count'
        /\ \A k \in 1..Count' : Queue'[k] = data'[Slot(k)']
    BY QueueLater DEF QueueInv
  <1>3. Count < PIPESIZE /\ Count' = Count + 1 /\ Count \in Nat
    BY CountPut, CountFacts DEF Stores
  <1>4. /\ nwrite % PIPESIZE = Slot(Count + 1)
        /\ \A k \in 1..Count : Slot(k) # nwrite % PIPESIZE
        /\ nwrite % PIPESIZE \in 0..(PIPESIZE - 1)
    BY <1>3, PutSlot
  <1>5. \A k \in 1..Count' : Slot(k)' = Slot(k)
    BY DEF Slot, Stores
  <1>6. data' = [data EXCEPT ![nwrite % PIPESIZE] = b] /\ DOMAIN data = 0..(PIPESIZE - 1)
    BY DEF Stores, TypeOK, PipeTypes
  <1>7. Queue'[Count + 1] = b
    BY <1>2, <1>3, <1>4, <1>5, <1>6, SMTT(30)
  <1>8. \A k \in 1..Count : Queue'[k] = Queue[k]
    BY <1>1, <1>2, <1>3, <1>4, <1>5, <1>6, SMTT(20)
  <1> DEFINE a == Append(Queue, b)
  <1>9. /\ a \in Seq(Byte \cup {Junk}) /\ Len(a) = Count + 1
        /\ \A k \in 1..Count : a[k] = Queue[k]
        /\ a[Count + 1] = b
    BY <1>1, SeqAppend, SMTT(30)
  <1> HIDE DEF a
  <1>10. Queue' = a
    <2>1. \A k \in 1..(Count + 1) : Queue'[k] = a[k]
      BY <1>3, <1>7, <1>8, <1>9
    <2> QED
      BY <1>2, <1>3, <1>9, <2>1, SeqSame, SMTT(30)
  <1> QED
    BY <1>1, <1>3, <1>10, ZenonT(20) DEF a, F!Put, Stores

\* Taking one takes the head, also when copyout() then fails.
LEMMA TakeRefines ==
  ASSUME TypeOK, TypeOK', NEW p \in Proc, Takes(p)
  PROVE  F!Take \/ F!Lose
  <1>1. /\ Queue \in Seq(Byte \cup {Junk}) /\ Len(Queue) = Count
        /\ \A k \in 1..Count : Queue[k] = data[Slot(k)]
    BY QueueIs, SMTT(30) DEF QueueInv
  <1>2. /\ Queue' \in Seq(Byte \cup {Junk}) /\ Len(Queue') = Count'
        /\ \A k \in 1..Count' : Queue'[k] = data'[Slot(k)']
    BY QueueLater DEF QueueInv
  <1>3. Count > 0 /\ Count' = Count - 1 /\ Count \in Nat /\ data' = data
    BY CountTake, CountFacts DEF Takes
  <1>4. \A k \in 1..Count' : Slot(k)' = Slot(k + 1)
    BY <1>3, TakeSlot DEF Takes
  <1>5. Queue # <<>>
    BY <1>1, <1>3
  <1> DEFINE t == Tail(Queue)
  <1>6. /\ t \in Seq(Byte \cup {Junk}) /\ Len(t) = Count - 1
        /\ \A k \in 1..(Count - 1) : t[k] = Queue[k + 1]
    BY <1>1, <1>5, SeqTail, ZenonT(20)
  <1> HIDE DEF t
  <1>7. ASSUME NEW k \in 1..(Count - 1) PROVE Queue'[k] = t[k]
    <2>1. k \in 1..Count' /\ k + 1 \in 1..Count
      BY <1>3
    <2>2. Queue'[k] = data[Slot(k + 1)]
      BY <1>2, <1>3, <1>4, <2>1, SMTT(30)
    <2> QED
      BY <1>1, <1>6, <2>1, <2>2
  <1>8. Queue' = t
    BY <1>2, <1>3, <1>6, <1>7, SeqSame, SMTT(30)
  <1>9. Head(Queue) = NextByte
    <2>1. Head(Queue) = Queue[1]
      BY <1>1, <1>5
    <2>2. nread + 1 - 1 = nread
      BY DEF TypeOK, PipeTypes
    <2> QED
      BY <1>1, <1>3, <2>1, <2>2 DEF Slot, NextByte
  <1> QED
    BY <1>5, <1>8, <1>9 DEF t, F!Take, F!Lose, Takes

\* Bytes leave the pipe in the order in which they came, each once, for any
\* number of writers and readers and however often the counters wrap.
THEOREM Refinement == Spec => ImplementsFifo
  <1>1. Init => F!Init
    <2> SUFFICES ASSUME Init PROVE F!Init
      OBVIOUS
    <2>1. Len(Queue) = 0 /\ Queue \in Seq(Byte \cup {Junk})
      BY InitInv, QueueIs, CountFacts DEF Init, PipeInv, Empty, QueueInv
    <2>2. Queue = <<>>
      BY <2>1, SeqNone
    <2> QED
      BY <2>2 DEF Init, F!Init
  <1>2. PipeInv /\ PipeInv' /\ CallInv /\ [Next]_vars => [F!Next]_F!vars
    <2>1. ASSUME UNCHANGED vars PROVE UNCHANGED F!vars
      BY <2>1 DEF vars, pipe, F!vars, Queue, Count
    <2>2. ASSUME PipeInv, PipeInv', CallInv, NEW p \in Proc, StepOf(p)
          PROVE  [F!Next]_F!vars
      <3>0. TypeOK /\ TypeOK' /\ RingInv
        BY <2>2 DEF PipeInv, CallInv
      <3>1. CASE Idles
        BY <3>1 DEF Idles, F!vars, Queue, Count
      <3>2. ASSUME NEW b \in Byte, Stores(p, b) PROVE F!Next
        BY <3>0, <3>2, PutRefines DEF F!Next
      <3>3. CASE Takes(p)
        BY <3>0, <3>3, TakeRefines DEF F!Next
      <3>4. CASE Closes
        BY <3>4 DEF Closes, F!Next, F!CloseRead, F!CloseWrite, Queue, Count
      <3> QED
        BY <2>2, <3>0, <3>1, <3>2, <3>3, <3>4, PipeSteps, SMTT(30)
    <2> QED
      BY <2>1, <2>2 DEF Next
  <1> QED
    BY <1>1, <1>2, CallInvariant, PTL DEF Spec, ImplementsFifo, F!Spec

=============================================================================
