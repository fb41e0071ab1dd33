----------------------------- MODULE LogProofs -----------------------------
(***************************************************************************)
(* Proofs about Log, for any numbers of processes, blocks and values and   *)
(* any sizes of the log and of the reservation that satisfy                *)
(* ConstAssumption.  LogInv is shown to be inductive, one lemma per        *)
(* conjunct; the theorems at the end follow from it.                       *)
(***************************************************************************)
EXTENDS Log, FiniteSetTheorems, TLAPS

\* A freshly booted machine on the disk mkfs made satisfies the invariant.
LEMMA InitInv == Init => LogInv
<1> SUFFICES ASSUME Init PROVE LogInv
  OBVIOUS
<1> USE ConstAssumption DEF Init
<1>1. TypeOK
  <2>1. disk \in [Block -> Val] /\ logd \in [1..(NLOG - 1) -> Val]
    OBVIOUS
  <2>2. head \in Seq(Block) /\ Len(head) = 0 /\ lh \in Seq(Block) /\ Len(lh) = 0
    OBVIOUS
  <2>3. /\ buf \in [Block -> Val \cup {NotCached}]
        /\ pin \in [Block -> Nat]
        /\ wrote \in [Proc -> SUBSET Block]
    OBVIOUS
  <2>4. pc \in [Proc -> PCs]
    BY DEF PCs
  <2>5. 0 <= NLOG - 1 /\ outstanding \in Nat /\ tail \in Nat
    OBVIOUS
  <2> HIDE DEF Init
  <2>6. committing \in BOOLEAN /\ boot \in {"read_head", "install", "clear", "up"}
    BY Zenon DEF Init
  <2> QED
    BY <2>1, <2>2, <2>3, <2>4, <2>5, <2>6 DEF TypeOK
<1>2. NoDup(lh) /\ NoDup(head)
  BY DEF NoDup
<1>3. ControlInv
  <2>1. Active = {}
    BY DEF Active
  <2> QED
    BY <2>1, FS_EmptySet DEF ControlInv, CommitPCs
<1>4. PinInv
  BY DEF PinInv, Blocks
<1>5. PhaseInv
  BY DEF PhaseInv, Installing
<1> QED
  BY <1>1, <1>2, <1>3, <1>4, <1>5 DEF LogInv

\* The loops of write_log and install_trans touch an entry that exists.
LEMMA EntryType ==
  ASSUME TypeOK, tail < Len(lh)
  PROVE  /\ tail + 1 \in 1..Len(lh) /\ tail + 1 \in 1..(NLOG - 1)
         /\ lh[tail + 1] \in Block /\ logd[tail + 1] \in Val
  BY ConstAssumption DEF TypeOK

\* A running call is counted in log.outstanding.
LEMMA ActiveCount ==
  ASSUME LogInv
  PROVE  /\ IsFiniteSet(Active)
         /\ outstanding = 0 <=> Active = {}
         /\ outstanding = 1 => \A p, q \in Active : p = q
<1>1. Active \in SUBSET Proc
  BY DEF Active
<1>2. IsFiniteSet(Active)
  BY <1>1, FS_Subset, ConstAssumption
<1>3. outstanding = Cardinality(Active)
  BY DEF LogInv, ControlInv
<1> QED
  BY <1>2, <1>3, FS_EmptySet, FS_Singleton

\* The three outcomes of log_write().
WritePanics(p) ==
  /\ LogFull \/ outstanding < 1
  /\ pc' = [pc EXCEPT ![p] = "panic"]
  /\ UNCHANGED <<buf, lh, pin>>
WriteAbsorbed(b, v) ==
  /\ ~(LogFull \/ outstanding < 1)
  /\ b \in Blocks(lh)
  /\ buf' = [buf EXCEPT ![b] = v]
  /\ UNCHANGED <<pc, lh, pin>>
WriteAppended(b, v) ==
  /\ ~(LogFull \/ outstanding < 1)
  /\ b \notin Blocks(lh)
  /\ buf' = [buf EXCEPT ![b] = v]
  /\ lh' = Append(lh, b)
  /\ pin' = [pin EXCEPT ![b] = @ + 1]
  /\ UNCHANGED pc

\* log_write() has no other outcome.
LEMMA LogWriteCases ==
  ASSUME NEW p, NEW b, NEW v, LogWrite(p, b, v)
  PROVE  WritePanics(p) \/ WriteAbsorbed(b, v) \/ WriteAppended(b, v)
  BY Zenon DEF LogWrite, WritePanics, WriteAbsorbed, WriteAppended

\* The two outcomes of end_op() when it meets no commit in progress.
EndsLast(p) ==
  /\ outstanding = 1
  /\ committing' = TRUE
  /\ tail' = 0
  /\ pc' = [pc EXCEPT ![p] = IF lh = <<>> THEN "done" ELSE "write_log"]
EndsEarly(p) ==
  /\ outstanding # 1
  /\ pc' = Wakeup([pc EXCEPT ![p] = "out"])
  /\ UNCHANGED <<committing, tail>>

\* end_op() has no other outcome: in particular no commit is in progress.
LEMMA EndOpCases ==
  ASSUME LogInv, NEW p \in Proc, EndOp(p)
  PROVE  /\ ~committing /\ p \in Active /\ outstanding # 0
         /\ EndsLast(p) \/ EndsEarly(p)
<1>1. p \in Active
  BY DEF EndOp, Active
<1>2. ~committing
  BY <1>1 DEF LogInv, ControlInv
<1>3. outstanding # 0
  BY <1>1, ActiveCount
<1> QED
  BY <1>1, <1>2, <1>3, Zenon DEF EndOp, CommitFirst, EndsLast, EndsEarly

\* No step of begin_op, log_write, end_op, commit, recovery or the cache
\* leaves the types; commit() indexes the header and the log within bounds.
LEMMA TypeStep == LogInv /\ [Next]_vars => TypeOK'
<1> SUFFICES ASSUME LogInv, [Next]_vars PROVE TypeOK'
  OBVIOUS
<1> USE ConstAssumption
<1>0. TypeOK /\ ControlInv /\ PinInv /\ PhaseInv
  BY DEF LogInv
<1>1. CASE RecoverReadHead
  BY <1>0, <1>1 DEF TypeOK, stable, RecoverReadHead
<1>2. CASE RecoverInstall
  <2>1. tail < Len(lh)
    BY <1>0, <1>2 DEF PhaseInv, RecoverInstall
  <2> QED
    BY <1>0, <1>2, <2>1, EntryType DEF TypeOK, RecoverInstall, CopyHome
<1>3. CASE RecoverClear
  BY <1>0, <1>3 DEF TypeOK, RecoverClear, EraseLog
<1>4. ASSUME NEW p \in Proc, BeginOp(p) PROVE TypeOK'
  BY <1>0, <1>4 DEF TypeOK, PCs, stable, BeginOp
<1>5. ASSUME NEW p \in Proc, BeginSleep(p) PROVE TypeOK'
  BY <1>0, <1>5 DEF TypeOK, PCs, stable, BeginSleep
<1>6. ASSUME NEW p \in Proc, NEW b \in Block, NEW v \in Val, LogWrite(p, b, v)
      PROVE  TypeOK'
  <2>1. wrote' \in [Proc -> SUBSET Block]
    BY <1>0, <1>6 DEF TypeOK, LogWrite
  <2>2. /\ buf' \in [Block -> Val \cup {NotCached}] /\ pin' \in [Block -> Nat]
        /\ lh' \in Seq(Block) /\ Len(lh') <= NLOG - 1
        /\ pc' \in [Proc -> PCs]
    <3>1. CASE WritePanics(p)
      BY <1>0, <3>1 DEF TypeOK, PCs, WritePanics
    <3>2. CASE WriteAbsorbed(b, v)
      BY <1>0, <3>2 DEF TypeOK, WriteAbsorbed
    <3>3. CASE WriteAppended(b, v)
      BY <1>0, <3>3 DEF TypeOK, WriteAppended, LogFull
    <3> QED
      BY <1>6, <3>1, <3>2, <3>3, LogWriteCases
  <2> QED
    BY <1>0, <1>6, <2>1, <2>2 DEF TypeOK, LogWrite, stable
<1>7. ASSUME NEW p \in Proc, EndOp(p) PROVE TypeOK'
  <2>1. outstanding # 0
    BY <1>7, EndOpCases
  <2>2. wrote' \in [Proc -> SUBSET Block] /\ outstanding' \in Nat
    BY <1>0, <1>7, <2>1 DEF TypeOK, EndOp
  <2>3. pc' \in [Proc -> PCs] /\ committing' \in BOOLEAN /\ tail' \in Nat
    <3>1. CASE EndsLast(p)
      BY <1>0, <3>1 DEF TypeOK, PCs, EndsLast
    <3>2. CASE EndsEarly(p)
      BY <1>0, <3>2 DEF TypeOK, PCs, EndsEarly, Wakeup
    <3> QED
      BY <1>7, <3>1, <3>2, EndOpCases
  <2> QED
    BY <1>0, <1>7, <2>2, <2>3 DEF TypeOK, EndOp, stable
<1>8. ASSUME NEW p \in Proc, WriteLog(p) PROVE TypeOK'
  <2>1. tail < Len(lh)
    BY <1>0, <1>8 DEF PhaseInv, WriteLog
  <2>2. View(lh[tail + 1]) \in Val
    BY <1>0, <2>1, EntryType DEF View, TypeOK
  <2>3. logd' \in [1..(NLOG - 1) -> Val] /\ buf' \in [Block -> Val \cup {NotCached}]
    BY <1>0, <1>8, <2>1, <2>2, EntryType DEF TypeOK, WriteLog
  <2>4. pc' \in [Proc -> PCs] /\ tail' \in Nat
    BY <1>0, <1>8 DEF TypeOK, PCs, WriteLog
  <2> QED
    BY <1>0, <1>8, <2>3, <2>4 DEF TypeOK, WriteLog
<1>9. ASSUME NEW p \in Proc, WriteHead(p) PROVE TypeOK'
  BY <1>0, <1>9 DEF TypeOK, PCs, WriteHead
<1>10. ASSUME NEW p \in Proc, Install(p) PROVE TypeOK'
  <2>1. tail < Len(lh) /\ boot = "up"
    BY <1>0, <1>10 DEF PhaseInv, ControlInv, Install
  <2>2. pin[lh[tail + 1]] = 1
    BY <1>0, <1>10, <2>1, EntryType DEF PinInv, Install, TypeOK, Installing
  <2>3. pin' \in [Block -> Nat] /\ pc' \in [Proc -> PCs]
    BY <1>0, <1>10, <2>1, <2>2, EntryType DEF TypeOK, PCs, Install
  <2> QED
    BY <1>0, <1>10, <2>1, <2>3, EntryType, SMTT(30) DEF TypeOK, Install, CopyHome
<1>11. ASSUME NEW p \in Proc, Clear(p) PROVE TypeOK'
  BY <1>0, <1>11 DEF TypeOK, PCs, Clear, EraseLog
<1>12. ASSUME NEW p \in Proc, CommitDone(p) PROVE TypeOK'
  BY <1>0, <1>12, Zenon DEF TypeOK, PCs, stable, CommitDone, Wakeup
<1>13. ASSUME NEW b \in Block, Evict(b) PROVE TypeOK'
  BY <1>0, <1>13 DEF TypeOK, stable, Evict
<1>14. ASSUME NEW b \in Block, Load(b) PROVE TypeOK'
  BY <1>0, <1>14 DEF TypeOK, stable, Load
<1>15. CASE Crash
  <2>1. /\ buf' \in [Block -> Val \cup {NotCached}]
        /\ pin' \in [Block -> Nat]
        /\ wrote' \in [Proc -> SUBSET Block]
    BY <1>15 DEF Crash
  <2>2. lh' \in Seq(Block) /\ Len(lh') = 0 /\ pc' \in [Proc -> PCs]
    BY <1>15 DEF Crash, PCs
  <2>3. /\ outstanding' \in Nat /\ tail' \in Nat /\ committing' \in BOOLEAN
        /\ boot' \in {"read_head", "install", "clear", "up"}
        /\ UNCHANGED <<disk, logd, head>>
    BY <1>15, Zenon DEF Crash, stable
  <2> QED
    BY <1>0, <2>1, <2>2, <2>3 DEF TypeOK
<1>16. CASE UNCHANGED vars
  BY <1>0, <1>16 DEF TypeOK, vars
<1> QED
  BY <1>1, <1>2, <1>3, <1>4, <1>5, <1>6, <1>7, <1>8, <1>9, <1>10, <1>11,
     <1>12, <1>13, <1>14, <1>15, <1>16 DEF Next

\* Appending a block that is not in the header keeps its entries distinct.
LEMMA NoDupAppend ==
  ASSUME NEW h \in Seq(Block), NoDup(h), NEW b \in Block, b \notin Blocks(h)
  PROVE  NoDup(Append(h, b))
  BY DEF NoDup, Blocks

\* What appending adds to the header.
LEMMA BlocksAppend ==
  ASSUME NEW h \in Seq(Block), NEW b \in Block
  PROVE  Blocks(Append(h, b)) = Blocks(h) \cup {b}
<1>1. /\ Len(Append(h, b)) = Len(h) + 1 /\ Len(h) \in Nat
      /\ \A i \in 1..Len(h) : Append(h, b)[i] = h[i]
      /\ Append(h, b)[Len(h) + 1] = b
  OBVIOUS
<1>2. \A i : i \in 1..(Len(h) + 1) <=> i \in 1..Len(h) \/ i = Len(h) + 1
  BY <1>1
<1> QED
  BY <1>1, <1>2 DEF Blocks

\* A block occurs once in a header, in memory and on disk: log_write()
\* absorbs a second write of a block that is already there.
LEMMA NoDupStep == LogInv /\ [Next]_vars => NoDup(lh)' /\ NoDup(head)'
<1> SUFFICES ASSUME LogInv, [Next]_vars PROVE NoDup(lh)' /\ NoDup(head)'
  OBVIOUS
<1>0. TypeOK /\ NoDup(lh) /\ NoDup(head)
  BY DEF LogInv
<1>1. CASE /\ lh' \in {lh, head, <<>>}
           /\ head' \in {lh, head, <<>>}
  BY <1>0, <1>1 DEF NoDup
<1>2. ASSUME NEW p \in Proc, NEW b \in Block, NEW v \in Val, LogWrite(p, b, v)
      PROVE  NoDup(lh)' /\ NoDup(head)'
  <2>1. head' = head
    BY <1>2 DEF LogWrite, stable
  <2>2. lh' = lh \/ WriteAppended(b, v)
    BY <1>2, LogWriteCases DEF WritePanics, WriteAbsorbed
  <2>3. CASE WriteAppended(b, v)
    BY <1>0, <2>1, <2>3, NoDupAppend, Zenon DEF TypeOK, WriteAppended, NoDup
  <2> QED
    BY <1>1, <2>1, <2>2, <2>3
<1>3. CASE RecoverReadHead \/ RecoverInstall \/ RecoverClear \/ Crash
  BY <1>1, <1>3 DEF RecoverReadHead, RecoverInstall, RecoverClear, Crash,
                    CopyHome, EraseLog, stable
<1>4. ASSUME NEW p \in Proc,
             BeginOp(p) \/ BeginSleep(p) \/ EndOp(p) \/ WriteLog(p)
               \/ WriteHead(p) \/ Install(p) \/ Clear(p) \/ CommitDone(p)
      PROVE  NoDup(lh)' /\ NoDup(head)'
  BY <1>1, <1>4 DEF BeginOp, BeginSleep, EndOp, WriteLog, WriteHead, Install,
                    Clear, CommitDone, CopyHome, EraseLog, stable
<1>5. ASSUME NEW b \in Block, Evict(b) \/ Load(b)
      PROVE  NoDup(lh)' /\ NoDup(head)'
  BY <1>1, <1>5 DEF Evict, Load, stable
<1>6. CASE UNCHANGED vars
  BY <1>1, <1>6 DEF vars
<1> QED
  BY <1>2, <1>3, <1>4, <1>5, <1>6 DEF Next

\* Calls and commits exclude each other and log.outstanding counts the calls.
LEMMA ControlStep == LogInv /\ [Next]_vars => ControlInv'
<1> SUFFICES ASSUME LogInv, [Next]_vars PROVE ControlInv'
  OBVIOUS
<1>0. TypeOK /\ ControlInv /\ PhaseInv
  BY DEF LogInv
<1>1. ASSUME UNCHANGED <<pc, outstanding, committing>>,
             boot' # "up" => boot # "up",
             boot' = "up" => lh' = <<>> \/ (boot = "up" /\ lh' = lh) \/ outstanding # 0
      PROVE  ControlInv'
  <2>1. UNCHANGED Active
    BY <1>1 DEF Active
  <2> QED
    BY <1>0, <1>1, <2>1, Zenon DEF ControlInv
<1>2. CASE RecoverReadHead \/ RecoverInstall \/ RecoverClear
  BY <1>1, <1>2 DEF RecoverReadHead, RecoverInstall, RecoverClear, CopyHome,
                    EraseLog
<1>3. ASSUME NEW p \in Proc, BeginOp(p) PROVE ControlInv'
  <2>1. p \notin Active /\ Active' = Active \cup {p} /\ ~committing
    BY <1>0, <1>3 DEF BeginOp, AtBegin, Active, MustWait, TypeOK
  <2>2. outstanding' = Cardinality(Active')
    BY <1>0, <1>3, <2>1, ActiveCount, FS_AddElement, Zenon DEF BeginOp, ControlInv
  <2>3. outstanding' # 0 /\ boot' = "up" /\ committing' = committing
    BY <1>0, <1>3 DEF BeginOp, AtBegin, TypeOK
  <2>4. \A q \in Proc : pc'[q] \in CommitPCs <=> pc[q] \in CommitPCs
    BY <1>0, <1>3 DEF BeginOp, AtBegin, TypeOK, CommitPCs
  <2> QED
    BY <1>0, <2>1, <2>2, <2>3, <2>4 DEF ControlInv
<1>4. ASSUME NEW p \in Proc, BeginSleep(p) PROVE ControlInv'
  <2>1. Active' = Active
    BY <1>0, <1>4 DEF BeginSleep, AtBegin, Active, TypeOK
  <2>2. boot' = "up" /\ boot = "up" /\ UNCHANGED <<lh, outstanding, committing>>
    BY <1>4 DEF BeginSleep, AtBegin
  <2>3. \A q \in Proc : pc'[q] \in CommitPCs <=> pc[q] \in CommitPCs
    BY <1>0, <1>4 DEF BeginSleep, AtBegin, TypeOK, CommitPCs
  <2> QED
    BY <1>0, <2>1, <2>2, <2>3 DEF ControlInv
<1>5. ASSUME NEW p \in Proc, NEW b \in Block, NEW v \in Val, LogWrite(p, b, v)
      PROVE  ControlInv'
  <2>1. p \in Active
    BY <1>5 DEF LogWrite, Active
  <2>2. outstanding # 0 /\ boot = "up"
    BY <1>0, <1>5, <2>1, ActiveCount DEF LogWrite, ControlInv
  <2>3. CASE WritePanics(p)
    <3>1. Active' = Active
      BY <1>0, <1>5, <2>3 DEF WritePanics, LogWrite, Active, TypeOK
    <3>2. \A q \in Proc : pc'[q] \in CommitPCs <=> pc[q] \in CommitPCs
      BY <1>0, <1>5, <2>3 DEF WritePanics, LogWrite, TypeOK, CommitPCs
    <3> QED
      BY <1>0, <1>5, <2>2, <3>1, <3>2 DEF ControlInv, LogWrite
  <2>4. CASE pc' = pc
    BY <1>1, <1>5, <2>2, <2>4 DEF LogWrite
  <2> QED
    BY <1>5, <2>3, <2>4, LogWriteCases DEF WriteAbsorbed, WriteAppended
<1>6. ASSUME NEW p \in Proc, EndOp(p) PROVE ControlInv'
  <2>1. ~committing /\ p \in Active /\ outstanding # 0 /\ boot = "up"
    BY <1>0, <1>6, EndOpCases, Zenon DEF EndOp, ControlInv
  <2>2. \A q \in Proc : pc[q] \notin CommitPCs
    BY <1>0, <2>1 DEF ControlInv
  <2>3. outstanding' = outstanding - 1 /\ boot' = "up"
    BY <1>6, <2>1 DEF EndOp
  <2>4. Cardinality(Active \ {p}) = outstanding - 1
    BY <1>0, <2>1, ActiveCount, FS_RemoveElement, Zenon DEF ControlInv
  <2>5. Active' = Active \ {p}
    <3>1. CASE EndsLast(p)
      BY <1>0, <3>1 DEF EndsLast, Active, TypeOK
    <3>2. CASE EndsEarly(p)
      BY <1>0, <3>2 DEF EndsEarly, Wakeup, Active, TypeOK
    <3> QED
      BY <1>6, <3>1, <3>2, EndOpCases
  <2>6. CASE EndsLast(p)
    <3>1. \A q \in Proc : pc'[q] \in CommitPCs <=> q = p
      BY <1>0, <2>2, <2>6 DEF EndsLast, TypeOK, CommitPCs
    <3>2. Active' = {}
      BY <2>1, <2>5, <2>6, ActiveCount DEF EndsLast
    <3> QED
      BY <2>3, <2>4, <2>5, <2>6, <3>1, <3>2 DEF ControlInv, EndsLast
  <2>7. CASE EndsEarly(p)
    <3>1. \A q \in Proc : pc'[q] \notin CommitPCs
      BY <1>0, <2>2, <2>7 DEF EndsEarly, Wakeup, TypeOK, CommitPCs
    <3>2. ~committing' /\ outstanding' # 0
      BY <1>0, <2>1, <2>3, <2>7 DEF EndsEarly, TypeOK
    <3> QED
      BY <2>3, <2>4, <2>5, <3>1, <3>2 DEF ControlInv
  <2> QED
    BY <1>6, <2>6, <2>7, EndOpCases
<1>7. ASSUME NEW p \in Proc, WriteLog(p) \/ WriteHead(p) \/ Install(p) \/ Clear(p)
      PROVE  ControlInv'
  <2>1. /\ pc[p] \in CommitPCs /\ pc'[p] \in CommitPCs
        /\ \A q \in Proc \ {p} : pc'[q] = pc[q]
        /\ UNCHANGED <<outstanding, committing, boot>>
    BY <1>0, <1>7 DEF WriteLog, WriteHead, Install, Clear, CopyHome, EraseLog,
                      TypeOK, CommitPCs
  <2>2. committing /\ boot = "up"
    BY <1>0, <2>1 DEF ControlInv, CommitPCs
  <2>3. Active' = Active
    BY <2>1 DEF Active, CommitPCs
  <2>4. \A q \in Proc : pc'[q] \in CommitPCs <=> pc[q] \in CommitPCs
    BY <2>1
  <2> QED
    BY <1>0, <2>1, <2>2, <2>3, <2>4 DEF ControlInv
<1>8. ASSUME NEW p \in Proc, CommitDone(p) PROVE ControlInv'
  <2>1. pc[p] \in CommitPCs /\ lh = <<>>
    BY <1>0, <1>8 DEF CommitDone, CommitPCs, PhaseInv
  <2>2. boot = "up" /\ \A q \in Proc : pc[q] \in CommitPCs => q = p
    BY <1>0, <2>1 DEF ControlInv, CommitPCs
  <2>3. Active' = Active
    BY <1>0, <1>8 DEF CommitDone, Wakeup, Active, TypeOK
  <2>4. \A q \in Proc : pc'[q] \notin CommitPCs
    BY <1>0, <1>8, <2>2 DEF CommitDone, Wakeup, TypeOK, CommitPCs
  <2>5. ~committing' /\ UNCHANGED <<lh, outstanding, boot>>
    BY <1>8 DEF CommitDone
  <2> QED
    BY <1>0, <2>1, <2>2, <2>3, <2>4, <2>5 DEF ControlInv
<1>9. ASSUME NEW b \in Block, Evict(b) \/ Load(b) PROVE ControlInv'
  BY <1>1, <1>9 DEF Evict, Load
<1>10. CASE Crash
  <2>1. Active' = {}
    BY <1>10 DEF Crash, Active
  <2> QED
    BY <1>10, <2>1, FS_EmptySet DEF Crash, ControlInv, CommitPCs
<1>11. CASE UNCHANGED vars
  BY <1>1, <1>11 DEF vars
<1> QED
  BY <1>2, <1>3, <1>4, <1>5, <1>6, <1>7, <1>8, <1>9, <1>10, <1>11 DEF Next

\* No process is installing while a call runs.
LEMMA NotInstalling ==
  ASSUME LogInv, NEW p \in Proc, pc[p] \in {"op", "write_log", "write_head", "done"}
  PROVE  ~Installing
<1>1. CASE pc[p] = "op"
  BY <1>1 DEF LogInv, ControlInv, Active, Installing, CommitPCs
<1>2. CASE pc[p] # "op"
  BY <1>2 DEF LogInv, ControlInv, Installing, CommitPCs
<1> QED
  BY <1>1, <1>2

\* A buffer is pinned from log_write() until install_trans() has copied it
\* home, and an unpinned buffer never differs from the disk.
LEMMA PinStep == LogInv /\ [Next]_vars => PinInv'
<1> SUFFICES ASSUME LogInv, [Next]_vars PROVE PinInv'
  OBVIOUS
<1>0. TypeOK /\ NoDup(lh) /\ ControlInv /\ PinInv /\ PhaseInv
  BY DEF LogInv
<1>1. ASSUME UNCHANGED <<disk, lh, pin, boot, buf>>,
             ~Installing' \/ tail' = tail, Installing' => Installing,
             Installing => Installing'
      PROVE  PinInv'
  BY <1>0, <1>1, Zenon DEF PinInv, Blocks
<1>2. CASE RecoverReadHead
  BY <1>0, <1>2 DEF RecoverReadHead, PinInv, stable
<1>3. CASE RecoverInstall
  <2>1. tail < Len(lh) /\ boot # "up"
    BY <1>0, <1>3 DEF PhaseInv, RecoverInstall
  <2>2. boot' # "up" /\ pin' = pin /\ \A b \in Block : pin[b] = 0
    BY <1>0, <1>3, <2>1 DEF PinInv, RecoverInstall
  <2>3. \A b \in Block : buf'[b] \in {NotCached, disk'[b]}
    BY <1>0, <1>3, <2>1, <2>2, EntryType, ZenonT(20) DEF PinInv, RecoverInstall,
        CopyHome, TypeOK
  <2> QED
    BY <2>2, <2>3 DEF PinInv
<1>4. CASE RecoverClear
  <2>1. Len(lh') = 0 /\ UNCHANGED <<disk, buf, pin>> /\ boot # "up"
    BY <1>4 DEF RecoverClear, EraseLog
  <2> QED
    BY <1>0, <2>1 DEF PinInv
<1>5. ASSUME NEW p \in Proc, BeginOp(p) \/ BeginSleep(p) PROVE PinInv'
  <2>1. Installing' <=> Installing
    BY <1>0, <1>5 DEF BeginOp, BeginSleep, AtBegin, TypeOK, Installing
  <2> QED
    BY <1>1, <1>5, <2>1 DEF BeginOp, BeginSleep, stable
<1>6. ASSUME NEW p \in Proc, NEW b \in Block, NEW v \in Val, LogWrite(p, b, v)
      PROVE  PinInv'
  <2>1. ~Installing /\ boot = "up"
    BY <1>0, <1>6, NotInstalling DEF LogWrite, ControlInv
  <2>2. ~Installing'
    <3>1. pc' = pc \/ pc' = [pc EXCEPT ![p] = "panic"]
      BY <1>6, LogWriteCases DEF WritePanics, WriteAbsorbed, WriteAppended
    <3> QED
      BY <1>0, <2>1, <3>1 DEF Installing, TypeOK
  <2>3. UNCHANGED <<disk, boot>> /\ v # NotCached
    BY <1>6, ConstAssumption DEF LogWrite, stable
  <2>4. \A i \in 1..Len(lh) : pin[lh[i]] = 1
    BY <1>0, <2>1 DEF PinInv
  <2>5. CASE WritePanics(p)
    BY <1>1, <1>6, <2>1, <2>2, <2>5, ZenonT(20) DEF WritePanics, LogWrite, stable
  <2>6. CASE WriteAbsorbed(b, v)
    <3>1. pin[b] = 1
      BY <2>4, <2>6 DEF WriteAbsorbed, Blocks
    <3>2. \A c \in Block : buf'[c] = IF c = b THEN v ELSE buf[c]
      BY <1>0, <2>6, ZenonT(20) DEF WriteAbsorbed, TypeOK
    <3> QED
      BY <1>0, <2>1, <2>2, <2>3, <2>4, <2>6, <3>1, <3>2, SMTT(30)
         DEF PinInv, WriteAbsorbed, Blocks
  <2>7. CASE WriteAppended(b, v)
    <3>1. pin[b] = 0
      BY <1>0, <2>7 DEF WriteAppended, PinInv
    <3>2. \A c \in Block : /\ buf'[c] = IF c = b THEN v ELSE buf[c]
                           /\ pin'[c] = IF c = b THEN 1 ELSE pin[c]
      BY <1>0, <2>7, <3>1 DEF WriteAppended, TypeOK
    <3>3. \A i \in 1..Len(lh') : pin'[lh'[i]] = 1
      BY <1>0, <2>4, <2>7, <3>2 DEF WriteAppended, TypeOK, Blocks
    <3>4. \A c \in Block : c \notin Blocks(lh') => c # b /\ c \notin Blocks(lh)
      BY <1>0, <2>7, SMTT(30) DEF WriteAppended, TypeOK, Blocks
    <3> QED
      BY <1>0, <2>1, <2>2, <2>3, <3>2, <3>3, <3>4, SMTT(30) DEF PinInv
  <2> QED
    BY <1>6, <2>5, <2>6, <2>7, LogWriteCases
<1>7. ASSUME NEW p \in Proc, EndOp(p) PROVE PinInv'
  <2>1. ~Installing
    BY <1>7, NotInstalling DEF EndOp
  <2>2. ~Installing'
    <3>1. CASE EndsLast(p)
      BY <1>0, <2>1, <3>1 DEF EndsLast, Installing, TypeOK
    <3>2. CASE EndsEarly(p)
      BY <1>0, <2>1, <3>2 DEF EndsEarly, Wakeup, Installing, TypeOK
    <3> QED
      BY <1>7, <3>1, <3>2, EndOpCases
  <2> QED
    BY <1>1, <1>7, <2>1, <2>2 DEF EndOp, stable
<1>8. ASSUME NEW p \in Proc, WriteLog(p) PROVE PinInv'
  <2>1. tail < Len(lh) /\ boot = "up" /\ ~Installing
    BY <1>0, <1>8, NotInstalling DEF PhaseInv, ControlInv, WriteLog
  <2>2. buf[lh[tail + 1]] # NotCached
    BY <1>0, <2>1, EntryType DEF PinInv, TypeOK
  <2>3. buf' = buf
    BY <1>0, <1>8, <2>1, <2>2, EntryType DEF WriteLog, View, TypeOK
  <2>4. ~Installing'
    BY <1>0, <1>8, <2>1 DEF WriteLog, Installing, TypeOK
  <2> QED
    BY <1>1, <1>8, <2>1, <2>3, <2>4 DEF WriteLog
<1>9. ASSUME NEW p \in Proc, WriteHead(p) PROVE PinInv'
  <2>1. ~Installing /\ tail' = 0 /\ UNCHANGED <<disk, lh, pin, boot, buf>>
    BY <1>9, NotInstalling DEF WriteHead
  <2>2. \A i \in 1..Len(lh) : ~(i <= 0)
    BY <1>0 DEF TypeOK
  <2> QED
    BY <1>0, <2>1, <2>2 DEF PinInv, Blocks
<1>10. ASSUME NEW p \in Proc, Install(p) PROVE PinInv'
  <2>1. tail < Len(lh) /\ boot = "up" /\ Installing /\ UNCHANGED <<lh, boot>>
    BY <1>0, <1>10 DEF PhaseInv, ControlInv, Install, Installing, CopyHome
  <2>2. Installing'
    BY <1>0, <1>10 DEF Install, Installing, TypeOK
  <2> DEFINE c == lh[tail + 1]
  <2>3. c \in Block /\ logd[tail + 1] \in Val /\ tail + 1 \in 1..Len(lh)
    BY <1>0, <2>1, EntryType
  <2>4. pin[c] = 1
    BY <1>0, <2>1, <2>3 DEF PinInv, TypeOK
  <2>5. \A d \in Block :
          /\ pin'[d] = IF d = c THEN 0 ELSE pin[d]
          /\ buf'[d] = IF d = c THEN logd[tail + 1] ELSE buf[d]
          /\ disk'[d] = IF d = c THEN logd[tail + 1] ELSE disk[d]
    BY <1>0, <1>10, <2>3, <2>4 DEF Install, CopyHome, TypeOK
  <2>6. \A i \in 1..Len(lh) : /\ lh[i] \in Block
                              /\ lh[i] = c <=> i = tail + 1
    BY <1>0, <2>3, SMTT(30) DEF NoDup, TypeOK
  <2>7. \A i \in 1..Len(lh) : pin'[lh[i]] = IF i <= tail + 1 THEN 0 ELSE 1
    BY <1>0, <2>1, <2>3, <2>5, <2>6 DEF PinInv, TypeOK
  <2>8. tail' = tail + 1
    BY <1>10 DEF Install, CopyHome
  <2> HIDE DEF c
  <2> QED
    BY <1>0, <2>1, <2>2, <2>5, <2>7, <2>8, SMTT(30) DEF PinInv, Blocks
<1>11. ASSUME NEW p \in Proc, Clear(p) PROVE PinInv'
  <2>1. /\ tail = Len(lh) /\ boot = "up" /\ Installing /\ Len(lh') = 0
        /\ UNCHANGED <<disk, buf, pin, boot>>
    BY <1>0, <1>11 DEF PhaseInv, ControlInv, Clear, Installing, EraseLog
  <2>2. \A b \in Block : pin[b] = 0
    BY <1>0, <2>1 DEF PinInv, Blocks, TypeOK
  <2> QED
    BY <1>0, <2>1, <2>2 DEF PinInv
<1>12. ASSUME NEW p \in Proc, CommitDone(p) PROVE PinInv'
  <2>1. ~Installing
    BY <1>12, NotInstalling DEF CommitDone
  <2>2. ~Installing'
    BY <1>0, <1>12, <2>1 DEF CommitDone, Wakeup, Installing, TypeOK
  <2> QED
    BY <1>1, <1>12, <2>1, <2>2 DEF CommitDone, stable
<1>13. ASSUME NEW b \in Block, Evict(b) \/ Load(b) PROVE PinInv'
  <2>1. pin[b] = 0
    BY <1>0, <1>13 DEF Evict, Load, PinInv
  <2>2. \A c \in Block :
          buf'[c] = buf[c] \/ (c = b /\ buf'[c] \in {NotCached, disk[c]})
    BY <1>0, <1>13, ZenonT(20) DEF Evict, Load, TypeOK
  <2>3. UNCHANGED <<disk, lh, pin, pc, tail, boot>>
    BY <1>13 DEF Evict, Load, stable
  <2> QED
    BY <1>0, <2>1, <2>2, <2>3 DEF PinInv, Installing, Blocks
<1>14. CASE Crash
  BY <1>14 DEF Crash, PinInv
<1>15. CASE UNCHANGED vars
  <2>1. UNCHANGED Installing
    BY <1>15 DEF vars, Installing
  <2> QED
    BY <1>1, <1>15, <2>1 DEF vars
<1> QED
  BY <1>2, <1>3, <1>4, <1>5, <1>6, <1>7, <1>8, <1>9, <1>10, <1>11, <1>12,
     <1>13, <1>14, <1>15 DEF Next

\* Outside commit the phases say only that the on-disk header is empty.
LEMMA PhaseIdle ==
  ASSUME boot' = "up", head' = <<>>,
         \A q \in Proc : pc'[q] \notin CommitPCs
  PROVE  PhaseInv'
  BY SMTT(30) DEF PhaseInv, CommitPCs

\* At every point where commit() or recovery can be interrupted, the log, the
\* header, the cache and the home blocks are as far along as the loop says.
LEMMA PhaseStep == LogInv /\ [Next]_vars => PhaseInv'
<1> SUFFICES ASSUME LogInv, [Next]_vars PROVE PhaseInv'
  OBVIOUS
<1>0. TypeOK /\ NoDup(lh) /\ ControlInv /\ PinInv /\ PhaseInv
  BY DEF LogInv
<1>1. CASE RecoverReadHead
  <2>1. \A q \in Proc : pc'[q] = "out"
    BY <1>0, <1>1 DEF RecoverReadHead, ControlInv
  <2>2. /\ lh' = head /\ head' = head /\ tail' = 0
        /\ boot' = IF head = <<>> THEN "clear" ELSE "install"
    BY <1>1 DEF RecoverReadHead, stable
  <2>3. head # <<>> => 0 < Len(head)
    BY <1>0 DEF TypeOK
  <2> QED
    BY <2>1, <2>2, <2>3 DEF PhaseInv
<1>2. CASE RecoverInstall
  <2>1. tail < Len(lh) /\ head = lh /\ \A q \in Proc : pc'[q] = "out"
    BY <1>0, <1>2, ZenonT(20) DEF PhaseInv, ControlInv, RecoverInstall
  <2>2. \A i \in 1..(tail + 1) : disk'[lh[i]] = logd[i]
    BY <1>0, <1>2, <2>1, EntryType DEF RecoverInstall, CopyHome, PhaseInv, NoDup, TypeOK
  <2>3. /\ UNCHANGED <<lh, head, logd>> /\ tail' = tail + 1
        /\ boot' = IF tail + 1 = Len(lh) THEN "clear" ELSE "install"
    BY <1>2 DEF RecoverInstall, CopyHome
  <2>4. tail + 1 = Len(lh) \/ tail + 1 < Len(lh)
    BY <1>0, <2>1 DEF TypeOK
  <2> QED
    BY <2>1, <2>2, <2>3, <2>4 DEF PhaseInv
<1>3. CASE RecoverClear
  <2>1. \A q \in Proc : pc'[q] = "out"
    BY <1>0, <1>3, ZenonT(20) DEF RecoverClear, ControlInv
  <2> QED
    BY <1>3, <2>1, PhaseIdle DEF RecoverClear, EraseLog, CommitPCs
<1>4. ASSUME NEW p \in Proc, BeginOp(p) \/ BeginSleep(p) PROVE PhaseInv'
  <2>1. /\ UNCHANGED <<disk, logd, head, lh, buf, tail, boot>>
        /\ boot = "up"
        /\ \A q \in Proc : pc'[q] = pc[q] \/ pc'[q] \in {"op", "sleep"}
        /\ Installing => Installing'
    BY <1>0, <1>4 DEF BeginOp, BeginSleep, AtBegin, TypeOK, stable, Installing
  <2> QED
    BY <1>0, <2>1 DEF PhaseInv
<1>5. ASSUME NEW p \in Proc, NEW b \in Block, NEW v \in Val, LogWrite(p, b, v)
      PROVE  PhaseInv'
  <2>1. ~Installing /\ boot = "up" /\ p \in Active
    BY <1>0, <1>5, NotInstalling DEF LogWrite, ControlInv, Active
  <2>2. \A q \in Proc : pc[q] \notin CommitPCs
    BY <1>0, <2>1 DEF ControlInv
  <2>3. pc' = pc \/ pc' = [pc EXCEPT ![p] = "panic"]
    BY <1>5, LogWriteCases DEF WritePanics, WriteAbsorbed, WriteAppended
  <2>4. \A q \in Proc : pc'[q] \notin CommitPCs
    BY <1>0, <2>2, <2>3, ZenonT(20) DEF TypeOK, CommitPCs
  <2>5. head' = <<>> /\ boot' = "up"
    BY <1>0, <1>5, <2>1, SMTT(30) DEF LogWrite, stable, PhaseInv
  <2> QED
    BY <2>4, <2>5, PhaseIdle
<1>6. ASSUME NEW p \in Proc, EndOp(p) PROVE PhaseInv'
  <2>1. ~Installing /\ boot = "up" /\ ~committing
    BY <1>0, <1>6, NotInstalling, EndOpCases, Zenon DEF EndOp, ControlInv
  <2>2. \A q \in Proc : pc[q] \notin CommitPCs
    BY <1>0, <2>1 DEF ControlInv
  <2>3. head' = <<>> /\ boot' = "up" /\ UNCHANGED <<logd, buf, lh>>
    BY <1>0, <1>6, <2>1, ZenonT(20) DEF EndOp, stable, PhaseInv
  <2>4. CASE EndsLast(p)
    <3>1. \A q \in Proc : pc'[q] \in CommitPCs => q = p
      BY <1>0, <2>2, <2>4 DEF EndsLast, TypeOK, CommitPCs
    <3>2. tail' = 0 /\ pc'[p] = IF lh = <<>> THEN "done" ELSE "write_log"
      BY <1>0, <2>4 DEF EndsLast, TypeOK
    <3>3. lh # <<>> => 0 < Len(lh)
      BY <1>0 DEF TypeOK
    <3> QED
      BY <2>3, <3>1, <3>2, <3>3 DEF PhaseInv, CommitPCs
  <2>5. CASE EndsEarly(p)
    <3>1. \A q \in Proc : pc'[q] \notin CommitPCs
      BY <1>0, <2>2, <2>5 DEF EndsEarly, Wakeup, TypeOK, CommitPCs
    <3> QED
      BY <2>3, <3>1, PhaseIdle
  <2> QED
    BY <1>6, <2>4, <2>5, EndOpCases
<1>7. ASSUME NEW p \in Proc, WriteLog(p) PROVE PhaseInv'
  <2>1. tail < Len(lh) /\ boot = "up" /\ ~Installing /\ pc[p] = "write_log"
    BY <1>0, <1>7, NotInstalling, SMTT(30) DEF PhaseInv, ControlInv, WriteLog
  <2>2. buf[lh[tail + 1]] # NotCached
    BY <1>0, <2>1, EntryType, SMTT(30) DEF PinInv, TypeOK
  <2>3. buf' = buf
    BY <1>0, <1>7, <2>1, <2>2, EntryType, ZenonT(20) DEF WriteLog, View, TypeOK
  <2>4. \A i \in 1..(tail + 1) : logd'[i] = buf[lh[i]]
    BY <1>0, <1>7, <2>1, <2>2, EntryType, SMTT(30) DEF WriteLog, View, PhaseInv, TypeOK
  <2>5. /\ pc'[p] = IF tail + 1 = Len(lh) THEN "write_head" ELSE "write_log"
        /\ \A q \in Proc \ {p} : pc'[q] = pc[q] /\ pc[q] \notin CommitPCs
    BY <1>0, <1>7, <2>1 DEF WriteLog, TypeOK, ControlInv, CommitPCs
  <2>6. UNCHANGED <<lh, head, boot>> /\ tail' = tail + 1 /\ head = <<>>
    BY <1>0, <1>7, <2>1 DEF WriteLog, PhaseInv
  <2>7. tail + 1 = Len(lh) \/ tail + 1 < Len(lh)
    BY <1>0, <2>1 DEF TypeOK
  <2>8. lh # <<>>
    BY <1>0, <2>1, SMTT(30) DEF TypeOK
  <2> QED
    BY <2>1, <2>3, <2>4, <2>5, <2>6, <2>7, <2>8, ZenonT(20) DEF PhaseInv, CommitPCs
<1>8. ASSUME NEW p \in Proc, WriteHead(p) PROVE PhaseInv'
  <2>1. /\ lh # <<>> /\ boot = "up"
        /\ \A i \in 1..Len(lh) : logd[i] = buf[lh[i]]
    BY <1>0, <1>8 DEF WriteHead, PhaseInv, ControlInv
  <2>2. /\ pc'[p] = "install"
        /\ \A q \in Proc \ {p} : pc'[q] = pc[q] /\ pc[q] \notin CommitPCs
    BY <1>0, <1>8 DEF WriteHead, TypeOK, ControlInv, CommitPCs
  <2>3. head' = lh /\ tail' = 0 /\ UNCHANGED <<logd, lh, buf, boot>>
    BY <1>8 DEF WriteHead
  <2>4. 0 < Len(lh)
    BY <1>0, <2>1 DEF TypeOK
  <2>5. Installing'
    BY <2>2, ZenonT(20) DEF Installing
  <2> QED
    BY <2>1, <2>2, <2>3, <2>4, <2>5, SMTT(30) DEF PhaseInv, CommitPCs
<1>9. ASSUME NEW p \in Proc, Install(p) PROVE PhaseInv'
  <2>1. tail < Len(lh) /\ head = lh /\ boot = "up" /\ pc[p] = "install"
    BY <1>0, <1>9, ZenonT(20) DEF PhaseInv, ControlInv, Install
  <2>2. \A i \in 1..(tail + 1) : disk'[lh[i]] = logd[i]
    BY <1>0, <1>9, <2>1, EntryType, SMTT(30) DEF Install, CopyHome, PhaseInv,
        NoDup, TypeOK
  <2>3. \A i \in (tail + 2)..Len(lh) : buf'[lh[i]] = logd[i]
    BY <1>0, <1>9, <2>1, EntryType DEF Install, CopyHome, PhaseInv, NoDup, TypeOK
  <2>4. /\ pc'[p] = IF tail + 1 = Len(lh) THEN "clear" ELSE "install"
        /\ \A q \in Proc \ {p} : pc'[q] = pc[q] /\ pc[q] \notin CommitPCs
    BY <1>0, <1>9 DEF Install, TypeOK, ControlInv, CommitPCs
  <2>5. UNCHANGED <<lh, head, logd, boot>> /\ tail' = tail + 1
    BY <1>9 DEF Install, CopyHome
  <2>6. tail + 1 = Len(lh) \/ tail + 1 < Len(lh)
    BY <1>0, <2>1 DEF TypeOK
  <2>7. Installing'
    BY <2>4 DEF Installing
  <2>8. (tail + 1) + 1 = tail + 2
    BY <1>0 DEF TypeOK
  <2> QED
    BY <2>1, <2>2, <2>3, <2>4, <2>5, <2>6, <2>7, <2>8, ZenonT(20) DEF PhaseInv, CommitPCs
<1>10. ASSUME NEW p \in Proc, Clear(p) PROVE PhaseInv'
  <2>1. /\ pc'[p] = "done"
        /\ \A q \in Proc \ {p} : pc'[q] = pc[q] /\ pc[q] \notin CommitPCs
    BY <1>0, <1>10 DEF Clear, TypeOK, ControlInv, CommitPCs
  <2>2. lh' = <<>> /\ head' = <<>> /\ boot' = "up"
    BY <1>0, <1>10, SMTT(30) DEF Clear, EraseLog, ControlInv
  <2> QED
    BY <2>1, <2>2 DEF PhaseInv, CommitPCs
<1>11. ASSUME NEW p \in Proc, CommitDone(p) PROVE PhaseInv'
  <2>1. ~Installing /\ boot = "up" /\ UNCHANGED <<head, boot>>
    BY <1>0, <1>11, NotInstalling DEF CommitDone, ControlInv, stable
  <2>2. \A q \in Proc : pc'[q] \notin CommitPCs
    BY <1>0, <1>11, ZenonT(20) DEF CommitDone, Wakeup, TypeOK, ControlInv, CommitPCs
  <2> QED
    BY <1>0, <2>1, <2>2, PhaseIdle, ZenonT(40) DEF PhaseInv
<1>12. ASSUME NEW b \in Block, Evict(b) \/ Load(b) PROVE PhaseInv'
  <2>1. UNCHANGED <<disk, logd, head, lh, pc, tail, boot>> /\ pin[b] = 0
    BY <1>0, <1>12, Zenon DEF Evict, Load, stable, PinInv
  <2>2. \A c \in Block \ {b} : buf'[c] = buf[c]
    BY <1>0, <1>12 DEF Evict, Load, TypeOK
  <2>3. UNCHANGED Installing
    BY <2>1, ZenonT(20) DEF Installing
  <2>4. \A i \in 1..Len(lh) :
          boot = "up" /\ ~(Installing /\ i <= tail) => buf'[lh[i]] = buf[lh[i]]
    BY <1>0, <2>1, <2>2 DEF PinInv, TypeOK
  <2>5. \A p \in Proc :
          /\ pc[p] \in {"write_log", "write_head"} => ~Installing /\ boot = "up"
          /\ pc[p] = "install" => boot = "up"
    BY <1>0, NotInstalling DEF ControlInv
  <2> QED
    BY <1>0, <2>1, <2>3, <2>4, <2>5, SMTT(30) DEF PhaseInv, TypeOK
<1>13. CASE Crash
  BY <1>13, ZenonT(20) DEF Crash, PhaseInv
<1>14. CASE UNCHANGED vars
  BY <1>0, <1>14 DEF vars, PhaseInv, Installing
<1> QED
  BY <1>1, <1>2, <1>3, <1>4, <1>5, <1>6, <1>7, <1>8, <1>9, <1>10, <1>11,
     <1>12, <1>13, <1>14 DEF Next

\* LogInv holds in every state the log can reach.
THEOREM LogInvariant == Spec => []LogInv
<1>1. Init => LogInv
  BY InitInv
<1>2. LogInv /\ [Next]_vars => LogInv'
  BY TypeStep, NoDupStep, ControlStep, PinStep, PhaseStep DEF LogInv
<1> QED
  BY <1>1, <1>2, PTL DEF Spec

\* The type invariant alone.
THEOREM TypeCorrect == Spec => []TypeOK
  BY LogInvariant, PTL DEF LogInv

\* bpin() and bunpin() balance, whatever is running.
THEOREM PinsBalance == Spec => []PinBalance
<1>1. LogInv => PinBalance
  <2> SUFFICES ASSUME LogInv, boot = "up", NEW b \in Block
               PROVE  pin[b] = IF b \in Blocks(lh) \ Installed THEN 1 ELSE 0
    BY DEF PinBalance
  <2>0. TypeOK /\ NoDup(lh) /\ PinInv /\ PhaseInv
    BY DEF LogInv
  <2>1. CASE b \notin Blocks(lh)
    BY <2>0, <2>1 DEF PinInv
  <2>2. ASSUME NEW i \in 1..Len(lh), b = lh[i]
        PROVE  pin[b] = IF b \in Blocks(lh) \ Installed THEN 1 ELSE 0
    <3>1. b \in Blocks(lh)
      BY <2>2 DEF Blocks
    <3>2. Installing => tail <= Len(lh)
      BY <2>0 DEF PhaseInv, Installing, TypeOK
    <3>3. b \in Installed <=> Installing /\ i <= tail
      <4>1. CASE ~Installing
        BY <4>1 DEF Installed
      <4>2. CASE Installing
        <5>1. b \in Installed <=> \E j \in 1..tail : lh[j] = b
          BY <4>2 DEF Installed
        <5>2. \A j \in 1..tail : j \in 1..Len(lh)
          BY <2>0, <3>2, <4>2 DEF TypeOK
        <5>3. \A j \in 1..tail : lh[j] = b => j = i
          BY <2>0, <2>2, <5>2 DEF NoDup
        <5>4. i \in 1..tail <=> i <= tail
          BY <2>0, <2>2 DEF TypeOK
        <5> QED
          BY <2>2, <4>2, <5>1, <5>3, <5>4
      <4> QED
        BY <4>1, <4>2, ZenonT(20)
    <3> QED
      BY <2>0, <2>2, <3>1, <3>3 DEF PinInv
  <2> QED
    BY <2>1, <2>2 DEF Blocks
<1> QED
  BY <1>1, LogInvariant, PTL

----------------------------------------------------------------------------
(* Log implements AtomicDisk *)

\* An entry of the header stands for its log block.
LEMMA OverlayAt ==
  ASSUME NEW d, NEW h \in Seq(Block), NEW l, NoDup(h), NEW i \in 1..Len(h)
  PROVE  Overlay(d, h, l)[h[i]] = l[i]
<1>1. h[i] \in Block /\ h[i] \in Blocks(h)
  BY DEF Blocks
<1>2. (CHOOSE j \in 1..Len(h) : h[j] = h[i]) = i
  BY DEF NoDup
<1> QED
  BY <1>1, <1>2, ZenonT(40) DEF Overlay

\* A block without an entry stands for itself.
LEMMA OverlayElse ==
  ASSUME NEW d, NEW h, NEW l, NEW b \in Block, b \notin Blocks(h)
  PROVE  Overlay(d, h, l)[b] = d[b]
  BY DEF Overlay

\* With an empty header a crash leaves the home blocks.
LEMMA OverlayEmpty ==
  ASSUME NEW d \in [Block -> Val], NEW l
  PROVE  Overlay(d, <<>>, l) = d
<1>1. Blocks(<<>>) = {}
  BY DEF Blocks
<1> QED
  BY <1>1 DEF Overlay

\* Writing home what the log holds changes nothing recovery would restore.
LEMMA OverlayInstalled ==
  ASSUME NEW d \in [Block -> Val], NEW h \in Seq(Block), NEW l, NoDup(h),
         NEW d2 \in [Block -> Val],
         \A b \in Block : d2[b] = d[b] \/ b \in Blocks(h)
  PROVE  Overlay(d2, h, l) = Overlay(d, h, l)
  BY DEF Overlay

\* Once every home block is written the header is no longer needed.
LEMMA OverlayDone ==
  ASSUME NEW d \in [Block -> Val], NEW h \in Seq(Block), NEW l, NoDup(h),
         \A i \in 1..Len(h) : d[h[i]] = l[i]
  PROVE  Overlay(d, h, l) = d
<1>1. \A b \in Block : Overlay(d, h, l)[b] = d[b]
  <2> SUFFICES ASSUME NEW b \in Block PROVE Overlay(d, h, l)[b] = d[b]
    OBVIOUS
  <2>1. CASE b \in Blocks(h)
    <3>1. PICK i \in 1..Len(h) : h[i] = b
      BY <2>1 DEF Blocks
    <3>2. Overlay(d, h, l)[h[i]] = l[i]
      BY OverlayAt
    <3> QED
      BY <3>1, <3>2
  <2> QED
    BY <2>1, OverlayElse
<1>2. DOMAIN Overlay(d, h, l) = Block /\ Overlay(d, h, l) = [b \in Block |-> Overlay(d, h, l)[b]]
  BY DEF Overlay
<1> QED
  BY <1>1, <1>2

\* An unpinned block reads as the disk holds it.
LEMMA ViewClean ==
  ASSUME LogInv, NEW b \in Block, pin[b] = 0
  PROVE  View(b) = disk[b]
  BY DEF LogInv, PinInv, View

\* Every step of the log is a step of the atomic disk or leaves it alone.
LEMMA StepImplements ==
  LogInv /\ LogInv' /\ [Next]_vars => [AD!Next]_(AD!vars)
<1> SUFFICES ASSUME LogInv, LogInv', [Next]_vars
             PROVE  AD!Next \/ UNCHANGED <<Durable, Current, Active>>
  BY DEF AD!vars
<1>0. /\ TypeOK /\ NoDup(lh) /\ NoDup(head) /\ ControlInv /\ PinInv /\ PhaseInv
      /\ TypeOK' /\ PinInv'
  BY DEF LogInv
<1>a. /\ disk \in [Block -> Val] /\ lh \in Seq(Block) /\ head \in Seq(Block)
      /\ NoDup(lh) /\ NoDup(head)
  BY <1>0 DEF TypeOK
<1>1. ASSUME UNCHANGED <<disk, logd, head>> PROVE UNCHANGED Durable
  BY <1>1 DEF Durable
<1>2. ASSUME UNCHANGED <<disk, logd, head, boot, buf, Active>>
      PROVE  UNCHANGED <<Durable, Current, Active>>
  BY <1>1, <1>2 DEF Current, View
<1>3. CASE RecoverReadHead
  <2>1. UNCHANGED <<disk, logd, head, pc>> /\ boot # "up" /\ boot' # "up"
    BY <1>3 DEF RecoverReadHead, stable
  <2> QED
    BY <1>1, <2>1 DEF Current, Active
<1>4. CASE RecoverInstall
  <2>1. /\ UNCHANGED <<logd, head, pc>> /\ boot # "up" /\ boot' # "up"
        /\ head = lh /\ tail < Len(lh)
    BY <1>0, <1>4, SMTT(30) DEF RecoverInstall, CopyHome, PhaseInv
  <2>2. \A b \in Block : disk'[b] = disk[b] \/ b \in Blocks(head)
    BY <1>0, <1>4, <2>1, EntryType, ZenonT(40) DEF RecoverInstall, CopyHome,
        Blocks, TypeOK
  <2>3. Durable' = Durable
    BY <1>0, <2>1, <2>2, OverlayInstalled, ZenonT(40) DEF Durable, TypeOK
  <2> QED
    BY <2>1, <2>3 DEF Current, Active
<1>5. CASE RecoverClear
  <2>1. /\ UNCHANGED <<disk, logd, pc>> /\ head' = <<>> /\ boot # "up"
        /\ boot' = "up"
    BY <1>5 DEF RecoverClear, EraseLog
  <2>2. Durable = disk
    <3>1. head = lh /\ \A i \in 1..Len(lh) : disk[lh[i]] = logd[i]
      BY <1>0, <1>5, Zenon DEF PhaseInv, RecoverClear
    <3> QED
      BY <1>a, <3>1, OverlayDone DEF Durable
  <2>3. Durable' = disk
    BY <1>0, <2>1, OverlayEmpty, Zenon DEF Durable, TypeOK
  <2>4. pin' = pin /\ buf' = buf /\ \A b \in Block : pin[b] = 0
    BY <1>0, <1>5, <2>1, Zenon DEF RecoverClear, EraseLog, PinInv
  <2>5. Current' = disk
    <3>1. \A b \in Block : View(b)' = disk[b]
      BY <1>0, <2>1, <2>4, ZenonT(20) DEF View, PinInv
    <3>2. Current' = [b \in Block |-> disk[b]]
      BY <2>1, <3>1 DEF Current
    <3> QED
      BY <1>0, <3>2, ZenonT(20) DEF TypeOK
  <2> QED
    BY <2>1, <2>2, <2>3, <2>5 DEF Current, Active
<1>6. ASSUME NEW p \in Proc, BeginOp(p) PROVE AD!Next
  <2>1. p \notin Active /\ Active' = Active \cup {p}
    BY <1>0, <1>6 DEF BeginOp, AtBegin, Active, TypeOK
  <2>2. UNCHANGED <<disk, logd, head, boot, buf>>
    BY <1>6 DEF BeginOp, stable
  <2>3. UNCHANGED <<Durable, Current>>
    BY <1>1, <2>2 DEF Current, View
  <2>4. AD!Begin(p)
    BY <2>1, <2>3 DEF AD!Begin
  <2> QED
    BY <2>4, ZenonT(20) DEF AD!Next
<1>7. ASSUME NEW p \in Proc, BeginSleep(p)
      PROVE  UNCHANGED <<Durable, Current, Active>>
  <2>1. UNCHANGED Active
    BY <1>0, <1>7 DEF BeginSleep, AtBegin, Active, TypeOK
  <2> QED
    BY <1>2, <1>7, <2>1, ZenonT(20) DEF BeginSleep, stable
<1>8. ASSUME NEW p \in Proc, NEW b \in Block, NEW v \in Val, LogWrite(p, b, v)
      PROVE  AD!Next \/ UNCHANGED <<Durable, Current, Active>>
  <2>1. UNCHANGED <<disk, logd, head, boot>> /\ boot = "up" /\ p \in Active
    BY <1>0, <1>8 DEF LogWrite, stable, ControlInv, Active
  <2>2. CASE WritePanics(p)
    <3>1. UNCHANGED Active
      BY <1>0, <1>8, <2>2, Zenon DEF WritePanics, LogWrite, Active, TypeOK
    <3> QED
      BY <1>2, <2>1, <2>2, <3>1, SMTT(30) DEF WritePanics
  <2>3. CASE WriteAbsorbed(b, v) \/ WriteAppended(b, v)
    <3>1. pc' = pc /\ buf' = [buf EXCEPT ![b] = v] /\ v # NotCached
      BY <2>3, ConstAssumption DEF WriteAbsorbed, WriteAppended
    <3>2. UNCHANGED Active
      BY <3>1 DEF Active
    <3>3. Current' = [Current EXCEPT ![b] = v]
      BY <1>0, <2>1, <3>1, Zenon DEF Current, View, TypeOK
    <3>4. AD!Write(p, b, v)
      BY <1>1, <2>1, <3>2, <3>3 DEF AD!Write
    <3> QED
      BY <3>4 DEF AD!Next
  <2> QED
    BY <1>8, <2>2, <2>3, LogWriteCases
<1>9. ASSUME NEW p \in Proc, EndOp(p) PROVE AD!Next
  <2>1. UNCHANGED <<disk, logd, head, boot, buf>> /\ p \in Active
    BY <1>9, EndOpCases, ZenonT(40) DEF EndOp, stable
  <2>2. UNCHANGED <<Durable, Current>>
    BY <1>1, <2>1 DEF Current, View
  <2>3. Active' = Active \ {p}
    <3>1. CASE EndsLast(p)
      BY <1>0, <3>1 DEF EndsLast, Active, TypeOK
    <3>2. CASE EndsEarly(p)
      BY <1>0, <3>2 DEF EndsEarly, Wakeup, Active, TypeOK
    <3> QED
      BY <1>9, <3>1, <3>2, EndOpCases, ZenonT(20)
  <2>4. AD!End(p)
    BY <2>1, <2>2, <2>3 DEF AD!End
  <2> QED
    BY <2>4 DEF AD!Next
<1>10. ASSUME NEW p \in Proc, WriteLog(p)
       PROVE  UNCHANGED <<Durable, Current, Active>>
  <2>1. tail < Len(lh) /\ boot = "up" /\ ~Installing /\ head = <<>>
    BY <1>0, <1>10, NotInstalling, ZenonT(20) DEF PhaseInv, ControlInv, WriteLog
  <2>2. buf[lh[tail + 1]] # NotCached
    BY <1>0, <2>1, EntryType, SMTT(30) DEF PinInv, TypeOK
  <2>3. buf' = buf /\ UNCHANGED <<disk, head, boot>>
    BY <1>0, <1>10, <2>1, <2>2, EntryType, ZenonT(20) DEF WriteLog, View, TypeOK
  <2>4. Active' = Active
    BY <1>0, <1>10 DEF WriteLog, Active, TypeOK
  <2>5. Durable = disk /\ Durable' = disk
    BY <1>0, <2>1, <2>3, OverlayEmpty, Zenon DEF Durable, TypeOK
  <2> QED
    BY <2>1, <2>3, <2>4, <2>5, ZenonT(20) DEF Current, View
<1>11. ASSUME NEW p \in Proc, WriteHead(p) PROVE AD!Next
  <2>1. /\ boot = "up" /\ ~Installing
        /\ \A i \in 1..Len(lh) : logd[i] = buf[lh[i]]
    BY <1>0, <1>11, NotInstalling DEF PhaseInv, ControlInv, WriteHead
  <2>2. UNCHANGED <<disk, logd, boot, buf>> /\ head' = lh
    BY <1>11, ZenonT(20) DEF WriteHead
  <2>3. Active = {} /\ Active' = {}
    BY <1>0, <1>11, ZenonT(20) DEF WriteHead, Active, TypeOK, ControlInv, CommitPCs
  <2>4. Current' = Current
    BY <2>1, <2>2, ZenonT(20) DEF Current, View
  <2>5. \A b \in Block : Overlay(disk, lh, logd)[b] = View(b)
    <3> SUFFICES ASSUME NEW b \in Block
                 PROVE  Overlay(disk, lh, logd)[b] = View(b)
      BY ZenonT(20)
    <3>1. ASSUME NEW i \in 1..Len(lh), lh[i] = b
          PROVE  Overlay(disk, lh, logd)[b] = View(b)
      <4>1. Overlay(disk, lh, logd)[lh[i]] = logd[i]
        BY <1>a, OverlayAt, SMTT(30)
      <4>2. pin[b] = 1
        BY <1>0, <2>1, <3>1, ZenonT(20) DEF PinInv
      <4>3. buf[b] # NotCached
        <5>1. pin[b] # 0
          BY <4>2, SMTT(30)
        <5> QED
          BY <1>0, <5>1, ZenonT(20) DEF PinInv
      <4>4. View(b) = buf[b]
        BY <4>3, ZenonT(20) DEF View
      <4> QED
        BY <2>1, <3>1, <4>1, <4>4, ZenonT(20)
    <3>2. CASE b \notin Blocks(lh)
      <4>1. Overlay(disk, lh, logd)[b] = disk[b]
        BY <3>2, OverlayElse, ZenonT(20)
      <4>2. pin[b] = 0
        BY <1>0, <3>2, ZenonT(20) DEF PinInv
      <4>3. View(b) = disk[b]
        BY <4>2, ViewClean, ZenonT(20)
      <4> QED
        BY <4>1, <4>3, ZenonT(20)
    <3> QED
      BY <3>1, <3>2 DEF Blocks
  <2>6. Durable' = Current
    <3>1. Durable' = Overlay(disk, lh, logd)
      BY <2>2 DEF Durable
    <3>2. Current = [b \in Block |-> View(b)]
      BY <2>1 DEF Current
    <3> QED
      BY <2>5, <3>1, <3>2, Zenon DEF Overlay
  <2>7. AD!Commit
    BY <2>3, <2>4, <2>6, ZenonT(20) DEF AD!Commit
  <2> QED
    BY <2>7, ZenonT(20) DEF AD!Next
<1>12. ASSUME NEW p \in Proc, Install(p)
       PROVE  UNCHANGED <<Durable, Current, Active>>
  <2>1. /\ tail < Len(lh) /\ boot = "up" /\ head = lh
        /\ \A i \in (tail + 1)..Len(lh) : buf[lh[i]] = logd[i]
        /\ UNCHANGED <<logd, head, boot>>
    BY <1>0, <1>12, ZenonT(40) DEF PhaseInv, ControlInv, Install, CopyHome
  <2>2. \A b \in Block : disk'[b] = disk[b] \/ b \in Blocks(head)
    BY <1>0, <1>12, <2>1, EntryType, ZenonT(40) DEF Install, CopyHome, Blocks, TypeOK
  <2>3. Durable' = Durable
    BY <1>0, <2>1, <2>2, OverlayInstalled, ZenonT(40) DEF Durable, TypeOK
  <2>4. lh[tail + 1] \in Block /\ buf[lh[tail + 1]] = logd[tail + 1]
    <3>1. tail + 1 \in (tail + 1)..Len(lh)
      BY <1>0, <2>1, SMTT(30) DEF TypeOK
    <3> QED
      BY <1>0, <2>1, <3>1, EntryType, Zenon
  <2>5. logd[tail + 1] \in Val /\ NotCached \notin Val
    BY <1>0, <2>1, EntryType, ConstAssumption, ZenonT(20)
  <2>6. \A b \in Block : View(b)' = View(b)
    BY <1>0, <1>12, <2>4, <2>5, ZenonT(20) DEF Install, CopyHome, View, TypeOK
  <2>7. Active' = Active
    BY <1>0, <1>12 DEF Install, Active, TypeOK
  <2> QED
    BY <2>1, <2>3, <2>6, <2>7, SMTT(30) DEF Current
<1>13. ASSUME NEW p \in Proc, Clear(p)
       PROVE  UNCHANGED <<Durable, Current, Active>>
  <2>1. /\ boot = "up" /\ head = lh /\ UNCHANGED <<disk, buf, boot>> /\ head' = <<>>
        /\ \A i \in 1..Len(lh) : disk[lh[i]] = logd[i]
    BY <1>0, <1>13, ZenonT(20) DEF PhaseInv, ControlInv, Clear, EraseLog
  <2>2. Durable = disk
    BY <1>a, <2>1, OverlayDone, SMTT(30) DEF Durable
  <2>3. Durable' = disk
    BY <1>0, <2>1, OverlayEmpty, Zenon DEF Durable, TypeOK
  <2>4. Active' = Active
    BY <1>0, <1>13 DEF Clear, Active, TypeOK
  <2> QED
    BY <2>1, <2>2, <2>3, <2>4, ZenonT(20) DEF Current, View
<1>14. ASSUME NEW p \in Proc, CommitDone(p)
       PROVE  UNCHANGED <<Durable, Current, Active>>
  <2>1. UNCHANGED Active
    BY <1>0, <1>14 DEF CommitDone, Wakeup, Active, TypeOK
  <2> QED
    BY <1>2, <1>14, <2>1, ZenonT(20) DEF CommitDone, stable
<1>15. ASSUME NEW b \in Block, Evict(b) \/ Load(b)
       PROVE  UNCHANGED <<Durable, Current, Active>>
  <2>1. UNCHANGED <<disk, logd, head, pc, boot, pin>> /\ pin[b] = 0
    BY <1>0, <1>15, ZenonT(40) DEF Evict, Load, stable, PinInv
  <2>2. \A c \in Block : View(c)' = View(c)
    <3>1. View(b) = disk[b]
      BY <2>1, ViewClean, SMTT(30)
    <3>2. View(b)' = disk[b]
      BY <1>0, <2>1, ZenonT(40) DEF PinInv, View
    <3>3. \A c \in Block \ {b} : buf'[c] = buf[c]
      BY <1>0, <1>15 DEF Evict, Load, TypeOK
    <3> QED
      BY <2>1, <3>1, <3>2, <3>3 DEF View
  <2> QED
    BY <1>1, <2>1, <2>2, SMTT(30) DEF Current, Active
<1>16. CASE Crash
  <2>1. UNCHANGED <<disk, logd, head>> /\ boot' # "up"
    BY <1>16 DEF Crash, stable
  <2>2. Durable' = Durable /\ Current' = Durable /\ Active' = {}
    BY <1>1, <1>16, <2>1 DEF Current, Active, Crash
  <2>3. AD!Crash
    BY <2>2 DEF AD!Crash
  <2> QED
    BY <2>3 DEF AD!Next
<1>17. CASE UNCHANGED vars
  BY <1>2, <1>17 DEF vars, Active
<1> QED
  BY <1>3, <1>4, <1>5, <1>6, <1>7, <1>8, <1>9, <1>10, <1>11, <1>12, <1>13,
     <1>14, <1>15, <1>16, <1>17 DEF Next

\* log.c implements an atomic disk.
THEOREM Refinement == Spec => ImplementsAtomicDisk
<1>1. Init => AD!Init
  <2> SUFFICES ASSUME Init PROVE AD!Init
    OBVIOUS
  <2>1. disk = [b \in Block |-> InitVal] /\ head = <<>> /\ boot = "read_head"
    BY DEF Init
  <2>2. disk \in [Block -> Val]
    BY <2>1, ConstAssumption
  <2>3. Durable = disk /\ Current = Durable
    BY <2>1, <2>2, OverlayEmpty DEF Durable, Current
  <2>4. Active = {}
    BY DEF Init, Active
  <2> QED
    BY <2>1, <2>3, <2>4 DEF AD!Init
<1> QED
  BY <1>1, StepImplements, LogInvariant, PTL DEF Spec, ImplementsAtomicDisk, AD!Spec

----------------------------------------------------------------------------
(* Safety that follows from LogInv, and sleeping in begin_op *)

\* Finished calls are durable when nothing runs.
THEOREM QuietIsDurable == Spec => []DurableWhenQuiet
<1>1. LogInv => DurableWhenQuiet
  <2> SUFFICES ASSUME LogInv, boot = "up", outstanding = 0, ~committing
               PROVE  Current = Durable
    BY DEF DurableWhenQuiet
  <2>0. TypeOK /\ ControlInv /\ PinInv /\ PhaseInv
    BY SMTT(30), ZenonT(20) DEF LogInv
  <2>1. lh = <<>> /\ head = <<>>
    BY <2>0 DEF ControlInv, PhaseInv, Installing, CommitPCs
  <2>2. Blocks(lh) = {}
    BY <2>1, SMTT(30) DEF Blocks
  <2>3. \A b \in Block : View(b) = disk[b]
    BY <2>0, <2>2, ViewClean DEF PinInv
  <2>4. disk \in [Block -> Val]
    BY <2>0 DEF TypeOK
  <2>5. Durable = disk
    BY <2>1, <2>4, OverlayEmpty DEF Durable
  <2> QED
    BY <2>3, <2>4, <2>5 DEF Current
<1> QED
  BY <1>1, LogInvariant, PTL

\* Whoever sleeps in begin_op() still has a reason to.
THEOREM SleepersHaveReason == Spec => []SleeperMustWait
<1> DEFINE Sleeping == \E p \in Proc : pc[p] = "sleep"
<1>1. Init => SleeperMustWait
  BY DEF Init, SleeperMustWait
<1>2. LogInv /\ SleeperMustWait /\ [Next]_vars => SleeperMustWait'
  <2> SUFFICES ASSUME LogInv, SleeperMustWait, [Next]_vars
               PROVE  SleeperMustWait'
    OBVIOUS
  <2>0. TypeOK /\ ControlInv /\ PhaseInv
    BY DEF LogInv
  <2>a. LOGSIZE \in Nat /\ MAXOPBLOCKS \in Nat /\ MAXOPBLOCKS < LOGSIZE
    BY ConstAssumption
  <2>1. ASSUME ~Sleeping' PROVE SleeperMustWait'
    BY <2>1 DEF SleeperMustWait
  <2>2. ASSUME committing' PROVE SleeperMustWait'
    BY <2>2 DEF SleeperMustWait, MustWait
  <2>3. ASSUME Sleeping' => Sleeping, UNCHANGED <<lh, outstanding, committing>>
        PROVE  SleeperMustWait'
    BY <2>3 DEF SleeperMustWait, MustWait, NoSpace
  <2>4. CASE RecoverReadHead \/ RecoverInstall \/ RecoverClear
    <3>1. \A p \in Proc : pc'[p] = "out"
      BY <2>0, <2>4 DEF RecoverReadHead, RecoverInstall, RecoverClear, ControlInv
    <3> QED
      BY <2>1, <3>1
  <2>5. ASSUME NEW p \in Proc, BeginOp(p) PROVE SleeperMustWait'
    <3>1. ~Sleeping
      BY <2>5 DEF BeginOp, SleeperMustWait
    <3>2. ~Sleeping'
      BY <2>0, <2>5, <3>1 DEF BeginOp, TypeOK
    <3> QED
      BY <2>1, <3>2
  <2>6. ASSUME NEW p \in Proc, BeginSleep(p) PROVE SleeperMustWait'
    <3>1. MustWait' /\ UNCHANGED <<lh, outstanding, committing>> /\ boot = "up"
      BY <2>6 DEF BeginSleep, MustWait, NoSpace, AtBegin
    <3>2. committing \/ outstanding > 0
      <4>1. ASSUME ~committing, outstanding = 0 PROVE FALSE
        <5>1. Len(lh) = 0
          BY <2>0, <3>1, <4>1 DEF ControlInv
        <5>2. ~NoSpace
          BY <2>a, <4>1, <5>1, SMTT(30) DEF NoSpace
        <5> QED
          BY <2>6, <4>1, <5>2 DEF BeginSleep, MustWait
      <4> QED
        BY <2>0, <4>1 DEF TypeOK
    <3> QED
      BY <3>1, <3>2 DEF SleeperMustWait
  <2>7. ASSUME NEW p \in Proc, NEW b \in Block, NEW v \in Val, LogWrite(p, b, v)
        PROVE  SleeperMustWait'
    <3>1. UNCHANGED <<outstanding, committing>>
      BY <2>7 DEF LogWrite
    <3>2. Sleeping' => Sleeping
      <4>1. pc' = pc \/ pc' = [pc EXCEPT ![p] = "panic"]
        BY <2>7, LogWriteCases DEF WritePanics, WriteAbsorbed, WriteAppended
      <4> QED
        BY <2>0, <4>1 DEF TypeOK
    <3>3. lh' = lh \/ lh' = Append(lh, b)
      BY <2>7, LogWriteCases DEF WritePanics, WriteAbsorbed, WriteAppended
    <3>4. Len(lh') >= Len(lh) /\ Len(lh') \in Nat
      BY <2>0, <3>3 DEF TypeOK
    <3>5. NoSpace => NoSpace'
      <4>1. (outstanding + 1) * MAXOPBLOCKS \in Nat
        BY <2>0, <2>a DEF TypeOK
      <4> QED
        BY <2>0, <2>a, <3>1, <3>4, <4>1 DEF NoSpace, TypeOK
    <3> QED
      BY <3>1, <3>2, <3>5 DEF SleeperMustWait, MustWait
  <2>8. ASSUME NEW p \in Proc, EndOp(p) PROVE SleeperMustWait'
    <3>1. CASE EndsLast(p)
      BY <2>2, <3>1 DEF EndsLast
    <3>2. CASE EndsEarly(p)
      <4>1. ~Sleeping'
        BY <2>0, <3>2 DEF EndsEarly, Wakeup, TypeOK
      <4> QED
        BY <2>1, <4>1
    <3> QED
      BY <2>8, <3>1, <3>2, EndOpCases, SMTT(30)
  <2>9. ASSUME NEW p \in Proc, WriteLog(p) \/ WriteHead(p) \/ Install(p) \/ Clear(p)
        PROVE  SleeperMustWait'
    <3>1. committing
      BY <2>0, <2>9, SMTT(30) DEF WriteLog, WriteHead, Install, Clear,
          ControlInv, CommitPCs
    <3>2. committing'
      BY <2>9, <3>1, Zenon DEF WriteLog, WriteHead, Install, Clear, CopyHome
    <3> QED
      BY <2>2, <3>2, ZenonT(20)
  <2>10. ASSUME NEW p \in Proc, CommitDone(p) PROVE SleeperMustWait'
    <3>1. ~Sleeping'
      BY <2>0, <2>10, ZenonT(20) DEF CommitDone, Wakeup, TypeOK
    <3> QED
      BY <2>1, <3>1
  <2>11. ASSUME NEW b \in Block, Evict(b) \/ Load(b) PROVE SleeperMustWait'
    BY <2>3, <2>11, ZenonT(20) DEF Evict, Load
  <2>12. CASE Crash
    BY <2>1, <2>12 DEF Crash
  <2>13. CASE UNCHANGED vars
    BY <2>3, <2>13 DEF vars
  <2> QED
    BY <2>4, <2>5, <2>6, <2>7, <2>8, <2>9, <2>10, <2>11, <2>12, <2>13 DEF Next
<1> QED
  BY <1>1, <1>2, LogInvariant, PTL DEF Spec

----------------------------------------------------------------------------
(* The reservation of begin_op suffices for calls that stay below it *)

\* One pair for every distinct block a running call has logged.
UsedBy(w) == {u \in Proc \X (1..OpBlocks) : u[2] <= Cardinality(w[u[1]])}
Used == UsedBy(wrote)

\* What is in the header plus what the running calls may still add fits.
SpaceInv ==
  /\ NoPanic
  /\ \A p \in Proc : /\ IsFiniteSet(wrote[p])
                     /\ Cardinality(wrote[p]) <= OpBlocks
                     /\ wrote[p] \subseteq Blocks(lh)
                     /\ pc[p] # "op" => wrote[p] = {}
  /\ boot = "up" =>
       /\ Len(lh) + outstanding * MAXOPBLOCKS <= LOGSIZE + Cardinality(Used)
       /\ outstanding = 1 =>
            Len(lh) + MAXOPBLOCKS <= LOGSIZE - 1 + Cardinality(Used)

\* The pairs (call, block it has logged) can be counted, for any value of wrote.
LEMMA UsedByFinite ==
  ASSUME NEW w
  PROVE  IsFiniteSet(UsedBy(w)) /\ Cardinality(UsedBy(w)) \in Nat
<1>1. IsFiniteSet(1..OpBlocks)
  BY ConstAssumption, FS_Interval
<1>2. IsFiniteSet(Proc \X (1..OpBlocks))
  BY <1>1, ConstAssumption, FS_Product
<1>3. UsedBy(w) \in SUBSET (Proc \X (1..OpBlocks))
  BY DEF UsedBy
<1>4. IsFiniteSet(UsedBy(w))
  BY <1>2, <1>3, FS_Subset
<1> QED
  BY <1>4, FS_CardinalityType

\* So can they before and after a step.
LEMMA UsedFinite ==
  /\ IsFiniteSet(Used) /\ Cardinality(Used) \in Nat
  /\ IsFiniteSet(Used') /\ Cardinality(Used') \in Nat
  BY UsedByFinite DEF Used

\* A call that has logged nothing is within its bound.
LEMMA EmptyWrote == IsFiniteSet({}) /\ Cardinality({}) <= OpBlocks
<1>1. IsFiniteSet({}) /\ Cardinality({}) = 0
  BY FS_EmptySet
<1>2. OpBlocks \in Nat
  BY ConstAssumption
<1> QED
  BY <1>1, <1>2

\* Every running call has used at most OpBlocks of its reservation.
LEMMA UsedBound ==
  ASSUME LogInv, SpaceInv
  PROVE  Cardinality(Used) <= outstanding * OpBlocks
<1>1. IsFiniteSet(1..OpBlocks) /\ Cardinality(1..OpBlocks) = OpBlocks
  BY ConstAssumption, FS_Interval
<1>2. IsFiniteSet(Active) /\ Cardinality(Active) = outstanding
  BY ActiveCount DEF LogInv, ControlInv
<1>3. /\ IsFiniteSet(Active \X (1..OpBlocks))
      /\ Cardinality(Active \X (1..OpBlocks)) = outstanding * OpBlocks
  BY <1>1, <1>2, FS_Product, Zenon
<1>4. Used \in SUBSET (Active \X (1..OpBlocks))
  <2> SUFFICES ASSUME NEW p \in Proc, NEW i \in 1..OpBlocks,
                      i <= Cardinality(wrote[p])
               PROVE  p \in Active
    BY DEF Used, UsedBy
  <2>1. wrote[p] # {}
    BY FS_EmptySet, ConstAssumption
  <2> QED
    BY <2>1 DEF SpaceInv, Active
<1> QED
  BY <1>3, <1>4, FS_Subset

\* log_write() therefore always finds room.
LEMMA RoomForWrite ==
  ASSUME OpBlocks < MAXOPBLOCKS, LogInv, SpaceInv, outstanding # 0
  PROVE  ~LogFull
<1> DEFINE o == outstanding
<1> DEFINE u == Cardinality(Used)
<1> DEFINE n == Len(lh)
<1> DEFINE M == MAXOPBLOCKS
<1> DEFINE k == OpBlocks
<1>1. /\ o \in Nat /\ u \in Nat /\ n \in Nat /\ M \in Nat /\ k \in Nat
      /\ LOGSIZE \in Nat /\ NLOG \in Nat /\ LOGSIZE <= NLOG /\ k < M /\ o # 0
  BY ConstAssumption, UsedFinite, SMTT(30) DEF LogInv, TypeOK
<1>2. /\ u <= o * k
      /\ n + o * M <= LOGSIZE + u
      /\ o = 1 => n + M <= LOGSIZE - 1 + u
  <2>1. boot = "up"
    BY ActiveCount DEF LogInv, ControlInv, Active
  <2> QED
    BY <2>1, UsedBound, SMTT(30) DEF SpaceInv
<1>3. n <= LOGSIZE - 2
  <2> HIDE DEF o, u, n, M, k
  <2>1. CASE o = 1
    BY <1>1, <1>2, <2>1
  <2>2. CASE o # 1
    <3>1. o * k + o <= o * M /\ o * k \in Nat /\ o * M \in Nat
      BY <1>1
    <3> QED
      BY <1>1, <1>2, <2>2, <3>1
  <2> QED
    BY <2>1, <2>2
<1> QED
  BY <1>1, <1>3 DEF LogFull

\* Ending a call gives back at most OpBlocks pairs.
LEMMA UsedAfterEnd ==
  ASSUME TypeOK, NEW p \in Proc, wrote' = [wrote EXCEPT ![p] = {}]
  PROVE  Cardinality(Used) <= Cardinality(Used') + OpBlocks
<1> DEFINE S == {p} \X (1..OpBlocks)
<1>1. IsFiniteSet(S) /\ Cardinality(S) = OpBlocks
  <2>1. IsFiniteSet(1..OpBlocks) /\ Cardinality(1..OpBlocks) = OpBlocks
    BY ConstAssumption, FS_Interval
  <2>2. IsFiniteSet({p}) /\ Cardinality({p}) = 1
    BY FS_Singleton, Zenon
  <2>3. IsFiniteSet(S) /\ Cardinality(S) = 1 * OpBlocks
    BY <2>1, <2>2, FS_Product, ZenonT(40)
  <2> QED
    BY <2>3, ConstAssumption
<1>2. IsFiniteSet(Used') /\ Cardinality(Used') \in Nat
  BY UsedFinite
<1>3. /\ IsFiniteSet(Used' \cup S)
      /\ Cardinality(Used' \cup S) <= Cardinality(Used') + OpBlocks
  <2>1. IsFiniteSet(Used' \cap S)
    BY <1>1, FS_Subset
  <2>2. Cardinality(Used' \cap S) \in Nat
    BY <2>1, FS_CardinalityType
  <2>3. /\ IsFiniteSet(Used' \cup S)
        /\ Cardinality(Used' \cup S) =
             Cardinality(Used') + Cardinality(S) - Cardinality(Used' \cap S)
    BY <1>1, <1>2, FS_Union, ZenonT(20)
  <2> QED
    BY <1>1, <1>2, <2>2, <2>3, ConstAssumption
<1>4. Used \in SUBSET (Used' \cup S)
  <2> SUFFICES ASSUME NEW q \in Proc, NEW i \in 1..OpBlocks,
                      i <= Cardinality(wrote[q]), q # p
               PROVE  i <= Cardinality(wrote'[q])
    BY DEF Used, UsedBy
  <2> QED
    BY DEF TypeOK
<1>5. Cardinality(Used) <= Cardinality(Used' \cup S)
  BY <1>3, <1>4, FS_Subset
<1>6. Cardinality(Used' \cup S) \in Nat /\ Cardinality(Used) \in Nat
  BY <1>3, FS_CardinalityType, UsedFinite
<1> QED
  BY <1>2, <1>3, <1>5, <1>6, ConstAssumption

\* Logging a block the call has not logged before takes one pair.
LEMMA UsedAfterWrite ==
  ASSUME TypeOK, NEW p \in Proc, NEW b \in Block,
         IsFiniteSet(wrote[p]), Cardinality(wrote[p]) < OpBlocks,
         b \notin wrote[p], wrote' = [wrote EXCEPT ![p] = @ \cup {b}]
  PROVE  /\ Cardinality(wrote'[p]) = Cardinality(wrote[p]) + 1
         /\ IsFiniteSet(wrote'[p])
         /\ Cardinality(Used') = Cardinality(Used) + 1
<1> DEFINE w == Cardinality(wrote[p])
<1>1. w \in Nat
  BY FS_CardinalityType
<1>2. wrote'[p] = wrote[p] \cup {b} /\ \A q \in Proc \ {p} : wrote'[q] = wrote[q]
  BY DEF TypeOK
<1>3. IsFiniteSet(wrote'[p]) /\ Cardinality(wrote'[p]) = w + 1
  BY <1>2, FS_AddElement
<1>4. <<p, w + 1>> \notin Used
  BY <1>1 DEF Used, UsedBy
<1>5. Used' = Used \cup {<<p, w + 1>>}
  <2>1. w + 1 \in 1..OpBlocks
    BY <1>1, ConstAssumption
  <2>2. \A i \in 1..OpBlocks : i <= w + 1 <=> i <= w \/ i = w + 1
    BY <1>1, ConstAssumption, SMTT(30)
  <2>3. \A q \in Proc, i \in 1..OpBlocks :
          <<q, i>> \in Used' <=> <<q, i>> \in Used \/ <<q, i>> = <<p, w + 1>>
    BY <1>2, <1>3, <2>2 DEF Used, UsedBy
  <2>4. \A u \in Proc \X (1..OpBlocks) : u \in Used' <=> u \in Used \/ u = <<p, w + 1>>
    BY <2>3
  <2>5. /\ Used \subseteq Proc \X (1..OpBlocks)
        /\ Used' \subseteq Proc \X (1..OpBlocks)
        /\ <<p, w + 1>> \in Proc \X (1..OpBlocks)
    BY <2>1, ZenonT(20) DEF Used, UsedBy
  <2> QED
    BY <2>4, <2>5
<1>6. Cardinality(Used') = Cardinality(Used) + 1
  BY <1>4, <1>5, UsedFinite, FS_AddElement
<1> QED
  BY <1>3, <1>6

\* The reservation is enough for calls that stay below it.
THEOREM ReservationSuffices == OpBlocks < MAXOPBLOCKS => (Spec => []NoPanic)
<1> SUFFICES ASSUME OpBlocks < MAXOPBLOCKS PROVE Spec => []NoPanic
  OBVIOUS
<1>c. /\ MAXOPBLOCKS \in Nat /\ LOGSIZE \in Nat /\ NLOG \in Nat /\ OpBlocks \in Nat
      /\ MAXOPBLOCKS < LOGSIZE
  BY ConstAssumption, ZenonT(20)
<1>1. Init => SpaceInv
  <2> SUFFICES ASSUME Init PROVE SpaceInv
    OBVIOUS
  <2>1. \A p \in Proc : wrote[p] = {} /\ pc[p] = "out"
    BY DEF Init
  <2>2. Len(lh) = 0 /\ outstanding = 0
    BY DEF Init
  <2>3. 0 * MAXOPBLOCKS = 0
    BY <1>c
  <2>4. \A p \in Proc : IsFiniteSet(wrote[p]) /\ Cardinality(wrote[p]) <= OpBlocks
    BY <1>c, <2>1, EmptyWrote
  <2>5. boot # "up"
    BY ZenonT(20) DEF Init
  <2> QED
    BY <2>1, <2>4, <2>5 DEF SpaceInv, NoPanic
<1>2. LogInv /\ SpaceInv /\ [Next]_vars => SpaceInv'
  <2> SUFFICES ASSUME LogInv, SpaceInv, [Next]_vars PROVE SpaceInv'
    OBVIOUS
  <2>0. TypeOK /\ ControlInv /\ PhaseInv
    BY DEF LogInv
  <2>a. /\ outstanding \in Nat /\ Len(lh) \in Nat /\ Cardinality(Used) \in Nat
        /\ outstanding * MAXOPBLOCKS \in Nat
    BY <1>c, <2>0, UsedFinite, SMTT(30) DEF TypeOK
  <2>b. NoPanic /\ \A p \in Proc : pc[p] # "op" => wrote[p] = {}
    BY ZenonT(20) DEF SpaceInv
  <2>c. \A p \in Proc : /\ IsFiniteSet(wrote[p])
                        /\ Cardinality(wrote[p]) <= OpBlocks
                        /\ wrote[p] \subseteq Blocks(lh)
                        /\ pc[p] # "op" => wrote[p] = {}
    BY SMTT(30), ZenonT(20) DEF SpaceInv
  <2>1. ASSUME UNCHANGED <<lh, outstanding, wrote, boot>>,
               \A p \in Proc : pc[p] = "op" => pc'[p] = "op",
               \A p \in Proc : pc'[p] # "panic"
        PROVE  SpaceInv'
    <3>1. UNCHANGED <<Used, Blocks(lh)>>
      BY <2>1 DEF Used, Blocks
    <3> QED
      BY <2>1, <3>1 DEF SpaceInv, NoPanic
  <2>2. ASSUME boot' # "up" \/ (lh' = <<>> /\ outstanding' = 0),
               \A p \in Proc : wrote'[p] = {} /\ pc'[p] # "panic"
        PROVE  SpaceInv'
    <3>1. Cardinality(Used') \in Nat /\ Len(<<>>) = 0 /\ 0 * MAXOPBLOCKS = 0
      BY <1>c, UsedFinite
    <3>2. \A p \in Proc : IsFiniteSet(wrote'[p]) /\ Cardinality(wrote'[p]) <= OpBlocks
      BY <2>2, EmptyWrote, ZenonT(40)
    <3>3. \A p \in Proc : /\ IsFiniteSet(wrote'[p])
                          /\ Cardinality(wrote'[p]) <= OpBlocks
                          /\ wrote'[p] \subseteq Blocks(lh')
                          /\ pc'[p] # "op" => wrote'[p] = {}
      BY <2>2, <3>2
    <3>n. NoPanic'
      BY <2>2, ZenonT(20) DEF NoPanic
    <3>4. CASE boot' # "up"
      BY <3>n, <3>3, <3>4, ZenonT(20) DEF SpaceInv
    <3>5. CASE lh' = <<>> /\ outstanding' = 0
      <4>1. Len(lh') = 0 /\ outstanding' * MAXOPBLOCKS = 0 /\ outstanding' # 1
        BY <3>1, <3>5
      <4>2. Len(lh') + outstanding' * MAXOPBLOCKS <= LOGSIZE + Cardinality(Used')
        BY <1>c, <3>1, <4>1, SMTT(30)
      <4> QED
        BY <3>n, <3>3, <4>1, <4>2 DEF SpaceInv
    <3> QED
      BY <2>2, <3>4, <3>5
  <2>3. CASE RecoverReadHead \/ RecoverInstall \/ RecoverClear
    <3>1. /\ \A p \in Proc : pc[p] = "out"
          /\ UNCHANGED <<pc, wrote, outstanding>> /\ boot # "up"
          /\ boot' # "up" \/ lh' = <<>>
      BY <2>0, <2>3 DEF RecoverReadHead, RecoverInstall, RecoverClear, CopyHome,
                        EraseLog, ControlInv
    <3>2. Active = {}
      BY <3>1, ZenonT(20) DEF Active
    <3> QED
      BY <2>2, <2>b, <3>1, <3>2, ActiveCount, ZenonT(20)
  <2>4. ASSUME NEW p \in Proc, BeginOp(p) PROVE SpaceInv'
    <3>1. /\ UNCHANGED <<lh, wrote, boot>> /\ outstanding' = outstanding + 1
          /\ boot = "up" /\ ~committing /\ ~NoSpace
      BY <2>4 DEF BeginOp, AtBegin, MustWait
    <3>2. UNCHANGED <<Used, Blocks(lh)>>
      BY <3>1 DEF Used, Blocks
    <3>3. Len(lh) + (outstanding + 1) * MAXOPBLOCKS <= LOGSIZE
      BY <1>c, <2>a, <3>1, SMTT(30) DEF NoSpace
    <3>4. outstanding = 0 => Len(lh) = 0
      BY <2>0, <3>1, ZenonT(20) DEF ControlInv
    <3>5. \A q \in Proc : pc'[q] # "panic" /\ (pc[q] = "op" => pc'[q] = "op")
      BY <2>0, <2>4, <2>b DEF BeginOp, TypeOK, NoPanic
    <3>6. /\ Len(lh') + outstanding' * MAXOPBLOCKS <= LOGSIZE + Cardinality(Used')
          /\ outstanding' = 1 =>
               Len(lh') + MAXOPBLOCKS <= LOGSIZE - 1 + Cardinality(Used')
      BY <1>c, <2>a, <3>1, <3>2, <3>3, <3>4, SMTT(30)
    <3> QED
      BY <3>1, <3>2, <3>5, <3>6 DEF SpaceInv, NoPanic
  <2>5. ASSUME NEW p \in Proc, BeginSleep(p) PROVE SpaceInv'
    <3>1. \A q \in Proc : pc'[q] # "panic" /\ (pc[q] = "op" => pc'[q] = "op")
      BY <2>0, <2>5, <2>b DEF BeginSleep, AtBegin, TypeOK, NoPanic
    <3> QED
      BY <2>1, <2>5, <3>1, ZenonT(20) DEF BeginSleep
  <2>6. ASSUME NEW p \in Proc, NEW b \in Block, NEW v \in Val, LogWrite(p, b, v)
        PROVE  SpaceInv'
    <3>1. outstanding # 0 /\ p \in Active /\ pc[p] = "op"
      BY <2>6, ActiveCount DEF LogWrite, Active
    <3>2. ~LogFull /\ ~(outstanding < 1) /\ boot = "up"
      BY <2>0, <2>a, <3>1, RoomForWrite, SMTT(30) DEF ControlInv
    <3>3. /\ UNCHANGED <<pc, outstanding, boot>>
          /\ \/ b \in Blocks(lh) /\ lh' = lh
             \/ b \notin Blocks(lh) /\ lh' = Append(lh, b)
      BY <2>6, <3>2, LogWriteCases, ZenonT(20) DEF WritePanics, WriteAbsorbed,
          WriteAppended,
                                       LogWrite
    <3>4. wrote' = [wrote EXCEPT ![p] = @ \cup {b}]
      BY <2>6 DEF LogWrite
    <3>5. Blocks(lh') = Blocks(lh) \cup {b}
      <4>1. CASE b \in Blocks(lh) /\ lh' = lh
        BY <4>1
      <4>2. CASE lh' = Append(lh, b)
        BY <2>0, <4>2, BlocksAppend, ZenonT(20) DEF TypeOK
      <4> QED
        BY <3>3, <4>1, <4>2
    <3>6. IsFiniteSet(wrote[p]) /\ wrote[p] \subseteq Blocks(lh)
      BY ZenonT(20) DEF SpaceInv
    <3>7. CASE b \in wrote[p]
      <4>1. wrote' = wrote /\ lh' = lh
        BY <2>0, <3>3, <3>4, <3>6, <3>7, SMTT(30) DEF TypeOK
      <4> QED
        BY <2>1, <2>b, <3>3, <4>1, SMTT(30) DEF NoPanic
    <3>8. CASE b \notin wrote[p]
      <4>1. Cardinality(wrote[p]) < OpBlocks
        BY <2>6, <3>8, SMTT(30) DEF LogWrite, MayWrite
      <4>2. /\ Cardinality(wrote'[p]) = Cardinality(wrote[p]) + 1
            /\ IsFiniteSet(wrote'[p])
            /\ Cardinality(Used') = Cardinality(Used) + 1
        BY <2>0, <3>4, <3>6, <3>8, <4>1, UsedAfterWrite, ZenonT(40)
      <4>3. Cardinality(wrote[p]) \in Nat
        BY <3>6, FS_CardinalityType, Zenon
      <4>4. \A q \in Proc \ {p} : wrote'[q] = wrote[q]
        BY <2>0, <3>4 DEF TypeOK
      <4>5. wrote'[p] = wrote[p] \cup {b}
        BY <2>0, <3>4, SMTT(30) DEF TypeOK
      <4>6. \A q \in Proc : /\ IsFiniteSet(wrote'[q])
                            /\ Cardinality(wrote'[q]) <= OpBlocks
                            /\ wrote'[q] \subseteq Blocks(lh')
                            /\ pc'[q] # "op" => wrote'[q] = {}
        <5> SUFFICES ASSUME NEW q \in Proc
                     PROVE  /\ IsFiniteSet(wrote'[q])
                            /\ Cardinality(wrote'[q]) <= OpBlocks
                            /\ wrote'[q] \subseteq Blocks(lh')
                            /\ pc'[q] # "op" => wrote'[q] = {}
          BY SMTT(30), ZenonT(20)
        <5>1. CASE q = p
          <6>1. Cardinality(wrote'[p]) <= OpBlocks
            BY <1>c, <4>1, <4>2, <4>3, SMTT(30)
          <6>2. wrote'[p] \subseteq Blocks(lh') /\ pc'[p] = "op"
            BY <3>1, <3>3, <3>5, <3>6, <4>5, ZenonT(20)
          <6> QED
            BY <4>2, <5>1, <6>1, <6>2, ZenonT(20)
        <5>2. CASE q # p
          BY <2>c, <3>3, <3>5, <4>4, <5>2, SMTT(30)
        <5> QED
          BY <5>1, <5>2, ZenonT(40)
      <4>7. Len(lh') <= Len(lh) + 1 /\ Len(lh') \in Nat
        BY <2>0, <3>3, SMTT(30) DEF TypeOK
      <4>8. /\ Len(lh) + outstanding * MAXOPBLOCKS <= LOGSIZE + Cardinality(Used)
            /\ outstanding = 1 =>
                 Len(lh) + MAXOPBLOCKS <= LOGSIZE - 1 + Cardinality(Used)
        BY <3>2, ZenonT(20) DEF SpaceInv
      <4>9. /\ Len(lh') + outstanding * MAXOPBLOCKS <= LOGSIZE + Cardinality(Used')
            /\ outstanding = 1 =>
                 Len(lh') + MAXOPBLOCKS <= LOGSIZE - 1 + Cardinality(Used')
        BY <1>c, <2>a, <4>2, <4>7, <4>8, SMTT(30)
      <4> QED
        BY <2>b, <3>3, <4>6, <4>9, ZenonT(40) DEF SpaceInv, NoPanic
    <3> QED
      BY <3>7, <3>8, ZenonT(20)
  <2>7. ASSUME NEW p \in Proc, EndOp(p) PROVE SpaceInv'
    <3>1. /\ p \in Active /\ outstanding # 0 /\ outstanding' = outstanding - 1
          /\ UNCHANGED <<lh, boot>> /\ wrote' = [wrote EXCEPT ![p] = {}]
      BY <2>7, EndOpCases, ZenonT(40) DEF EndOp
    <3>2. boot = "up"
      BY <2>0, <2>7 DEF ControlInv, EndOp
    <3>3. \A q \in Proc : /\ pc'[q] # "panic"
                          /\ q # p /\ pc[q] = "op" => pc'[q] = "op"
      <4>1. CASE EndsLast(p)
        BY <2>0, <2>b, <4>1, ZenonT(20) DEF EndsLast, TypeOK, NoPanic
      <4>2. CASE EndsEarly(p)
        BY <2>0, <2>b, <4>2, SMTT(30) DEF EndsEarly, Wakeup, TypeOK, NoPanic
      <4> QED
        BY <2>7, <4>1, <4>2, EndOpCases, ZenonT(20)
    <3>4. wrote'[p] = {} /\ \A q \in Proc \ {p} : wrote'[q] = wrote[q]
      BY <2>0, <3>1, ZenonT(20) DEF TypeOK
    <3>5. \A q \in Proc : /\ IsFiniteSet(wrote'[q])
                          /\ Cardinality(wrote'[q]) <= OpBlocks
                          /\ wrote'[q] \subseteq Blocks(lh')
                          /\ pc'[q] # "op" => wrote'[q] = {}
      <4>1. Blocks(lh') = Blocks(lh)
        BY <3>1, ZenonT(20)
      <4> SUFFICES ASSUME NEW q \in Proc
                   PROVE  /\ IsFiniteSet(wrote'[q])
                          /\ Cardinality(wrote'[q]) <= OpBlocks
                          /\ wrote'[q] \subseteq Blocks(lh')
                          /\ pc'[q] # "op" => wrote'[q] = {}
        OBVIOUS
      <4>2. CASE q = p
        BY <3>4, <4>2, EmptyWrote, SMTT(30)
      <4>3. CASE q # p
        <5>1. wrote'[q] = wrote[q] /\ (pc'[q] # "op" => pc[q] # "op")
          BY <3>3, <3>4, <4>3, SMTT(30)
        <5> QED
          BY <2>c, <4>1, <5>1, ZenonT(40)
      <4> QED
        BY <4>2, <4>3
    <3>6. Cardinality(Used) <= Cardinality(Used') + OpBlocks
      BY <2>0, <3>1, UsedAfterEnd, Zenon
    <3>7. Cardinality(Used') \in Nat
      BY UsedFinite
    <3>8. Len(lh) + outstanding * MAXOPBLOCKS <= LOGSIZE + Cardinality(Used)
      BY <3>2, ZenonT(20) DEF SpaceInv
    <3>9. Len(lh) + (outstanding - 1) * MAXOPBLOCKS
            <= LOGSIZE - 1 + Cardinality(Used')
      <4>1. (outstanding - 1) * MAXOPBLOCKS = outstanding * MAXOPBLOCKS - MAXOPBLOCKS
        BY <1>c, <2>a, SMTT(30)
      <4> QED
        BY <1>c, <2>a, <3>6, <3>7, <3>8, <4>1
    <3>10. /\ Len(lh') + outstanding' * MAXOPBLOCKS <= LOGSIZE + Cardinality(Used')
           /\ outstanding' = 1 =>
                Len(lh') + MAXOPBLOCKS <= LOGSIZE - 1 + Cardinality(Used')
      <4>1. (outstanding - 1) * MAXOPBLOCKS \in Int /\ 1 * MAXOPBLOCKS = MAXOPBLOCKS
        BY <1>c, <2>a, SMTT(30)
      <4> QED
        BY <1>c, <2>a, <3>1, <3>7, <3>9, <4>1
    <3>11. NoPanic'
      BY <3>3, SMTT(30) DEF NoPanic
    <3> QED
      BY <3>5, <3>10, <3>11, SMTT(30) DEF SpaceInv
  <2>8. ASSUME NEW p \in Proc, WriteLog(p) \/ WriteHead(p) \/ Install(p)
        PROVE  SpaceInv'
    <3>1. \A q \in Proc : pc'[q] # "panic" /\ (pc[q] = "op" => pc'[q] = "op")
      BY <2>0, <2>8, <2>b, ZenonT(40) DEF WriteLog, WriteHead, Install, TypeOK, NoPanic
    <3> QED
      BY <2>1, <2>8, <3>1, SMTT(30) DEF WriteLog, WriteHead, Install, CopyHome
  <2>9. ASSUME NEW p \in Proc, Clear(p) PROVE SpaceInv'
    <3>1. Active = {}
      BY <2>0, <2>9 DEF Clear, ControlInv, CommitPCs
    <3>2. outstanding' = 0 /\ lh' = <<>> /\ wrote' = wrote
      BY <2>9, <3>1, ActiveCount, SMTT(30) DEF Clear, EraseLog
    <3>3. \A q \in Proc : pc'[q] # "panic" /\ wrote[q] = {}
      BY <2>0, <2>9, <2>b, <3>1, SMTT(30) DEF Clear, TypeOK, NoPanic, Active
    <3> QED
      BY <2>2, <3>2, <3>3
  <2>10. ASSUME NEW p \in Proc, CommitDone(p) PROVE SpaceInv'
    <3>1. \A q \in Proc : pc'[q] # "panic" /\ (pc[q] = "op" => pc'[q] = "op")
      BY <2>0, <2>10, <2>b, SMTT(30) DEF CommitDone, Wakeup, TypeOK, NoPanic
    <3> QED
      BY <2>1, <2>10, <3>1, ZenonT(40) DEF CommitDone
  <2>11. ASSUME NEW b \in Block, Evict(b) \/ Load(b) PROVE SpaceInv'
    BY <2>1, <2>11, <2>b, Zenon DEF Evict, Load, NoPanic
  <2>12. CASE Crash
    BY <2>2, <2>12, SMTT(30) DEF Crash
  <2>13. CASE UNCHANGED vars
    BY <2>1, <2>13, <2>b, SMTT(30) DEF vars, NoPanic
  <2> QED
    BY <2>3, <2>4, <2>5, <2>6, <2>7, <2>8, <2>9, <2>10, <2>11, <2>12, <2>13, SMTT(30)
       DEF Next
<1>3. SpaceInv => NoPanic
  BY DEF SpaceInv
<1> QED
  BY <1>1, <1>2, <1>3, LogInvariant, PTL DEF Spec

=============================================================================
