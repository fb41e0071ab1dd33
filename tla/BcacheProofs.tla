---------------------------- MODULE BcacheProofs ----------------------------
(***************************************************************************)
(* Proofs about the buffer cache and its sleep locks (Bcache), for every   *)
(* finite set of processes and of buffers, every set of blocks and every   *)
(* number of pins.                                                         *)
(***************************************************************************)
EXTENDS Bcache, FiniteSetTheorems, TLAPS

-----------------------------------------------------------------------------
(* The buffer cache and its sleep locks *)

\* What the theorems assume of the constants: finitely many processes and
\* buffers, and a Nil that is none of them.
Constants ==
  /\ IsFiniteSet(Proc) /\ IsFiniteSet(Buf)
  /\ Nil \notin Proc \cup Buf \cup Block
  /\ MaxPin \in Nat

\* A non-empty set of indices has a greatest one.
LEMMA Greatest ==
  ASSUME NEW n \in Nat, NEW S \in SUBSET (1..n), S # {}
  PROVE  \E i \in S : \A j \in S : j <= i
  <1> DEFINE T == {n - i : i \in S}
             R == {r \in Nat \X Nat : r[1] < r[2]}
  <1>1. T \subseteq Nat /\ T # {}
    <2>1. \A i \in S : n - i \in Nat
      OBVIOUS
    <2>2. PICK i \in S : TRUE
      BY Zenon
    <2>3. n - i \in T
      OBVIOUS
    <2> QED
      BY <2>1, <2>3
  <1>2. IsWellFoundedOn(R, Nat)
    BY NatLessThanWellFounded, Zenon DEF OpToRel
  <1>3. PICK x \in T : \A y \in T : <<y, x>> \notin R
    <2> HIDE DEF T, R
    <2> QED
      BY <1>1, <1>2, WFMin, Zenon
  <1>4. PICK i \in S : x = n - i
    BY <1>3
  <1>5. ASSUME NEW j \in S PROVE j <= i
    <2>1. n - j \in T /\ n - j \in Nat
      OBVIOUS
    <2>2. ~(n - j < x)
      BY <2>1, <1>1, <1>3, Zenon
    <2> QED
      BY <2>2, <1>4
  <1> QED
    BY <1>5

\* The buffer that bget() recycles is a buffer without a user.
LEMMA VictimUnused ==
  ASSUME Constants, LruInv, Unused # {}
  PROVE  Victim \in Buf /\ refcnt[Victim] = 0
  <1>1. Cardinality(Buf) \in Nat
    BY FS_CardinalityType DEF Constants
  <1>2. Unused \in SUBSET (1..Cardinality(Buf))
    BY DEF LruInv, Unused
  <1>3. \E i \in Unused : \A j \in Unused : j <= i
    BY <1>1, <1>2, Greatest, Zenon
  <1> DEFINE m == CHOOSE i \in Unused : \A j \in Unused : j <= i
  <1>4. m \in Unused
    BY <1>3
  <1>5. Victim = lru[m]
    BY DEF Victim
  <1> QED
    BY <1>2, <1>4, <1>5 DEF LruInv, Unused

\* The list binit() builds holds every buffer.
LEMMA AllInList ==
  ASSUME IsFiniteSet(Buf)
  PROVE  /\ AllBuffers \in [1..Cardinality(Buf) -> Buf]
         /\ \A b \in Buf : \E n \in 1..Cardinality(Buf) : AllBuffers[n] = b
  <1> DEFINE D == 1..Cardinality(Buf)
  <1>1. ExistsBijection(D, Buf)
    BY FS_CardinalityType, Zenon
  <1>2. \E s \in [D -> Buf] : \A b \in Buf : \E n \in DOMAIN s : s[n] = b
    BY <1>1, Zenon DEF ExistsBijection, Bijection, Surjection
  <1>3. AllBuffers \in [D -> Buf] /\ \A b \in Buf : \E n \in DOMAIN AllBuffers : AllBuffers[n] = b
    BY <1>2, Zenon DEF AllBuffers
  <1> QED
    BY <1>3

\* The victim of a miss is neither locked nor in use.
LEMMA MissFacts ==
  ASSUME Constants, CacheInv, Unused # {}
  PROVE  /\ Victim \in Buf /\ Victim \notin pinned
         /\ lock[Victim] = Nil
         /\ \A q \in Proc : cur[q] # Victim
  <1>0. TypeOK /\ LruInv /\ CurInv /\ LockInv /\ RefsCounted
    BY DEF CacheInv
  <1>1. Victim \in Buf /\ refcnt[Victim] = 0
    BY <1>0, VictimUnused
  <1>2. IsFiniteSet(Users(Victim)) /\ Cardinality(Users(Victim)) \in Nat
    <2>1. Users(Victim) \in SUBSET Proc
      BY DEF Users
    <2> QED
      BY <2>1, FS_Subset, FS_CardinalityType DEF Constants
  <1>3. Cardinality(Users(Victim)) = 0 /\ Victim \notin pinned
    BY <1>0, <1>1, <1>2 DEF RefsCounted
  <1>4. Users(Victim) = {}
    BY <1>2, <1>3, FS_EmptySet
  <1>5. \A q \in Proc : cur[q] # Victim
    BY <1>4 DEF Users
  <1>6. lock[Victim] = Nil
    BY <1>0, <1>1, <1>5 DEF LockInv, TypeOK
  <1> QED
    BY <1>1, <1>3, <1>5, <1>6

\* A buffer that a process uses, or the log, has a reference.
LEMMA Positive ==
  ASSUME Constants, TypeOK, RefsCounted, NEW b \in Buf,
         b \in pinned \/ \E p \in Proc : cur[p] = b
  PROVE  refcnt[b] - 1 \in Nat
  <1>1. Users(b) \in SUBSET Proc
    BY DEF Users
  <1>2. IsFiniteSet(Users(b)) /\ Cardinality(Users(b)) \in Nat
    BY <1>1, FS_Subset, FS_CardinalityType DEF Constants
  <1>3. (\E p \in Proc : cur[p] = b) => Cardinality(Users(b)) # 0
    BY <1>2, FS_EmptySet DEF Users
  <1> QED
    BY <1>2, <1>3 DEF RefsCounted, TypeOK

\* The fields keep their types; no reference count falls below zero.
LEMMA TypeStep ==
  ASSUME Constants, CacheInv, Next
  PROVE  TypeOK'
  <1> USE DEF Goto
  <1>0. TypeOK /\ LruInv /\ CurInv /\ LockInv /\ RefsCounted /\ ReqInv
    BY DEF CacheInv
  <1>1. ASSUME NEW p \in Proc, NEW k \in Block, Bget(p, k) PROVE TypeOK'
    <2>1. CASE Hit(p, k)
      BY <1>0, <1>1, <2>1 DEF Bget, Hit, Cached, TypeOK, PCs, BD!Request, BD!None
    <2>2. CASE Miss(p, k)
      BY <1>0, <1>1, <2>2, MissFacts DEF Bget, Miss, TypeOK, PCs, BD!Request, BD!None
    <2> QED
      BY <1>1, <2>1, <2>2 DEF Bget
  <1>2. ASSUME NEW p \in Proc, AcquireSleeps(p) PROVE TypeOK'
    BY <1>0, <1>2 DEF AcquireSleeps, cache, TypeOK, PCs, BD!Request, BD!None
  <1>3. ASSUME NEW p \in Proc, Acquire(p) PROVE TypeOK'
    <2>1. cur[p] \in Buf /\ [op |-> "read", blk |-> blockno[cur[p]]] \in BD!Request
      BY <1>0, <1>3 DEF Acquire, CurInv, BD!Request
    <2>2. CASE valid[cur[p]]
      BY <1>0, <1>3, <2>1, <2>2 DEF Acquire, cache, TypeOK, PCs
    <2>3. CASE ~valid[cur[p]]
      BY <1>0, <1>3, <2>1, <2>3 DEF Acquire, cache, BD!Start, TypeOK, PCs
    <2> QED
      BY <2>2, <2>3
  <1>4. ASSUME NEW p \in Proc, Killed(p) PROVE TypeOK'
    BY <1>0, <1>4 DEF Killed, cache, TypeOK, PCs, BD!Request, BD!None
  <1>5. ASSUME NEW b \in Buf, Transfer(b) PROVE TypeOK'
    BY <1>0, <1>5 DEF Transfer, cache, BD!Transfer, TypeOK, PCs, BD!Request, BD!None
  <1>6. ASSUME NEW p \in Proc, RequestDone(p) PROVE TypeOK'
    BY <1>0, <1>6 DEF RequestDone, cache, BD!Finish, CurInv, TypeOK, PCs,
        BD!Request, BD!None
  <1>7. ASSUME NEW p \in Proc, Change(p) PROVE TypeOK'
    BY <1>0, <1>7, Zenon DEF Change, cache, CurInv, TypeOK, PCs, BD!Request, BD!None
  <1>8. ASSUME NEW p \in Proc, Bwrite(p) PROVE TypeOK'
    BY <1>0, <1>8 DEF Bwrite, cache, BD!Start, CurInv, TypeOK, PCs, BD!Request, BD!None
  <1>9. ASSUME NEW p \in Proc, Bpin(p) PROVE TypeOK'
    BY <1>0, <1>9 DEF Bpin, CurInv, TypeOK, PCs, BD!Request, BD!None
  <1>10. ASSUME NEW p \in Proc, Bunpin(p) PROVE TypeOK'
    <2>1. cur[p] \in Buf /\ refcnt[cur[p]] - 1 \in Nat
      BY <1>0, <1>10, Positive DEF Bunpin, CurInv
    <2> QED
      BY <1>0, <1>10, <2>1, SMTT(30) DEF Bunpin, TypeOK, PCs, BD!Request, BD!None
  <1>11. ASSUME NEW p \in Proc, ReleaseSleep(p) PROVE TypeOK'
    BY <1>0, <1>11, ZenonT(20) DEF ReleaseSleep, cache, CurInv, TypeOK, PCs, BD!Request, BD!None
  <1>12. ASSUME NEW p \in Proc, Unref(p) PROVE TypeOK'
    <2>1. cur[p] \in Buf /\ refcnt[cur[p]] - 1 \in Nat
      BY <1>0, <1>12, Positive, SMTT(20) DEF Unref, CurInv
    <2> QED
      BY <1>0, <1>12, <2>1 DEF Unref, TypeOK, PCs, BD!Request, BD!None
  <1> QED
    BY <1>1, <1>2, <1>3, <1>4, <1>5, <1>6, <1>7, <1>8, <1>9, <1>10, <1>11, <1>12
    DEF Next

\* brelse() only changes the order of the list.
LEMMA LruStep ==
  ASSUME Constants, CacheInv, Next
  PROVE  LruInv'
  <1> USE DEF Goto
  <1>0. TypeOK /\ LruInv /\ CurInv
    BY DEF CacheInv
  <1>1. ASSUME NEW p \in Proc, Unref(p) PROVE LruInv'
    <2>1. CASE refcnt[cur[p]] = 1
      <3> DEFINE N == Cardinality(Buf)
                 b == cur[p]
                 i == CHOOSE n \in DOMAIN lru : lru[n] = b
      <3>1. N \in Nat /\ b \in Buf
        BY <1>0, <1>1, FS_CardinalityType DEF Constants, Unref, CurInv
      <3>2. i \in 1..N /\ lru[i] = b
        BY <1>0, <3>1 DEF LruInv
      <3>3. lru' = [n \in 1..N |-> IF n = 1 THEN b ELSE IF n <= i THEN lru[n - 1] ELSE lru[n]]
        BY <1>0, <1>1, <2>1 DEF Unref, MoveToFront, LruInv
      <3> HIDE DEF N, i, b
      <3>4. lru \in [1..N -> Buf] /\ \A c \in Buf : \E n \in 1..N : lru[n] = c
        BY <1>0 DEF LruInv, N
      <3>5. lru' \in [1..N -> Buf]
        BY <3>1, <3>2, <3>3, <3>4
      <3>6. ASSUME NEW c \in Buf PROVE \E n \in 1..N : lru'[n] = c
        <4>1. PICK n \in 1..N : lru[n] = c
          BY <3>4
        <4>2. CASE n < i
          <5>1. n + 1 \in 1..N /\ n + 1 # 1 /\ n + 1 <= i /\ (n + 1) - 1 = n
            BY <3>1, <3>2, <4>2
          <5> QED
            BY <5>1, <4>1, <3>3
        <4>3. CASE n = i
          <5>1. 1 \in 1..N /\ c = b
            BY <3>1, <3>2, <4>1, <4>3
          <5> QED
            BY <5>1, <3>3
        <4>4. CASE n > i
          <5>1. n # 1 /\ ~(n <= i)
            BY <3>1, <3>2, <4>4, SMTT(20)
          <5> QED
            BY <5>1, <4>1, <3>3
        <4> QED
          BY <3>1, <3>2, <4>2, <4>3, <4>4
      <3> QED
        BY <3>5, <3>6 DEF LruInv, N
    <2>2. CASE refcnt[cur[p]] # 1
      BY <1>0, <1>1, <2>2 DEF Unref, LruInv
    <2> QED
      BY <2>1, <2>2
  <1>2. ASSUME UNCHANGED lru PROVE LruInv'
    BY <1>0, <1>2, ZenonT(20) DEF LruInv
  <1> QED
    BY <1>1, <1>2, Zenon DEF Next, Bget, AcquireSleeps, Acquire, Killed,
        Transfer, RequestDone, Change, Bwrite, Bpin, Bunpin, ReleaseSleep, Hit,
        Miss, cache, BD!Start, BD!Transfer, BD!Finish

\* A process keeps the buffer of its block: a miss recycles a buffer that
\* nobody has.
LEMMA CurStep ==
  ASSUME Constants, CacheInv, Next
  PROVE  CurInv'
  <1> USE DEF Goto
  <1>0. TypeOK /\ CurInv
    BY DEF CacheInv
  <1>1. ASSUME NEW p \in Proc, NEW k \in Block, Bget(p, k) PROVE CurInv'
    <2>1. CASE Hit(p, k)
      BY <1>0, <1>1, <2>1 DEF Bget, Hit, Cached, TypeOK, CurInv
    <2>2. CASE Miss(p, k)
      BY <1>0, <1>1, <2>2, MissFacts DEF Bget, Miss, TypeOK, CurInv
    <2> QED
      BY <1>1, <2>1, <2>2 DEF Bget
  <1>2. ASSUME NEW p \in Proc, AcquireSleeps(p) PROVE CurInv'
    BY <1>0, <1>2 DEF AcquireSleeps, cache, TypeOK, CurInv
  <1>3. ASSUME NEW p \in Proc, Acquire(p) PROVE CurInv'
    BY <1>0, <1>3 DEF Acquire, cache, TypeOK, CurInv
  <1>4. ASSUME NEW p \in Proc, Killed(p) PROVE CurInv'
    BY <1>0, <1>4 DEF Killed, cache, TypeOK, CurInv
  <1>5. ASSUME NEW p \in Proc, RequestDone(p) PROVE CurInv'
    BY <1>0, <1>5 DEF RequestDone, cache, TypeOK, CurInv
  <1>6. ASSUME NEW p \in Proc, Change(p) PROVE CurInv'
    BY <1>0, <1>6 DEF Change, cache, TypeOK, CurInv
  <1>7. ASSUME NEW p \in Proc, Bwrite(p) PROVE CurInv'
    BY <1>0, <1>7 DEF Bwrite, cache, TypeOK, CurInv
  <1>8. ASSUME NEW p \in Proc, Bpin(p) PROVE CurInv'
    BY <1>0, <1>8 DEF Bpin, TypeOK, CurInv
  <1>9. ASSUME NEW p \in Proc, ReleaseSleep(p) PROVE CurInv'
    BY <1>0, <1>9 DEF ReleaseSleep, cache, TypeOK, CurInv
  <1>10. ASSUME NEW p \in Proc, Unref(p) PROVE CurInv'
    BY <1>0, <1>10 DEF Unref, TypeOK, CurInv
  <1>11. ASSUME UNCHANGED <<blockno, pc, cur, want>> PROVE CurInv'
    BY <1>0, <1>11, ZenonT(20) DEF CurInv
  <1> QED
    BY <1>1, <1>2, <1>3, <1>4, <1>5, <1>6, <1>7, <1>8, <1>9, <1>10, <1>11,
        SMTT(20)
    DEF Next, Transfer, Bunpin, cache, BD!Start, BD!Transfer, BD!Finish

\* The lock names the process that holds it.
LEMMA LockStep ==
  ASSUME Constants, CacheInv, Next
  PROVE  LockInv'
  <1> USE DEF Goto
  <1>0. TypeOK /\ CurInv /\ LockInv
    BY SMTT(30) DEF CacheInv
  <1>1. ASSUME NEW p \in Proc, NEW k \in Block, Bget(p, k) PROVE LockInv'
    <2>1. CASE Hit(p, k)
      BY <1>0, <1>1, <2>1, SMTT(20) DEF Bget, Hit, Cached, Constants, TypeOK,
          CurInv, LockInv, HasLock
    <2>2. CASE Miss(p, k)
      BY <1>0, <1>1, <2>2, MissFacts, SMTT(30) DEF Bget, Miss, Constants, TypeOK, CurInv,
          LockInv, HasLock
    <2> QED
      BY <1>1, <2>1, <2>2 DEF Bget
  <1>2. ASSUME NEW p \in Proc, AcquireSleeps(p) PROVE LockInv'
    BY <1>0, <1>2 DEF AcquireSleeps, Constants, TypeOK, CurInv, LockInv, HasLock
  <1>3. ASSUME NEW p \in Proc, Acquire(p) PROVE LockInv'
    BY <1>0, <1>3 DEF Acquire, Constants, TypeOK, CurInv, LockInv, HasLock
  <1>4. ASSUME NEW p \in Proc, Killed(p) PROVE LockInv'
    BY <1>0, <1>4 DEF Killed, Constants, TypeOK, CurInv, LockInv, HasLock
  <1>5. ASSUME NEW p \in Proc, RequestDone(p) PROVE LockInv'
    BY <1>0, <1>5 DEF RequestDone, Constants, TypeOK, CurInv, LockInv, HasLock
  <1>6. ASSUME NEW p \in Proc, Change(p) PROVE LockInv'
    BY <1>0, <1>6, SMTT(30) DEF Change, Constants, TypeOK, CurInv, LockInv, HasLock
  <1>7. ASSUME NEW p \in Proc, Bwrite(p) PROVE LockInv'
    BY <1>0, <1>7, SMTT(30) DEF Bwrite, Constants, TypeOK, CurInv, LockInv, HasLock
  <1>8. ASSUME NEW p \in Proc, Bpin(p) PROVE LockInv'
    BY <1>0, <1>8, SMTT(30) DEF Bpin, Constants, TypeOK, CurInv, LockInv, HasLock
  <1>9. ASSUME NEW p \in Proc, ReleaseSleep(p) PROVE LockInv'
    BY <1>0, <1>9, SMTT(30) DEF ReleaseSleep, Constants, TypeOK, CurInv, LockInv, HasLock
  <1>10. ASSUME NEW p \in Proc, Unref(p) PROVE LockInv'
    BY <1>0, <1>10, SMTT(30) DEF Unref, Constants, TypeOK, CurInv, LockInv, HasLock
  <1>11. ASSUME UNCHANGED <<lock, pc, cur>> PROVE LockInv'
    BY <1>0, <1>11, SMTT(20) DEF LockInv, HasLock
  <1> QED
    BY <1>1, <1>2, <1>3, <1>4, <1>5, <1>6, <1>7, <1>8, <1>9, <1>10, <1>11, ZenonT(20)
    DEF Next, Transfer, Bunpin, cache, BD!Start, BD!Transfer, BD!Finish

\* bget() recycles a buffer for a block only if no buffer has the block.
LEMMA OneStep ==
  ASSUME Constants, CacheInv, Next
  PROVE  OneBuffer'
  <1> USE DEF Goto
  <1>0. TypeOK /\ OneBuffer
    BY DEF CacheInv
  <1>1. ASSUME NEW p \in Proc, NEW k \in Block, Bget(p, k) PROVE OneBuffer'
    <2>1. CASE Hit(p, k)
      BY <1>0, <1>1, <2>1, SMTT(30) DEF Bget, Hit, OneBuffer
    <2>2. CASE Miss(p, k)
      BY <1>0, <1>1, <2>2, MissFacts DEF Bget, Miss, Cached, OneBuffer, TypeOK
    <2> QED
      BY <1>1, <2>1, <2>2 DEF Bget
  <1>2. ASSUME UNCHANGED blockno PROVE OneBuffer'
    BY <1>0, <1>2, SMTT(30) DEF OneBuffer
  <1> QED
    BY <1>1, <1>2, Zenon DEF Next, AcquireSleeps, Acquire, Killed, Transfer,
        RequestDone, Change, Bwrite, Bpin, Bunpin, ReleaseSleep, Unref, cache,
        BD!Start, BD!Transfer, BD!Finish

\* releasesleep() leaves nobody asleep on the lock it frees.
LEMMA SleepStep ==
  ASSUME Constants, CacheInv, Next
  PROVE  SleepLockHeld'
  <1> USE DEF Goto
  <1>0. TypeOK /\ CurInv /\ LockInv /\ SleepLockHeld
    BY SMTT(30) DEF CacheInv
  <1>1. ASSUME NEW p \in Proc, NEW k \in Block, Bget(p, k) PROVE SleepLockHeld'
    <2>1. CASE Hit(p, k)
      BY <1>0, <1>1, <2>1, SMTT(20) DEF Bget, Hit, Cached, TypeOK, CurInv, SleepLockHeld
    <2>2. CASE Miss(p, k)
      BY <1>0, <1>1, <2>2, MissFacts, SMTT(20) DEF Bget, Miss, TypeOK, CurInv,
          SleepLockHeld
    <2> QED
      BY <1>1, <2>1, <2>2 DEF Bget
  <1>2. ASSUME NEW p \in Proc, AcquireSleeps(p) PROVE SleepLockHeld'
    BY <1>0, <1>2, SMTT(20) DEF AcquireSleeps, TypeOK, CurInv, SleepLockHeld
  <1>3. ASSUME NEW p \in Proc, Acquire(p) PROVE SleepLockHeld'
    BY <1>0, <1>3 DEF Acquire, Constants, TypeOK, CurInv, SleepLockHeld
  <1>4. ASSUME NEW p \in Proc, Killed(p) PROVE SleepLockHeld'
    BY <1>0, <1>4 DEF Killed, TypeOK, CurInv, SleepLockHeld
  <1>5. ASSUME NEW p \in Proc, RequestDone(p) PROVE SleepLockHeld'
    BY <1>0, <1>5, SMTT(30) DEF RequestDone, TypeOK, CurInv, SleepLockHeld
  <1>6. ASSUME NEW p \in Proc, Change(p) PROVE SleepLockHeld'
    BY <1>0, <1>6, SMTT(30) DEF Change, TypeOK, CurInv, SleepLockHeld
  <1>7. ASSUME NEW p \in Proc, Bwrite(p) PROVE SleepLockHeld'
    BY <1>0, <1>7, SMTT(30) DEF Bwrite, TypeOK, CurInv, SleepLockHeld
  <1>8. ASSUME NEW p \in Proc, Bpin(p) PROVE SleepLockHeld'
    BY <1>0, <1>8, SMTT(30) DEF Bpin, TypeOK, CurInv, SleepLockHeld
  <1>9. ASSUME NEW p \in Proc, ReleaseSleep(p) PROVE SleepLockHeld'
    BY <1>0, <1>9 DEF ReleaseSleep, TypeOK, CurInv, SleepLockHeld
  <1>10. ASSUME NEW p \in Proc, Unref(p) PROVE SleepLockHeld'
    BY <1>0, <1>10 DEF Unref, TypeOK, CurInv, SleepLockHeld
  <1>11. ASSUME UNCHANGED <<lock, pc, cur>> PROVE SleepLockHeld'
    BY <1>0, <1>11 DEF SleepLockHeld
  <1> QED
    BY <1>1, <1>2, <1>3, <1>4, <1>5, <1>6, <1>7, <1>8, <1>9, <1>10, <1>11, ZenonT(20)
    DEF Next, Transfer, Bunpin, cache, BD!Start, BD!Transfer, BD!Finish

\* The users of a buffer are finitely many.
LEMMA UsersFinite ==
  ASSUME Constants, NEW b
  PROVE  IsFiniteSet(Users(b)) /\ Cardinality(Users(b)) \in Nat
  <1>1. Users(b) \in SUBSET Proc
    BY SMTT(20) DEF Users
  <1> QED
    BY <1>1, FS_Subset, FS_CardinalityType DEF Constants

\* Every reference is taken and given up once.
LEMMA RefsStep ==
  ASSUME Constants, CacheInv, Next
  PROVE  RefsCounted'
  <1> USE DEF Goto
  <1>0. TypeOK /\ CurInv /\ RefsCounted
    BY DEF CacheInv
  <1>1. ASSUME NEW p \in Proc, NEW k \in Block, Bget(p, k) PROVE RefsCounted'
    <2>0. p \notin UNION {Users(c) : c \in Buf}
      BY <1>0, <1>1 DEF Bget, CurInv, Users, Constants
    <2>1. CASE Hit(p, k)
      <3>1. PICK b \in Buf : /\ refcnt' = [refcnt EXCEPT ![b] = @ + 1]
                             /\ cur' = [cur EXCEPT ![p] = b]
        BY <2>1, Zenon DEF Hit, Cached
      <3> SUFFICES ASSUME NEW c \in Buf
                   PROVE  refcnt'[c] = Cardinality({q \in Proc : cur'[q] = c})
                                       + (IF c \in pinned' THEN 1 ELSE 0)
        BY DEF RefsCounted, Users
      <3>2. CASE c = b
        <4>1. {q \in Proc : cur'[q] = c} = Users(c) \cup {p}
          BY <1>0, <3>1, <3>2 DEF Users, TypeOK
        <4>2. Cardinality(Users(c) \cup {p}) = Cardinality(Users(c)) + 1
          BY <2>0, UsersFinite, FS_AddElement, Zenon
        <4>3. Cardinality(Users(c)) \in Nat
          BY UsersFinite, ZenonT(20)
        <4>4. refcnt'[c] = refcnt[c] + 1 /\ pinned' = pinned
          BY <1>0, <1>1, <3>1, <3>2 DEF TypeOK, Bget
        <4>5. refcnt[c] = Cardinality(Users(c)) + (IF c \in pinned THEN 1 ELSE 0)
          BY <1>0 DEF RefsCounted
        <4> QED
          BY <4>1, <4>2, <4>3, <4>4, <4>5
      <3>3. CASE c # b
        <4>1. {q \in Proc : cur'[q] = c} = Users(c)
          BY <1>0, <2>0, <3>1, <3>3 DEF Users, TypeOK
        <4> QED
          BY <1>0, <1>1, <3>1, <3>3, <4>1, Zenon DEF RefsCounted, TypeOK, Bget
      <3> QED
        BY <3>2, <3>3
    <2>2. CASE Miss(p, k)
      <3> DEFINE v == Victim
      <3>1. /\ v \in Buf /\ v \notin pinned /\ \A q \in Proc : cur[q] # v
            /\ refcnt' = [refcnt EXCEPT ![v] = 1] /\ cur' = [cur EXCEPT ![p] = v]
        BY <2>2, MissFacts DEF Miss
      <3> HIDE DEF v
      <3> SUFFICES ASSUME NEW c \in Buf
                   PROVE  refcnt'[c] = Cardinality({q \in Proc : cur'[q] = c})
                                       + (IF c \in pinned' THEN 1 ELSE 0)
        BY DEF RefsCounted, Users
      <3>2. CASE c = v
        <4>1. {q \in Proc : cur'[q] = c} = {p}
          BY <1>0, <3>1, <3>2 DEF TypeOK
        <4>2. Cardinality({p}) = 1
          BY FS_Singleton
        <4>3. refcnt'[c] = 1 /\ c \notin pinned'
          BY <1>0, <1>1, <3>1, <3>2, SMTT(20) DEF TypeOK, Bget
        <4> QED
          BY <4>1, <4>2, <4>3
      <3>3. CASE c # v
        <4>1. {q \in Proc : cur'[q] = c} = Users(c)
          BY <1>0, <2>0, <3>1, <3>3, SMTT(30) DEF Users, TypeOK
        <4> QED
          BY <1>0, <1>1, <3>1, <3>3, <4>1, Zenon DEF RefsCounted, TypeOK, Bget
      <3> QED
        BY <3>2, <3>3
    <2> QED
      BY <1>1, <2>1, <2>2 DEF Bget
  <1>2. ASSUME NEW p \in Proc, Bpin(p) PROVE RefsCounted'
    <2>1. \A c \in Buf : Cardinality(Users(c)) \in Nat
      BY UsersFinite, SMTT(30)
    <2> QED
      BY <1>0, <1>2, <2>1 DEF Bpin, RefsCounted, Users, TypeOK
  <1>3. ASSUME NEW p \in Proc, Bunpin(p) PROVE RefsCounted'
    <2>1. \A c \in Buf : Cardinality(Users(c)) \in Nat
      BY UsersFinite
    <2> QED
      BY <1>0, <1>3, <2>1 DEF Bunpin, RefsCounted, Users, TypeOK
  <1>4. ASSUME NEW p \in Proc, Unref(p) PROVE RefsCounted'
    <2> DEFINE b == cur[p]
    <2>1. b \in Buf /\ p \in Users(b)
      BY <1>0, <1>4 DEF Unref, CurInv, Users
    <2> SUFFICES ASSUME NEW c \in Buf
                 PROVE  refcnt'[c] = Cardinality({q \in Proc : cur'[q] = c})
                                     + (IF c \in pinned' THEN 1 ELSE 0)
      BY DEF RefsCounted, Users
    <2>2. CASE c = b
      <3>1. {q \in Proc : cur'[q] = c} = Users(c) \ {p}
        BY <1>0, <1>4, <2>2 DEF Unref, Users, TypeOK, Constants
      <3>2. Cardinality(Users(c) \ {p}) = Cardinality(Users(c)) - 1
        BY <2>1, <2>2, UsersFinite, FS_RemoveElement, Zenon
      <3>3. Cardinality(Users(c)) \in Nat
        BY UsersFinite
      <3>4. refcnt'[c] = refcnt[c] - 1 /\ pinned' = pinned
        BY <1>0, <1>4, <2>1, <2>2 DEF TypeOK, Unref
      <3>5. refcnt[c] = Cardinality(Users(c)) + (IF c \in pinned THEN 1 ELSE 0)
        BY <1>0 DEF RefsCounted
      <3>6. Cardinality({q \in Proc : cur'[q] = c}) = Cardinality(Users(c)) - 1
        BY <3>1, <3>2
      <3> QED
        BY <3>3, <3>4, <3>5, <3>6, SMTT(30)
    <2>3. CASE c # b
      <3>1. {q \in Proc : cur'[q] = c} = Users(c)
        BY <1>0, <1>4, <2>3 DEF Unref, Users, TypeOK, Constants
      <3> QED
        BY <1>0, <1>4, <2>3, <3>1, Zenon DEF RefsCounted, TypeOK, Unref
    <2> QED
      BY <2>2, <2>3
  <1>5. ASSUME UNCHANGED <<refcnt, cur, pinned>> PROVE RefsCounted'
    BY <1>0, <1>5, SMTT(20) DEF RefsCounted, Users
  <1> QED
    BY <1>1, <1>2, <1>3, <1>4, <1>5, Zenon DEF Next, AcquireSleeps, Acquire,
        Killed, Transfer, RequestDone, Change, Bwrite, ReleaseSleep, cache,
        BD!Start, BD!Transfer, BD!Finish

\* The log pins MaxPin buffers at most.
LEMMA PinStep ==
  ASSUME Constants, CacheInv, Next
  PROVE  PinInv'
  <1> USE DEF Goto
  <1>0. TypeOK /\ CurInv /\ PinInv
    BY DEF CacheInv
  <1>1. ASSUME NEW p \in Proc, Bpin(p) PROVE PinInv'
    <2>1. IsFiniteSet(pinned) /\ Cardinality(pinned) \in Nat
      BY <1>0, FS_Subset, FS_CardinalityType DEF TypeOK, Constants
    <2>2. CASE cur[p] \in pinned
      <3>1. pinned' = pinned
        BY <1>1, <2>2 DEF Bpin
      <3> QED
        BY <1>0, <3>1 DEF PinInv
    <2>3. CASE cur[p] \notin pinned
      <3>1. Cardinality(pinned') = Cardinality(pinned) + 1 /\ Cardinality(pinned) < MaxPin
        BY <1>1, <2>1, <2>3, FS_AddElement, Zenon DEF Bpin
      <3> QED
        BY <2>1, <3>1 DEF PinInv, Constants
    <2> QED
      BY <2>2, <2>3
  <1>2. ASSUME NEW p \in Proc, Bunpin(p) PROVE PinInv'
    <2>1. IsFiniteSet(pinned) /\ Cardinality(pinned) \in Nat
      BY <1>0, FS_Subset, FS_CardinalityType DEF TypeOK, Constants
    <2>2. Cardinality(pinned') = Cardinality(pinned) - 1
      BY <1>2, <2>1, FS_RemoveElement, ZenonT(40) DEF Bunpin
    <2> QED
      BY <1>0, <2>1, <2>2 DEF PinInv, Constants
  <1>3. ASSUME UNCHANGED pinned PROVE PinInv'
    BY <1>0, <1>3 DEF PinInv
  <1> QED
    BY <1>1, <1>2, <1>3, Zenon DEF Next, Bget, AcquireSleeps, Acquire, Killed,
        Transfer, RequestDone, Change, Bwrite, ReleaseSleep, Unref, Hit, Miss,
        cache, BD!Start, BD!Transfer, BD!Finish

\* A request is made, carried out and ended for one holder of the lock.
LEMMA ReqStep ==
  ASSUME Constants, CacheInv, Next
  PROVE  ReqInv'
  <1> USE DEF Goto
  <1>0. TypeOK /\ CurInv /\ LockInv /\ ReqInv
    BY ZenonT(20) DEF CacheInv
  <1>1. ASSUME NEW p \in Proc, NEW k \in Block, Bget(p, k) PROVE ReqInv'
    <2>1. /\ pc[p] = "out" /\ pc' = [pc EXCEPT ![p] = "acq"] /\ UNCHANGED <<lock, req, moved>>
          /\ \A q \in Proc \ {p} : cur'[q] = cur[q]
      BY <1>0, <1>1 DEF Bget, Hit, Miss, TypeOK
    <2>2. /\ pc'[p] = "acq"
          /\ \A q \in Proc \ {p} : pc'[q] = pc[q] /\ cur'[q] = cur[q] /\ want'[q] = want[q]
      BY <1>0, <1>1, <2>1, ZenonT(20) DEF Bget, TypeOK
    <2>3. \A b \in Buf : lock[b] # p
      <3>1. p # Nil /\ ~HasLock(p)
        BY <2>1, ZenonT(20) DEF HasLock, Constants
      <3>2. \A b \in Buf : lock[b] # Nil => HasLock(lock[b])
        BY <1>0, ZenonT(20) DEF LockInv
      <3> QED
        BY <3>1, <3>2, ZenonT(20)
    <2> QED
      BY <1>0, <2>1, <2>2, <2>3 DEF ReqInv, TypeOK
  <1>2. ASSUME NEW p \in Proc, AcquireSleeps(p) PROVE ReqInv'
    BY <1>0, <1>2, SMTT(20) DEF AcquireSleeps, TypeOK, CurInv, LockInv,
        HasLock, ReqInv, Constants
  <1>3. ASSUME NEW p \in Proc, Acquire(p) PROVE ReqInv'
    <2>1. CASE valid[cur[p]]
      BY <1>0, <1>3, <2>1 DEF Acquire, TypeOK, CurInv, LockInv, HasLock,
          ReqInv, Constants
    <2>2. CASE ~valid[cur[p]]
      <3> DEFINE b == cur[p]
      <3>1. /\ b \in Buf /\ blockno[b] = want[p] /\ lock[b] = Nil /\ req[b] = BD!None
            /\ lock' = [lock EXCEPT ![b] = p] /\ pc' = [pc EXCEPT ![p] = "reading"]
            /\ req' = [req EXCEPT ![b] = [op |-> "read", blk |-> want[p]]]
            /\ moved' = moved /\ cur' = cur /\ want' = want
        BY <1>0, <1>3, <2>2, ZenonT(20) DEF Acquire, BD!Start, CurInv
      <3> HIDE DEF b
      <3>2. ASSUME NEW q \in Proc, pc'[q] \in {"reading", "writing"}, q # p
            PROVE  cur[q] # b /\ pc[q] = pc'[q]
        BY <1>0, <3>1, <3>2 DEF TypeOK, LockInv, HasLock, Constants
      <3>3. cur[p] = b
        BY ZenonT(20) DEF b
      <3>4. ASSUME NEW q \in Proc
            PROVE  /\ pc'[q] = "reading" => req'[cur'[q]] = [op |-> "read", blk |-> want'[q]]
                   /\ pc'[q] = "writing" => req'[cur'[q]] = [op |-> "write", blk |-> want'[q]]
        BY <1>0, <3>1, <3>2, <3>3, ZenonT(20) DEF TypeOK, CurInv, ReqInv
      <3>5. ASSUME NEW c \in Buf
            PROVE  /\ req'[c] # BD!None => lock'[c] # Nil /\ pc'[lock'[c]] \in {"reading", "writing"}
                   /\ moved'[c] \in {BD!None, req'[c]}
        BY <1>0, <3>1, <3>3, SMTT(20) DEF TypeOK, ReqInv, LockInv, Constants
      <3> QED
        BY <3>4, <3>5, ZenonT(20) DEF ReqInv
    <2> QED
      BY <2>1, <2>2
  <1>4. ASSUME NEW p \in Proc, Killed(p) PROVE ReqInv'
    BY <1>0, <1>4, SMTT(20) DEF Killed, TypeOK, CurInv, LockInv, HasLock,
        ReqInv, Constants
  <1>5. ASSUME NEW b \in Buf, Transfer(b) PROVE ReqInv'
    BY <1>0, <1>5, SMTT(30) DEF Transfer, BD!Transfer, TypeOK, CurInv, LockInv, HasLock,
        ReqInv, Constants
  <1>6. ASSUME NEW p \in Proc, RequestDone(p) PROVE ReqInv'
    BY <1>0, <1>6, SMTT(30) DEF RequestDone, BD!Finish, TypeOK, CurInv, LockInv, HasLock,
        ReqInv, Constants
  <1>7. ASSUME NEW p \in Proc, Change(p) PROVE ReqInv'
    BY <1>0, <1>7, SMTT(20) DEF Change, TypeOK, CurInv, LockInv, HasLock,
        ReqInv, Constants
  <1>8. ASSUME NEW p \in Proc, Bwrite(p) PROVE ReqInv'
    BY <1>0, <1>8, SMTT(20) DEF Bwrite, BD!Start, BD!None, TypeOK, CurInv,
        LockInv, HasLock, ReqInv, Constants
  <1>9. ASSUME NEW p \in Proc, Bpin(p) PROVE ReqInv'
    BY <1>0, <1>9, SMTT(20) DEF Bpin, TypeOK, CurInv, LockInv, HasLock, ReqInv,
        Constants
  <1>10. ASSUME NEW p \in Proc, ReleaseSleep(p) PROVE ReqInv'
    BY <1>0, <1>10, SMTT(20) DEF ReleaseSleep, TypeOK, CurInv, LockInv,
        HasLock, ReqInv, Constants
  <1>11. ASSUME NEW p \in Proc, Unref(p) PROVE ReqInv'
    BY <1>0, <1>11, SMTT(20) DEF Unref, TypeOK, CurInv, LockInv, HasLock,
        ReqInv, Constants
  <1>12. ASSUME UNCHANGED <<req, moved, lock, pc, cur, want>> PROVE ReqInv'
    BY <1>0, <1>12, ZenonT(20) DEF ReqInv
  <1> QED
    BY <1>1, <1>2, <1>3, <1>4, <1>5, <1>6, <1>7, <1>8, <1>9, <1>10, <1>11,
        <1>12, Zenon
    DEF Next, Bunpin, cache, BD!Start, BD!Transfer, BD!Finish

\* What the device does to a buffer and to the disk, when it is at it.
Read(b) ==
  /\ pc[lock[b]] = "reading" /\ ~valid[b]
  /\ data' = [data EXCEPT ![b] = TRUE] /\ disk' = disk

Write(b) ==
  /\ pc[lock[b]] = "writing" /\ blockno[b] \in Block
  /\ disk' = [disk EXCEPT ![blockno[b]] = TRUE] /\ data' = data

\* A read finds the latest version on the disk, since no buffer with a later
\* one can be another buffer; a write leaves it there.
LEMMA TransferFacts ==
  ASSUME Constants, CacheInv, NEW b \in Buf, Transfer(b)
  PROVE  /\ lock[b] \in Proc /\ cur[lock[b]] = b
         /\ moved' = [moved EXCEPT ![b] = req[b]]
         /\ UNCHANGED <<blockno, valid, pinned, pc, cur>>
         /\ Read(b) \/ Write(b)
  <1>0. /\ TypeOK /\ CurInv /\ LockInv /\ OneBuffer
        /\ ReqInv /\ DataInv /\ DiskInv
    BY ZenonT(20) DEF CacheInv
  <1>1. lock[b] \in Proc /\ cur[lock[b]] = b /\ pc[lock[b]] \in {"reading", "writing"}
    <2>1. req[b] # BD!None
      BY ZenonT(20) DEF Transfer, BD!Transfer
    <2>2. lock[b] # Nil /\ pc[lock[b]] \in {"reading", "writing"}
      BY <1>0, <2>1, ZenonT(20) DEF ReqInv
    <2>3. lock[b] \in Proc
      BY <1>0, <2>2, ZenonT(20) DEF TypeOK
    <2> QED
      BY <1>0, <2>2, <2>3, ZenonT(20) DEF LockInv
  <1>2. ASSUME pc[lock[b]] = "reading" PROVE Read(b)
    <2>0. req[b] = [op |-> "read", blk |-> want[lock[b]]]
      BY <1>0, <1>1, <1>2, ZenonT(40) DEF ReqInv
    <2>a. blockno[b] \in Block /\ blockno[b] = want[lock[b]] /\ ~valid[b]
      BY <1>0, <1>1, <1>2, ZenonT(20) DEF CurInv, DataInv
    <2>1. req[b].op = "read" /\ req[b].blk = blockno[b] /\ blockno[b] \in Block /\ ~valid[b]
      BY <2>0, <2>a, SMTT(30)
    <2>2. disk[blockno[b]]
      BY <1>0, <2>1 DEF DiskInv, OneBuffer, Constants
    <2>3. disk[blockno[b]] = TRUE
      BY <1>0, <2>1, <2>2, ZenonT(20) DEF TypeOK
    <2>4. data' = [data EXCEPT ![b] = disk[blockno[b]]] /\ disk' = disk
      BY <2>1 DEF Transfer
    <2> QED
      BY <1>2, <2>1, <2>3, <2>4, Zenon DEF Read
  <1>3. ASSUME pc[lock[b]] = "writing" PROVE Write(b)
    <2>0. req[b] = [op |-> "write", blk |-> want[lock[b]]]
      BY <1>0, <1>1, <1>3, Zenon DEF ReqInv
    <2>a. blockno[b] \in Block /\ blockno[b] = want[lock[b]]
      BY <1>0, <1>1, <1>3, SMTT(30) DEF CurInv
    <2>b. data[b] = TRUE
      BY <1>0, <1>1, <1>3, SMTT(20) DEF DataInv, Holds, TypeOK
    <2>1. req[b].op = "write" /\ req[b].blk = blockno[b]
      BY <2>0, <2>a
    <2>2. disk' = [disk EXCEPT ![blockno[b]] = data[b]] /\ data' = data
      BY <2>1, SMTT(20) DEF Transfer
    <2> QED
      BY <1>3, <2>a, <2>b, <2>2, Zenon DEF Write
  <1> QED
    BY <1>1, <1>2, <1>3, Zenon DEF Transfer, BD!Transfer, cache

\* A buffer that is marked valid has the latest version: the disk had it when
\* the buffer was read, and no other buffer of the block can be changed.
LEMMA DataStep ==
  ASSUME Constants, CacheInv, Next
  PROVE  DataInv'
  <1> USE DEF Goto
  <1>0. TypeOK /\ CurInv /\ LockInv /\ OneBuffer /\ ReqInv /\ DataInv /\ DiskInv
    BY SMTT(20), ZenonT(20) DEF CacheInv
  <1>1. ASSUME NEW p \in Proc, NEW k \in Block, Bget(p, k) PROVE DataInv'
    <2>1. CASE Hit(p, k)
      BY <1>0, <1>1, <2>1, SMTT(20) DEF Bget, Hit, Cached, TypeOK, CurInv,
          DataInv, Holds
    <2>2. CASE Miss(p, k)
      BY <1>0, <1>1, <2>2, MissFacts, ZenonT(20) DEF Bget, Miss, TypeOK, CurInv,
          DataInv, Holds
    <2> QED
      BY <1>1, <2>1, <2>2 DEF Bget
  <1>2. ASSUME NEW p \in Proc, AcquireSleeps(p) PROVE DataInv'
    BY <1>0, <1>2, ZenonT(20) DEF AcquireSleeps, TypeOK, CurInv, DataInv, Holds
  <1>3. ASSUME NEW p \in Proc, Acquire(p) PROVE DataInv'
    <2>1. CASE valid[cur[p]]
      BY <1>0, <1>3, <2>1, ZenonT(20) DEF Acquire, TypeOK, CurInv, DataInv, Holds
    <2>2. CASE ~valid[cur[p]]
      BY <1>0, <1>3, <2>2, SMTT(20) DEF Acquire, BD!Start, ReqInv, TypeOK,
          CurInv, DataInv, Holds
    <2> QED
      BY <2>1, <2>2
  <1>4. ASSUME NEW p \in Proc, Killed(p) PROVE DataInv'
    BY <1>0, <1>4 DEF Killed, TypeOK, CurInv, DataInv, Holds
  <1>5. ASSUME NEW b \in Buf, Transfer(b) PROVE DataInv'
    <2>1. CASE Read(b)
      BY <1>0, <1>5, <2>1, TransferFacts, SMTT(20) DEF Read, LockInv, HasLock,
          TypeOK, CurInv, DataInv, Holds
    <2>2. CASE Write(b)
      BY <1>0, <1>5, <2>2, TransferFacts, SMTT(20) DEF Write, LockInv, HasLock,
          TypeOK, CurInv, DataInv, Holds
    <2> QED
      BY <1>5, <2>1, <2>2, TransferFacts, ZenonT(20)
  <1>6. ASSUME NEW p \in Proc, RequestDone(p) PROVE DataInv'
    BY <1>0, <1>6, SMTT(20) DEF RequestDone, BD!Finish, LockInv, HasLock,
        Constants, TypeOK, CurInv, DataInv, Holds
  <1>7. ASSUME NEW p \in Proc, Change(p) PROVE DataInv'
    BY <1>0, <1>7 DEF Change, OneBuffer, Constants, TypeOK, CurInv, DataInv, Holds
  <1>8. ASSUME NEW p \in Proc, Bwrite(p) PROVE DataInv'
    BY <1>0, <1>8, ZenonT(20) DEF Bwrite, BD!Start, TypeOK, CurInv, DataInv, Holds
  <1>9. ASSUME NEW p \in Proc, Bpin(p) PROVE DataInv'
    BY <1>0, <1>9, ZenonT(20) DEF Bpin, TypeOK, CurInv, DataInv, Holds
  <1>10. ASSUME NEW p \in Proc, ReleaseSleep(p) PROVE DataInv'
    BY <1>0, <1>10, ZenonT(20) DEF ReleaseSleep, TypeOK, CurInv, DataInv, Holds
  <1>11. ASSUME NEW p \in Proc, Unref(p) PROVE DataInv'
    BY <1>0, <1>11, ZenonT(20) DEF Unref, TypeOK, CurInv, DataInv, Holds
  <1>12. ASSUME UNCHANGED <<valid, data, moved, pc, cur>> PROVE DataInv'
    BY <1>0, <1>12, ZenonT(20) DEF DataInv, Holds
  <1> QED
    BY <1>1, <1>2, <1>3, <1>4, <1>5, <1>6, <1>7, <1>8, <1>9, <1>10, <1>11,
        <1>12, Zenon
    DEF Next, Bunpin, cache, BD!Start, BD!Transfer, BD!Finish

\* A version that is not on the disk is never lost with its buffer.
LEMMA DiskStep ==
  ASSUME Constants, CacheInv, Next
  PROVE  DiskInv'
  <1> USE DEF Goto
  <1>0. TypeOK /\ CurInv /\ LockInv /\ OneBuffer /\ ReqInv /\ DataInv /\ DiskInv
    BY DEF CacheInv
  <1>1. ASSUME NEW p \in Proc, NEW k \in Block, Bget(p, k) PROVE DiskInv'
    <2>1. CASE Hit(p, k)
      BY <1>0, <1>1, <2>1, SMTT(20) DEF Bget, Hit, Cached, TypeOK, CurInv,
          DiskInv, ToWrite
    <2>2. CASE Miss(p, k)
      BY <1>0, <1>1, <2>2, MissFacts, SMTT(20) DEF Bget, Miss, TypeOK, CurInv,
          DiskInv, ToWrite
    <2> QED
      BY <1>1, <2>1, <2>2 DEF Bget
  <1>2. ASSUME NEW p \in Proc, AcquireSleeps(p) PROVE DiskInv'
    BY <1>0, <1>2, SMTT(20) DEF AcquireSleeps, cache, TypeOK, CurInv, DiskInv, ToWrite
  <1>3. ASSUME NEW p \in Proc, Acquire(p) PROVE DiskInv'
    BY <1>0, <1>3, SMTT(20) DEF Acquire, cache, BD!Start, TypeOK, CurInv,
        DiskInv, ToWrite
  <1>4. ASSUME NEW p \in Proc, Killed(p) PROVE DiskInv'
    BY <1>0, <1>4 DEF Killed, cache, TypeOK, CurInv, DiskInv, ToWrite
  <1>5. ASSUME NEW b \in Buf, Transfer(b) PROVE DiskInv'
    <2>1. CASE Read(b)
      BY <1>0, <1>5, <2>1, TransferFacts, SMTT(20) DEF Read, LockInv, HasLock,
          TypeOK, CurInv, DiskInv, ToWrite
    <2>2. CASE Write(b)
      BY <1>0, <1>5, <2>2, TransferFacts, SMTT(20) DEF Write, LockInv, HasLock,
          TypeOK, CurInv, DiskInv, ToWrite
    <2> QED
      BY <1>5, <2>1, <2>2, TransferFacts, ZenonT(20)
  <1>6. ASSUME NEW p \in Proc, RequestDone(p) PROVE DiskInv'
    BY <1>0, <1>6, SMTT(20) DEF RequestDone, cache, BD!Finish, TypeOK, CurInv,
        DiskInv, ToWrite
  <1>7. ASSUME NEW p \in Proc, Change(p) PROVE DiskInv'
    BY <1>0, <1>7, SMTT(20) DEF Change, cache, DataInv, Holds, TypeOK, CurInv,
        DiskInv, ToWrite
  <1>8. ASSUME NEW p \in Proc, Bwrite(p) PROVE DiskInv'
    BY <1>0, <1>8, SMTT(60) DEF Bwrite, cache, BD!Start, ReqInv, LockInv,
        HasLock, TypeOK, CurInv, DiskInv, ToWrite
  <1>9. ASSUME NEW p \in Proc, Bpin(p) PROVE DiskInv'
    BY <1>0, <1>9, SMTT(30) DEF Bpin, TypeOK, CurInv, DiskInv, ToWrite
  <1>10. ASSUME NEW p \in Proc, Bunpin(p) PROVE DiskInv'
    BY <1>0, <1>10, SMTT(20) DEF Bunpin, TypeOK, CurInv, DiskInv, ToWrite
  <1>11. ASSUME NEW p \in Proc, ReleaseSleep(p) PROVE DiskInv'
    BY <1>0, <1>11, SMTT(20) DEF ReleaseSleep, cache, TypeOK, CurInv, DiskInv, ToWrite
  <1>12. ASSUME NEW p \in Proc, Unref(p) PROVE DiskInv'
    BY <1>0, <1>12, SMTT(20) DEF Unref, TypeOK, CurInv, DiskInv, ToWrite
  <1>13. ASSUME UNCHANGED <<disk, blockno, valid, pinned, moved, pc, cur>> PROVE DiskInv'
    BY <1>0, <1>13, SMTT(60) DEF DiskInv, ToWrite
  <1> QED
    BY <1>1, <1>2, <1>3, <1>4, <1>5, <1>6, <1>7, <1>8, <1>9, <1>10, <1>11,
        <1>12, <1>13
    DEF Next, cache, BD!Start, BD!Transfer, BD!Finish

\* The initial state.
LEMMA InitInv ==
  ASSUME Constants, Init
  PROVE  CacheInv
  <1> USE DEF Init, BD!Init
  <1>1. TypeOK
    BY DEF TypeOK, PCs
  <1>2. LruInv
    BY AllInList, Zenon DEF LruInv, Constants
  <1>3. RefsCounted
    <2>1. \A b \in Buf : Users(b) = {}
      BY DEF Users, Constants
    <2> QED
      BY <2>1, FS_EmptySet, SMTT(30) DEF RefsCounted
  <1>4. PinInv
    BY FS_EmptySet, SMTT(20) DEF PinInv, Constants
  <1>5. CurInv /\ LockInv /\ OneBuffer /\ ReqInv /\ DataInv /\ DiskInv /\ SleepLockHeld
    BY ZenonT(40) DEF CurInv, LockInv, HasLock, OneBuffer, ReqInv, DataInv,
        Holds, DiskInv, SleepLockHeld
  <1> QED
    BY <1>1, <1>2, <1>3, <1>4, <1>5, SMTT(30) DEF CacheInv

\* The steps that change nothing.
LEMMA Stutter ==
  ASSUME CacheInv, UNCHANGED vars
  PROVE  CacheInv'
  <1>1. TypeOK' /\ LruInv' /\ CurInv' /\ OneBuffer' /\ RefsCounted'
    BY DEF CacheInv, vars, cache, TypeOK, LruInv, CurInv, OneBuffer, RefsCounted, Users
  <1>2. LockInv' /\ SleepLockHeld' /\ ReqInv'
    BY ZenonT(20) DEF CacheInv, vars, cache, LockInv, HasLock, SleepLockHeld, ReqInv
  <1>3. DataInv' /\ DiskInv' /\ PinInv'
    BY DEF CacheInv, vars, cache, DataInv, Holds, DiskInv, ToWrite, PinInv
  <1> QED
    BY <1>1, <1>2, <1>3, ZenonT(20) DEF CacheInv

\* The buffer cache keeps its invariant, whatever the processes, the device
\* and the log do.
THEOREM CacheInvariant ==
  ASSUME Constants
  PROVE  Spec => []CacheInv
  <1>1. Init => CacheInv
    BY InitInv
  <1>2. CacheInv /\ [Next]_vars => CacheInv'
    <2>1. ASSUME CacheInv, Next PROVE CacheInv'
      BY <2>1, TypeStep, LruStep, CurStep, LockStep, OneStep, SleepStep,
          RefsStep, PinStep,
         ReqStep, DataStep, DiskStep, Zenon DEF CacheInv
    <2> QED
      BY <2>1, Stutter
  <1> QED
    BY <1>1, <1>2, PTL DEF Spec

\* Whoever bread() returned to holds the only buffer of the block it asked
\* for, with what the last writer of the block left in it.
THEOREM CacheCoherent ==
  ASSUME Constants
  PROVE  Spec => []Coherent
  <1>1. CacheInv => Coherent
    BY DEF CacheInv, Coherent, LockInv, HasLock, CurInv, DataInv, Holds, TypeOK
  <1> QED
    BY <1>1, CacheInvariant, PTL

\* b->refcnt counts the users of a buffer and the log's pin, and bget() panics
\* only when each buffer has one of these: its scan of the list passes every
\* buffer, and one that it passes over is in use.
THEOREM PanicOnlyWhenFull ==
  ASSUME Constants
  PROVE  Spec => []BgetFinds
  <1>1. CacheInv => RefsCounted
    BY DEF CacheInv
  <1>2. ASSUME CacheInv PROVE PanicMeansFull
    <2> SUFFICES ASSUME Unused = {}, NEW b \in Buf, b \notin pinned
                 PROVE  Users(b) # {}
      BY ZenonT(20) DEF PanicMeansFull, NoBuffers
    <2>0. TypeOK /\ LruInv /\ RefsCounted
      BY <1>2 DEF CacheInv
    <2>1. PICK n \in 1..Cardinality(Buf) : lru[n] = b
      BY <2>0, SMTT(30) DEF LruInv
    <2>2. refcnt[b] # 0
      BY <2>0, <2>1, SMTT(30) DEF Unused, LruInv
    <2>3. Cardinality(Users(b)) # 0
      BY <2>0, <2>2, UsersFinite, SMTT(30) DEF RefsCounted
    <2> QED
      BY <2>3, FS_EmptySet, SMTT(30)
  <1>3. CacheInv => BgetFinds
    BY <1>1, <1>2 DEF BgetFinds
  <1> QED
    BY <1>3, CacheInvariant, PTL

\* Who sleeps in acquiresleep() waits for a process that holds the lock.
THEOREM NoLostRelease ==
  ASSUME Constants
  PROVE  Spec => []SleepLockHeld
  <1>1. CacheInv => SleepLockHeld
    BY DEF CacheInv
  <1> QED
    BY <1>1, CacheInvariant, PTL

=============================================================================
