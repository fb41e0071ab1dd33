----------------------------- MODULE DeviceProofs -----------------------------
(***************************************************************************)
(* Proofs about the disk driver (Virtio), for any number of buffers and    *)
(* any size of the rings, and about the clock (Clock), for every set of    *)
(* callers of sleep() and every range of ticks.                            *)
(***************************************************************************)
EXTENDS Virtio, Clock, Modular, TLAPS

-----------------------------------------------------------------------------
(* The two rings of the disk *)

\* What the code's sizes satisfy (NUM is 8, the indices are uint16), and
\* that buffers, descriptors and Nil are different things.
Constants ==
  /\ Divides(NUM, UINT16)
  /\ Nil \notin Desc \cup Buf
  /\ "none" \notin Buf /\ "intr" \notin Buf

\* A descriptor without a request is marked as such.
LEMMA NoArgIsNoRequest == NoArg \notin Request
  BY SMTT(30) DEF Request, NoArg

\* A slot of the ring.
LEMMA SlotType ==
  ASSUME Constants, NEW x \in Int
  PROVE  x % NUM \in Desc
  BY DivMod DEF Constants, Divides, Desc

\* The slot of the lower counter is in use unless the counters are equal.
LEMMA LiveFirst ==
  ASSUME Constants, NEW f, NEW lo \in 0..(UINT16 - 1), NEW hi \in 0..(UINT16 - 1),
         Live(f, lo, hi), lo # hi
  PROVE  f[lo % NUM] # Nil
  <1>1. UINT16 \in Nat \ {0} /\ NUM \in Nat \ {0}
    BY DEF Constants, Divides
  <1>2. 0 < (hi - lo) % UINT16
    BY <1>1, AheadIs DEF Ahead
  <1>3. 0 \in 0..(NUM - 1) /\ lo + 0 = lo
    BY <1>1
  <1> QED
    BY <1>2, <1>3 DEF Live

\* Where a slot is not in use, the one of the upper counter is not; an entry
\* put there comes last.
LEMMA LivePut ==
  ASSUME Constants, NEW f \in [Desc -> Desc \cup {Nil}],
         NEW lo \in 0..(UINT16 - 1), NEW hi \in 0..(UINT16 - 1),
         Live(f, lo, hi), NEW s \in Desc, f[s] = Nil, NEW v \in Desc
  PROVE  /\ f[hi % NUM] = Nil /\ hi % NUM \in Desc
         /\ Live([f EXCEPT ![hi % NUM] = v], lo, BumpIdx(hi)) /\ lo # BumpIdx(hi)
  <1> DEFINE a == Ahead(lo, hi, UINT16)
             h == BumpIdx(hi)
             g == [f EXCEPT ![hi % NUM] = v]
  <1>0. /\ UINT16 \in Nat \ {0} /\ NUM \in Nat \ {0} /\ NUM < UINT16 /\ lo \in Int /\ v # Nil
        /\ Divides(NUM, UINT16) /\ Desc = 0..(NUM - 1)
    BY DEF Constants, Divides, Desc
  <1>1. a \in Nat /\ a <= NUM /\ \A k \in Desc : f[(lo + k) % NUM] # Nil <=> k < a
    BY <1>0, AheadIs DEF Live, Ahead
  <1> HIDE DEF a
  <1>2. PICK k \in Desc : (lo + k) % NUM = s
    BY <1>0, SlotsAll, ZenonT(40)
  <1>3. a \in Desc
    <2>1. ~(k < a) /\ k \in 0..(NUM - 1)
      BY <1>0, <1>1, <1>2, SMTT(30)
    <2>2. a \in 0..(NUM - 1)
      BY <1>0, <1>1, <2>1
    <2> QED
      BY <1>0, <2>2
  <1>4. hi % NUM = (lo + a) % NUM
    BY <1>0, SlotOfHigh, SMTT(30) DEF a
  <1>5. f[hi % NUM] = Nil /\ hi % NUM \in Desc
    <2>1. ~(a < a) /\ hi \in Int
      BY <1>0, <1>1
    <2> QED
      BY <1>1, <1>3, <1>4, <2>1, SlotType
  <1>6. Ahead(lo, h, UINT16) = a + 1
    BY <1>0, <1>3, AheadPut, SMTT(30) DEF a, BumpIdx, Bumped
  <1>7. ASSUME NEW j \in Desc PROVE g[(lo + j) % NUM] # Nil <=> j < a + 1
    <2>0. lo + j \in Int
      BY <1>0
    <2>1. (lo + j) % NUM \in Desc
      BY <2>0, SlotType
    <2>2. CASE j = a
      BY <1>0, <1>1, <1>4, <1>5, <2>2, SMTT(30)
    <2>3. CASE j # a
      <3>1. (lo + j) % NUM # (lo + a) % NUM
        BY <1>0, <1>3, <2>3, SlotsDiffer, Zenon
      <3>2. g[(lo + j) % NUM] = f[(lo + j) % NUM]
        BY <1>4, <1>5, <2>1, <3>1
      <3>3. j < a + 1 <=> j < a
        BY <1>0, <1>1, <2>3
      <3> QED
        BY <1>1, <3>2, <3>3, SMTT(30)
    <2> QED
      BY <2>2, <2>3
  <1>8. lo # h
    <2>1. h \in 0..(UINT16 - 1)
      BY <1>0, BumpedIs DEF BumpIdx, Bumped
    <2>2. lo = h => Ahead(lo, h, UINT16) = 0
      <3> HIDE DEF h
      <3> QED
        BY <1>0, <2>1, AheadIs, SMTT(30)
    <2> QED
      BY <1>1, <1>6, <2>2
  <1>9. Live(g, lo, h)
    <2>1. a + 1 <= NUM
      BY <1>0, <1>3
    <2> HIDE DEF g, h
    <2>2. (h - lo) % UINT16 = a + 1
      BY <1>6 DEF Ahead
    <2> QED
      BY <1>0, <1>7, <2>1, <2>2 DEF Live
  <1> QED
    BY <1>5, <1>8, <1>9

\* When the first entry is taken the others come first.
LEMMA LiveTake ==
  ASSUME Constants, NEW f \in [Desc -> Desc \cup {Nil}],
         NEW lo \in 0..(UINT16 - 1), NEW hi \in 0..(UINT16 - 1), Live(f, lo, hi), lo # hi
  PROVE  Live([f EXCEPT ![lo % NUM] = Nil], BumpIdx(lo), hi)
  <1> DEFINE a == Ahead(lo, hi, UINT16)
             l == BumpIdx(lo)
             g == [f EXCEPT ![lo % NUM] = Nil]
  <1>0. /\ UINT16 \in Nat \ {0} /\ NUM \in Nat \ {0} /\ lo \in Int
        /\ Divides(NUM, UINT16) /\ Desc = 0..(NUM - 1) /\ lo % NUM \in Desc
    BY SlotType DEF Constants, Divides, Desc
  <1>1. a \in Nat /\ a <= NUM /\ \A k \in Desc : f[(lo + k) % NUM] # Nil <=> k < a
    BY <1>0, AheadIs, SMTT(30) DEF Live, Ahead
  <1>2. Ahead(l, hi, UINT16) = a - 1
    BY <1>0, AheadTake DEF BumpIdx, Bumped
  <1>3. a # 0
    <2>1. a = IF lo <= hi THEN hi - lo ELSE hi - lo + UINT16
      BY <1>0, AheadIs
    <2> HIDE DEF a
    <2> QED
      BY <1>0, <2>1
  <1> HIDE DEF a
  <1>4. ASSUME NEW k \in Desc PROVE g[(l + k) % NUM] # Nil <=> k < a - 1
    <2>0. k \in Int /\ k \in 0..(NUM - 1)
      BY <1>0
    <2>1. (l + k) % NUM = (lo + (k + 1)) % NUM
      BY <1>0, <2>0, SlotOfNext, ZenonT(40) DEF BumpIdx, Bumped
    <2>2. CASE k = NUM - 1
      <3>1. (lo + (k + 1)) % NUM = lo % NUM
        <4>1. lo + (k + 1) = lo + NUM * 1
          BY <1>0, <2>2
        <4>2. \A q \in Int : (lo + NUM * q) % NUM = lo % NUM
          BY <1>0, ModAdd, Zenon
        <4> QED
          BY <4>1, <4>2
      <3> QED
        BY <1>0, <1>1, <2>1, <2>2, <3>1
    <2>3. CASE k # NUM - 1
      <3>1. k + 1 \in Desc /\ 0 \in Desc /\ k + 1 # 0 /\ lo + 0 = lo
        BY <1>0, <2>3
      <3>2. (lo + (k + 1)) % NUM # lo % NUM
        BY <1>0, <3>1, SlotsDiffer, ZenonT(40)
      <3>3. (lo + (k + 1)) % NUM \in Desc
        <4>1. lo + (k + 1) \in Int
          BY <1>0, <2>0
        <4> QED
          BY <4>1, SlotType
      <3>4. g[(l + k) % NUM] = f[(lo + (k + 1)) % NUM]
        BY <1>0, <2>1, <3>2, <3>3, SMTT(30)
      <3>5. k + 1 < a <=> k < a - 1
        BY <1>0, <1>1, SMTT(30)
      <3> QED
        BY <1>1, <3>1, <3>4, <3>5, SMTT(30)
    <2> QED
      BY <2>2, <2>3
  <1>5. Live(g, l, hi)
    <2>1. a - 1 <= NUM
      BY <1>0, <1>1, SMTT(30)
    <2> HIDE DEF g, l
    <2>2. (hi - l) % UINT16 = a - 1
      BY <1>2 DEF Ahead
    <2> QED
      BY <1>0, <1>4, <2>1, <2>2, SMTT(30) DEF Live
  <1> QED
    BY <1>5

\* A ring that does not hold descriptor d, and none twice, is not full.
LEMMA NotFull ==
  ASSUME Constants, NEW f \in [Desc -> Desc \cup {Nil}], Injective(f), NEW d \in Desc, ~In(f, d)
  PROVE  \E s \in Desc : f[s] = Nil
  <1> SUFFICES ASSUME \A s \in Desc : f[s] # Nil PROVE FALSE
    OBVIOUS
  <1>1. NUM \in Nat /\ d \in 0..(NUM - 1)
    BY DEF Constants, Divides, Desc
  <1>2. f \in [0..(NUM - 1) -> 0..(NUM - 1)] /\ \A x \in 0..(NUM - 1) : f[x] # d
    BY DEF Desc, In
  <1>3. \E x, y \in 0..(NUM - 1) : x # y /\ f[x] = f[y]
    BY <1>1, <1>2, Pigeon, Zenon
  <1>4. \E x, y \in Desc : x # y /\ f[x] = f[y]
    BY <1>3 DEF Desc
  <1> QED
    BY <1>4 DEF Injective

-----------------------------------------------------------------------------
(* Steps that move no descriptor and no head *)

\* The chain of a call, and that two calls have different heads.
LEMMA ChainIs ==
  ASSUME Constants, ChainInv, NEW b \in Holding
  PROVE  /\ Formatted(b)
         /\ Chain(idx[b]) = {idx[b], next[idx[b]], next[next[idx[b]]]}
  <1>1. Formatted(b)
    BY DEF ChainInv
  <1> QED
    BY <1>1, Zenon DEF Formatted, Chain, Constants

\* The descriptors x, y and z are the chain of c.
Linked(c, x, y, z) ==
  /\ x \in Desc /\ y \in Desc /\ z \in Desc /\ x # y /\ x # z /\ y # z
  /\ idx[c] = x /\ next[x] = y /\ next[y] = z /\ next[z] = Nil
  /\ ~free[x] /\ ~free[y] /\ ~free[z]
  /\ addr[y] = c /\ ops[x] = arg[c] /\ info[x].b = c

\* See ChainIs: the three descriptors by name.
LEMMA ChainNamed ==
  ASSUME Constants, ChainInv, NEW c \in Holding
  PROVE  \E x, y, z : Linked(c, x, y, z) /\ Chain(idx[c]) = {x, y, z}
  <1> DEFINE x == idx[c]
             y == next[x]
             z == next[y]
  <1>1. Linked(c, x, y, z)
    BY ChainIs, Zenon DEF Formatted, Linked
  <1>2. Chain(idx[c]) = {x, y, z}
    BY ChainIs, Zenon
  <1> QED
    BY <1>1, <1>2, Zenon

\* The chain of a call after a step.
LEMMA ChainAfter ==
  ASSUME Constants, NEW c, NEW x, NEW y, NEW z, Linked(c, x, y, z)'
  PROVE  Formatted(c)' /\ Chain(idx[c])' = {x, y, z}
  <1>1. Formatted(c)'
    BY Zenon DEF Formatted, Linked
  <1>2. idx'[c] = x /\ next'[x] = y /\ next'[y] = z /\ Nil # y /\ Nil # z
    BY Zenon DEF Constants, Linked
  <1>3. Chain(idx[c])' = {x} \cup ({y} \cup {z})
    BY <1>2, Zenon DEF Chain
  <1> QED
    BY <1>1, <1>3, Zenon

\* See ChainIs.
LEMMA HeadsDiffer ==
  ASSUME ChainInv, NEW b \in Holding, NEW c \in Holding, idx[b] = idx[c]
  PROVE  b = c
  <1>1. idx[b] \in Chain(idx[b]) /\ idx[c] \in Chain(idx[c])
    BY DEF Chain
  <1> QED
    BY <1>1 DEF ChainInv

\* What keeps the chains.
LEMMA ChainKept ==
  ASSUME ChainInv, Holding' = Holding, UNCHANGED <<free, next, addr, ops, idx>>,
         \A b \in Holding : arg'[b] = arg[b],
         \A b \in Holding : info'[idx[b]].b = info[idx[b]].b
  PROVE  ChainInv'
  <1>1. \A i : Chain(i)' = Chain(i)
    BY SMTT(30) DEF Chain
  <1>2. ASSUME NEW b \in Holding PROVE Formatted(b)'
    BY SMTT(40), ZenonT(20) DEF ChainInv, Formatted
  <1> QED
    BY <1>1, <1>2, SMTT(30) DEF ChainInv

\* What keeps everything.
LEMMA Kept ==
  ASSUME VirtioInv, UNCHANGED <<driver, uring, used, used_idx, owned, idx, device>>,
         Holding' = Holding, \A b \in Holding : arg'[b] = arg[b],
         TypeOK', CallInv', Avail' = Avail, lock' \in Buf => lock \in Buf,
         used_idx # used => irq' \/ lock' = "intr"
  PROVE  VirtioInv'
  <1>0. ChainInv /\ WorkInv /\ RingInv
    BY DEF VirtioInv
  <1>1. ChainInv'
    BY <1>0, ChainKept, SMTT(30) DEF driver
  <1>2. WorkInv'
    BY <1>0, SMTT(30) DEF WorkInv, Injective, In, driver, device
  <1>3. RingInv'
    BY <1>0, ZenonT(40) DEF RingInv, Live, driver, device
  <1> QED
    BY <1>1, <1>2, <1>3 DEF VirtioInv

\* avail->idx += 1.
LEMMA PublishStep ==
  ASSUME Constants, VirtioInv, NEW b \in Buf, Publish(b)
  PROVE  VirtioInv'
  <1>0. TypeOK /\ CallInv /\ RingInv /\ lock = b
    BY SMTT(30) DEF VirtioInv, CallInv, Publish
  <1>1. avail' \in 0..(UINT16 - 1)
    BY <1>0, BumpedIs, SMTT(30) DEF Publish, TypeOK, BumpIdx, Bumped, Constants, Divides
  <1>2. TypeOK'
    BY <1>0, <1>1, SMTT(30) DEF Publish, TypeOK, PCs, driver, device
  <1>3. pc' = [pc EXCEPT ![b] = "wait"] /\ pc \in [Buf -> PCs] /\ pc[b] = "publish"
    BY <1>0 DEF Publish, TypeOK
  <1>4. Holding' = Holding
    BY <1>3, SMTT(30) DEF Holding
  <1>5. CallInv'
    BY <1>0, <1>3, <1>4, ZenonT(40) DEF Publish, CallInv, Constants, device
  <1>6. Avail' = Avail /\ lock' \notin Buf
    BY <1>0, SMTT(30) DEF Avail, Publish, Constants
  <1>7. used_idx # used => irq' \/ lock' = "intr"
    BY <1>0, SMTT(30) DEF RingInv, Publish, Constants
  <1> QED
    BY <1>2, <1>4, <1>5, <1>6, <1>7, Kept, SMTT(30) DEF Publish

\* Back to sleep, or woken by kill().
LEMMA SleepStep ==
  ASSUME Constants, VirtioInv, NEW b \in Buf, SleepAgain(b) \/ Killed(b)
  PROVE  VirtioInv'
  <1>0. TypeOK /\ CallInv /\ RingInv
    BY SMTT(30) DEF VirtioInv
  <1>1. /\ UNCHANGED <<driver, avail, uring, used, used_idx, lock, irq, owned, idx, arg, device>>
        /\ pc \in [Buf -> PCs]
        /\ \/ pc[b] = "woken" /\ pc' = [pc EXCEPT ![b] = "wait"] /\ owned[b]
           \/ pc[b] = "wait" /\ pc' = [pc EXCEPT ![b] = "woken"]
           \/ pc[b] = "nodesc" /\ pc' = [pc EXCEPT ![b] = "retry"]
    BY <1>0, ZenonT(40) DEF SleepAgain, Killed, TypeOK
  <1>2. TypeOK'
    BY <1>0, <1>1, SMTT(40) DEF TypeOK, PCs, driver, device
  <1>3. Holding' = Holding
    BY <1>1, SMTT(30) DEF Holding
  <1>4. CallInv'
    BY <1>0, <1>1, <1>3, SMTT(30) DEF CallInv, device
  <1>5. Avail' = Avail /\ lock' = lock /\ (used_idx # used => irq' \/ lock' = "intr")
    BY <1>0, <1>1, SMTT(30) DEF Avail, RingInv
  <1> QED
    BY <1>1, <1>2, <1>3, <1>4, <1>5, Kept, SMTT(30)

\* The handler comes and goes.
LEMMA IntrStep ==
  ASSUME Constants, VirtioInv, IntrEnter \/ IntrExit
  PROVE  VirtioInv'
  <1>0. TypeOK /\ CallInv /\ RingInv
    BY SMTT(30) DEF VirtioInv
  <1>1. /\ UNCHANGED <<driver, avail, uring, used, used_idx, owned, idx, arg, pc, device>>
        /\ lock \in {"none", "intr"} /\ lock' \in {"none", "intr"} /\ irq' \in BOOLEAN
        /\ used_idx # used => irq' \/ lock' = "intr"
    BY <1>0, ZenonT(40) DEF IntrEnter, IntrExit, TypeOK
  <1>2. TypeOK'
    BY <1>0, <1>1, Zenon DEF TypeOK, driver, device
  <1>3. Holding' = Holding
    BY <1>1, SMTT(30) DEF Holding
  <1>4. CallInv'
    BY <1>0, <1>1, <1>3, SMTT(30) DEF CallInv, device, Constants
  <1>5. Avail' = Avail /\ lock' \notin Buf
    BY <1>0, <1>1, SMTT(30) DEF Avail, Constants
  <1> QED
    BY <1>1, <1>2, <1>3, <1>4, <1>5, Kept, SMTT(30)

\* alloc3_desc() finds too few.
LEMMA FailStep ==
  ASSUME Constants, VirtioInv, NEW b \in Buf, NEW a \in Request, TakeDescs(b, a),
         AllocFails(b), pc[b] \in {"idle", "retry"}
  PROVE  VirtioInv'
  <1>0. TypeOK /\ CallInv /\ RingInv
    BY DEF VirtioInv
  <1>1. /\ UNCHANGED <<driver, avail, uring, used, used_idx, lock, irq, owned, idx, device>>
        /\ lock = "none" /\ arg' = [arg EXCEPT ![b] = a]
    BY SMTT(30) DEF TakeDescs, AllocFails
  <1>2. /\ pc' \in [Buf -> PCs] /\ pc'[b] = "nodesc"
        /\ \A c \in Buf \ {b} : pc'[c] = pc[c] \/ (pc[c] = "nodesc" /\ pc'[c] = "retry")
    <2>1. pc \in [Buf -> PCs]
      BY <1>0, SMTT(30) DEF TypeOK
    <2>2. CASE FreeDesc = {}
      BY <2>1, <2>2, SMTT(30) DEF AllocFails, PCs
    <2>3. CASE FreeDesc # {}
      BY <2>1, <2>3, SMTT(30) DEF AllocFails, PCs, WakeAlloc
    <2> QED
      BY <2>2, <2>3, SMTT(30)
  <1>3. TypeOK'
    BY <1>0, <1>1, <1>2, ZenonT(40) DEF TypeOK, driver, device
  <1>4. Holding' = Holding /\ b \notin Holding
    BY <1>2, SMTT(30) DEF Holding
  <1>5. a # NoArg
    BY SMTT(30) DEF Request, NoArg
  <1>6. ASSUME NEW c \in Buf
        PROVE  /\ lock' = c <=> pc'[c] = "publish"
               /\ pc'[c] = "idle" <=> arg'[c] = NoArg
               /\ c \notin Holding' => ~owned'[c] /\ moved'[c] = NoArg
               /\ pc'[c] \in {"publish", "wait"} => owned'[c]
    <2>1. CASE c = b
      BY <1>0, <1>1, <1>2, <1>4, <1>5, <2>1, SMTT(40) DEF CallInv, TypeOK,
          Constants, device
    <2>2. CASE c # b
      BY <1>0, <1>1, <1>2, <1>4, <2>2, SMTT(40) DEF CallInv, TypeOK, device
    <2> QED
      BY <2>1, <2>2, SMTT(30)
  <1>7. CallInv'
    BY <1>6, SMTT(30) DEF CallInv
  <1>8. Avail' = Avail /\ lock' = lock /\ (used_idx # used => irq' \/ lock' = "intr")
    BY <1>0, <1>1, SMTT(30) DEF Avail, RingInv
  <1>9. \A c \in Holding : arg'[c] = arg[c]
    BY <1>0, <1>1, <1>4, SMTT(40) DEF TypeOK, Holding
  <1> QED
    BY <1>1, <1>3, <1>4, <1>7, <1>8, <1>9, Kept, SMTT(30)

-----------------------------------------------------------------------------
(* Steps that move a head through the rings *)

\* An entry read and reset.
LEMMA TakeSlot ==
  ASSUME Constants, NEW f \in [Desc -> Desc \cup {Nil}], Injective(f), NEW s \in Desc, f[s] # Nil,
         NEW g, g = [f EXCEPT ![s] = Nil]
  PROVE  /\ g \in [Desc -> Desc \cup {Nil}] /\ Injective(g)
         /\ \A x \in Desc : In(g, x) <=> In(f, x) /\ x # f[s]
  <1>1. g \in [Desc -> Desc \cup {Nil}] /\ g[s] = Nil /\ \A t \in Desc \ {s} : g[t] = f[t]
    OBVIOUS
  <1>2. Injective(g)
    BY <1>1, SMTT(30) DEF Injective
  <1>3. ASSUME NEW x \in Desc PROVE In(g, x) <=> In(f, x) /\ x # f[s]
    BY <1>1, SMTT(30) DEF Injective, In, Constants
  <1> QED
    BY <1>1, <1>2, <1>3, ZenonT(40)

\* An entry written.
LEMMA PutSlot ==
  ASSUME Constants, NEW f \in [Desc -> Desc \cup {Nil}], Injective(f), NEW s \in Desc, f[s] = Nil,
         NEW v \in Desc, ~In(f, v), NEW g, g = [f EXCEPT ![s] = v]
  PROVE  /\ g \in [Desc -> Desc \cup {Nil}] /\ Injective(g)
         /\ \A x \in Desc : In(g, x) <=> In(f, x) \/ x = v
  <1>1. g \in [Desc -> Desc \cup {Nil}] /\ g[s] = v /\ \A t \in Desc \ {s} : g[t] = f[t]
    OBVIOUS
  <1>2. Injective(g)
    BY <1>1, SMTT(30) DEF Injective, In
  <1>3. ASSUME NEW x \in Desc PROVE In(g, x) <=> In(f, x) \/ x = v
    BY <1>1, SMTT(30) DEF In, Constants
  <1> QED
    BY <1>1, <1>2, <1>3, ZenonT(40)

\* A counter stays a uint16.
LEMMA BumpType ==
  ASSUME Constants, NEW n \in 0..(UINT16 - 1)
  PROVE  BumpIdx(n) \in 0..(UINT16 - 1)
  BY BumpedIs, SMTT(30) DEF BumpIdx, Bumped, Constants, Divides

\* Two counters that differ still do after both are incremented.
LEMMA BumpDiffers ==
  ASSUME Constants, NEW m \in 0..(UINT16 - 1), NEW n \in 0..(UINT16 - 1), m # n
  PROVE  BumpIdx(m) # BumpIdx(n)
  <1>1. UINT16 \in Nat \ {0}
    BY SMTT(30) DEF Constants, Divides
  <1>2. /\ BumpIdx(m) = IF m = UINT16 - 1 THEN 0 ELSE m + 1
        /\ BumpIdx(n) = IF n = UINT16 - 1 THEN 0 ELSE n + 1
    BY <1>1, BumpedIs, ZenonT(40) DEF BumpIdx, Bumped
  <1> QED
    BY <1>1, <1>2, SMTT(30)

\* The device takes a head from the available ring.
LEMMA FetchStep ==
  ASSUME Constants, VirtioInv, DevFetch
  PROVE  VirtioInv'
  <1> DEFINE s == dlast % NUM
             i == ring[s]
  <1>0. TypeOK /\ ChainInv /\ CallInv /\ WorkInv /\ RingInv
    BY SMTT(30) DEF VirtioInv
  <1>1. /\ dlast \in 0..(UINT16 - 1) /\ avail \in 0..(UINT16 - 1) /\ s \in Desc
        /\ ring \in [Desc -> Desc \cup {Nil}]
    BY <1>0, SlotType, SMTT(30) DEF TypeOK
  <1>2. Avail \in 0..(UINT16 - 1) /\ dlast # Avail
    BY <1>0, <1>1, BumpType, SMTT(30) DEF Avail, RingInv, DevFetch
  <1>3. i # Nil /\ i \in Desc /\ In(ring, i)
    BY <1>0, <1>1, <1>2, LiveFirst, ZenonT(40) DEF RingInv, In
  <1>4. /\ ring' \in [Desc -> Desc \cup {Nil}] /\ Injective(ring')
        /\ \A x \in Desc : In(ring', x) <=> In(ring, x) /\ x # i
    <2>1. ring' = [ring EXCEPT ![s] = Nil] /\ Injective(ring)
      BY <1>0, Zenon DEF DevFetch, WorkInv
    <2> HIDE DEF s
    <2> QED
      BY <1>1, <1>3, <2>1, TakeSlot, ZenonT(40)
  <1>5. Live(ring', dlast', Avail) /\ Avail' = Avail
    BY <1>0, <1>1, <1>2, LiveTake, ZenonT(40) DEF RingInv, DevFetch, Avail
  <1>6. lock \in Buf => dlast' # Avail
    BY <1>1, BumpDiffers, SMTT(30) DEF DevFetch, Avail
  <1>7. busy' = busy \cup {i} /\ dlast' \in 0..(UINT16 - 1)
    BY <1>1, BumpType, ZenonT(20) DEF DevFetch
  <1> HIDE DEF i, s
  <1>8. TypeOK'
    BY <1>0, <1>3, <1>4, <1>7, SMTT(40) DEF TypeOK, DevFetch
  <1>9. Holding' = Holding
    BY SMTT(30) DEF Holding, DevFetch
  <1>10. ChainInv' /\ CallInv'
    BY <1>0, <1>9, ChainKept, ZenonT(40) DEF DevFetch, CallInv
  <1>11. WorkInv'
    <2>1. ASSUME NEW x \in Desc
          PROVE  /\ In(ring', x) \/ x \in busy' \/ In(uring, x) =>
                      \E b \in Holding : owned[b] /\ idx[b] = x
                 /\ ~(In(ring', x) /\ x \in busy') /\ ~(In(ring', x) /\ In(uring, x))
                 /\ ~(x \in busy' /\ In(uring, x))
                 /\ In(uring, x) => info[x].status = 0
      BY <1>0, <1>3, <1>4, <1>7, ZenonT(40) DEF WorkInv
    <2>2. ASSUME NEW b \in Holding
          PROVE  /\ owned[b] => In(ring', idx[b]) \/ idx[b] \in busy' \/ In(uring, idx[b])
                 /\ moved[b] = IF owned[b] /\ ~In(uring, idx[b]) THEN NoArg ELSE arg[b]
      <3>1. idx[b] \in Desc
        BY <1>0, ZenonT(40) DEF ChainInv, Formatted
      <3> QED
        BY <1>0, <1>4, <1>7, <3>1, ZenonT(40) DEF WorkInv
    <2> QED
      BY <1>0, <1>4, <1>9, <2>1, <2>2, ZenonT(40) DEF WorkInv, DevFetch
  <1>12. RingInv'
    BY <1>0, <1>5, <1>6, ZenonT(40) DEF RingInv, DevFetch
  <1> QED
    BY <1>8, <1>10, <1>11, <1>12 DEF VirtioInv

\* The device finishes a chain.
LEMMA DoneStep ==
  ASSUME Constants, VirtioInv, NEW i \in Desc, DevDone(i)
  PROVE  VirtioInv'
  <1> DEFINE s == used % NUM
  <1>0. TypeOK /\ ChainInv /\ CallInv /\ WorkInv /\ RingInv
    BY SMTT(30) DEF VirtioInv
  <1>1. /\ used \in 0..(UINT16 - 1) /\ used_idx \in 0..(UINT16 - 1)
        /\ uring \in [Desc -> Desc \cup {Nil}] /\ Injective(uring) /\ Live(uring, used_idx, used)
    BY <1>0, ZenonT(40) DEF TypeOK, WorkInv, RingInv
  <1>2. i \in busy /\ ~In(uring, i) /\ ~In(ring, i)
    BY <1>0, SMTT(30) DEF WorkInv, DevDone
  <1>3. PICK b \in Holding : owned[b] /\ idx[b] = i
    BY <1>0, <1>2, ZenonT(40) DEF WorkInv
  <1>4. b \in Buf /\ addr[next[i]] = b /\ ops[i] = arg[b]
    BY <1>0, <1>3, ZenonT(40) DEF ChainInv, Formatted, Holding
  <1>5. PICK t \in Desc : uring[t] = Nil
    BY <1>1, <1>2, NotFull, SMTT(30)
  <1>6. /\ uring[s] = Nil /\ s \in Desc
        /\ Live([uring EXCEPT ![s] = i], used_idx, BumpIdx(used))
    BY <1>1, <1>5, LivePut, ZenonT(40)
  <1>7. uring' = [uring EXCEPT ![s] = i] /\ used' = BumpIdx(used)
    BY SMTT(30) DEF DevDone
  <1> HIDE DEF s
  <1>8. /\ uring' \in [Desc -> Desc \cup {Nil}] /\ Injective(uring')
        /\ \A x \in Desc : In(uring', x) <=> In(uring, x) \/ x = i
    <2>1. /\ uring \in [Desc -> Desc \cup {Nil}] /\ Injective(uring)
          /\ s \in Desc /\ uring[s] = Nil /\ ~In(uring, i)
      BY <1>1, <1>2, <1>6
    <2>2. uring' = [uring EXCEPT ![s] = i]
      BY <1>7
    <2> QED
      BY <2>1, <2>2, PutSlot, ZenonT(40)
  <1>9. used' \in 0..(UINT16 - 1) /\ Live(uring', used_idx, used')
    BY <1>1, <1>6, <1>7, BumpType, SMTT(30)
  <1>10. /\ moved' = [moved EXCEPT ![b] = arg[b]] /\ info' = [info EXCEPT ![i].status = 0]
         /\ busy' = busy \ {i} /\ irq' = TRUE
         /\ UNCHANGED <<free, next, addr, ops, ring, avail, used_idx, lock, owned, idx, arg, pc, dlast>>
    BY <1>4, SMTT(30) DEF DevDone
  <1>11. /\ info \in [Desc -> [b : Buf \cup {Nil}, status : {0, 255}]]
         /\ moved \in [Buf -> Request \cup {NoArg}] /\ arg[b] \in Request \cup {NoArg}
    BY <1>0, <1>4, ZenonT(40) DEF TypeOK
  <1>12. /\ info' \in [Desc -> [b : Buf \cup {Nil}, status : {0, 255}]]
         /\ \A x \in Desc : info'[x].b = info[x].b
         /\ info'[i].status = 0 /\ \A x \in Desc \ {i} : info'[x] = info[x]
    BY <1>10, <1>11, SMTT(30)
  <1>13. TypeOK'
    <2>1. moved' \in [Buf -> Request \cup {NoArg}] /\ busy' \subseteq Desc /\ irq' \in BOOLEAN
      BY <1>0, <1>10, <1>11, ZenonT(40) DEF TypeOK
    <2> QED
      BY <1>0, <1>8, <1>9, <1>10, <1>12, <2>1, SMTT(30) DEF TypeOK
  <1>14. Holding' = Holding
    BY <1>10 DEF Holding
  <1>15. \A c \in Holding : idx[c] \in Desc
    BY <1>0, ZenonT(40) DEF ChainInv, Formatted
  <1>16. ChainInv'
    BY <1>0, <1>10, <1>12, <1>14, <1>15, ChainKept, SMTT(30)
  <1>17. CallInv'
    BY <1>0, <1>3, <1>10, <1>11, <1>14, SMTT(30) DEF CallInv
  <1>18. WorkInv'
    <2>1. ASSUME NEW x \in Desc
          PROVE  /\ In(ring, x) \/ x \in busy' \/ In(uring', x) =>
                      \E c \in Holding : owned[c] /\ idx[c] = x
                 /\ ~(In(ring, x) /\ x \in busy') /\ ~(In(ring, x) /\ In(uring', x))
                 /\ ~(x \in busy' /\ In(uring', x))
                 /\ In(uring', x) => info'[x].status = 0
      BY <1>0, <1>2, <1>3, <1>8, <1>10, <1>12, SMTT(30) DEF WorkInv
    <2>2. ASSUME NEW c \in Holding
          PROVE  /\ owned[c] => In(ring, idx[c]) \/ idx[c] \in busy' \/ In(uring', idx[c])
                 /\ moved'[c] = IF owned[c] /\ ~In(uring', idx[c]) THEN NoArg ELSE arg[c]
      <3>1. CASE c = b
        BY <1>3, <1>4, <1>8, <1>10, <1>11, <3>1, SMTT(30)
      <3>2. CASE c # b
        <4>1. idx[c] # i /\ idx[c] \in Desc /\ c \in Buf
          BY <1>0, <1>3, <1>15, <3>2, HeadsDiffer, SMTT(30) DEF Holding
        <4>2. moved'[c] = moved[c]
          BY <1>10, <1>11, <3>2, <4>1
        <4> QED
          BY <1>0, <1>8, <1>10, <4>1, <4>2, SMTT(30) DEF WorkInv
      <3> QED
        BY <3>1, <3>2, ZenonT(40)
    <2> QED
      BY <1>0, <1>8, <1>10, <1>14, <2>1, <2>2, SMTT(40) DEF WorkInv
  <1>19. RingInv'
    BY <1>0, <1>9, <1>10 DEF RingInv, Avail
  <1> QED
    BY <1>13, <1>16, <1>17, <1>18, <1>19, SMTT(30) DEF VirtioInv

\* virtio_disk_intr() handles one entry of the used ring.
LEMMA EntryStep ==
  ASSUME Constants, VirtioInv, IntrEntry
  PROVE  VirtioInv'
  <1> DEFINE s == used_idx % NUM
             i == uring[s]
  <1>0. TypeOK /\ ChainInv /\ CallInv /\ WorkInv /\ RingInv
    BY DEF VirtioInv
  <1>1. /\ used \in 0..(UINT16 - 1) /\ used_idx \in 0..(UINT16 - 1) /\ s \in Desc
        /\ uring \in [Desc -> Desc \cup {Nil}] /\ Injective(uring)
        /\ Live(uring, used_idx, used) /\ used_idx # used
    BY <1>0, SlotType DEF TypeOK, WorkInv, RingInv, IntrEntry
  <1>2. i # Nil /\ i \in Desc /\ In(uring, i)
    BY <1>1, LiveFirst, SMTT(30) DEF In
  <1>3. PICK b \in Holding : owned[b] /\ idx[b] = i
    BY <1>0, <1>2, ZenonT(20) DEF WorkInv
  <1>4. b \in Buf /\ info[i].b = b
    BY <1>0, <1>3, SMTT(30) DEF ChainInv, Formatted, Holding
  <1>5. /\ lock = "intr" /\ owned' = [owned EXCEPT ![b] = FALSE]
        /\ pc' = [pc EXCEPT ![b] = IF @ = "wait" THEN "woken" ELSE @]
        /\ uring' = [uring EXCEPT ![s] = Nil] /\ used_idx' = BumpIdx(used_idx)
        /\ UNCHANGED <<driver, avail, used, lock, irq, idx, arg, device>>
    BY <1>4, SMTT(30) DEF IntrEntry
  <1>6. Live(uring', used_idx', used)
    BY <1>1, <1>5, LiveTake, Zenon
  <1> HIDE DEF s
  <1>7. /\ uring' \in [Desc -> Desc \cup {Nil}] /\ Injective(uring')
        /\ \A x \in Desc : In(uring', x) <=> In(uring, x) /\ x # i
    BY <1>1, <1>2, <1>5, TakeSlot, Zenon
  <1>8. used_idx' \in 0..(UINT16 - 1)
    BY <1>1, <1>5, BumpType
  <1> HIDE DEF i
  <1>9. owned \in [Buf -> BOOLEAN] /\ pc \in [Buf -> PCs] /\ pc[b] \in {"wait", "woken"}
    <2>1. pc[b] # "publish"
      BY <1>0, <1>4, <1>5, SMTT(30) DEF CallInv, Constants
    <2> QED
      BY <1>0, <1>3, <2>1, SMTT(30) DEF TypeOK, Holding
  <1>10. pc'[b] = "woken" /\ ~owned'[b] /\ \A c \in Buf \ {b} : pc'[c] = pc[c] /\ owned'[c] = owned[c]
    BY <1>4, <1>5, <1>9, ZenonT(20)
  <1>11. TypeOK'
    <2>1. owned' \in [Buf -> BOOLEAN] /\ pc' \in [Buf -> PCs]
      BY <1>5, <1>9, Zenon DEF PCs
    <2> QED
      BY <1>0, <1>5, <1>7, <1>8, <2>1, SMTT(30) DEF TypeOK, driver, device
  <1>12. Holding' = Holding
    BY <1>3, <1>10 DEF Holding
  <1>13. \A c \in Holding : idx[c] \in Desc
    BY <1>0, ZenonT(20) DEF ChainInv, Formatted
  <1>14. ChainInv'
    BY <1>0, <1>5, <1>12, ChainKept, ZenonT(20) DEF driver
  <1>15. CallInv'
    <2>1. ASSUME NEW c \in Buf
          PROVE  /\ lock' = c <=> pc'[c] = "publish"
                 /\ pc'[c] = "idle" <=> arg'[c] = NoArg
                 /\ c \notin Holding' => ~owned'[c] /\ moved'[c] = NoArg
                 /\ pc'[c] \in {"publish", "wait"} => owned'[c]
      <3>1. CASE c = b
        BY <1>0, <1>3, <1>5, <1>9, <1>10, <1>12, <3>1, SMTT(30) DEF CallInv, Constants
      <3>2. CASE c # b
        BY <1>0, <1>5, <1>10, <1>12, <3>2, SMTT(30) DEF CallInv, device
      <3> QED
        BY <3>1, <3>2, ZenonT(20)
    <2> QED
      BY <2>1, SMTT(30) DEF CallInv
  <1>16. WorkInv'
    <2>1. ASSUME NEW c \in Holding, c # b PROVE idx[c] # i /\ c \in Buf /\ owned'[c] = owned[c]
      BY <1>0, <1>3, <1>10, <2>1, HeadsDiffer, ZenonT(20) DEF Holding
    <2>2. ~In(ring, i) /\ i \notin busy /\ ~In(uring', i)
      BY <1>0, <1>2, <1>7, SMTT(30) DEF WorkInv
    <2>3. ASSUME NEW x \in Desc
          PROVE  /\ In(ring, x) \/ x \in busy \/ In(uring', x) =>
                      \E c \in Holding : owned'[c] /\ idx[c] = x
                 /\ ~(In(ring, x) /\ x \in busy) /\ ~(In(ring, x) /\ In(uring', x))
                 /\ ~(x \in busy /\ In(uring', x))
                 /\ In(uring', x) => info[x].status = 0
      <3>1. CASE x = i
        BY <1>0, <2>2, <3>1, ZenonT(20)
      <3>2. CASE x # i
        BY <1>0, <1>3, <1>7, <2>1, <3>2, ZenonT(20) DEF WorkInv
      <3> QED
        BY <3>1, <3>2, SMTT(30)
    <2>4. ASSUME NEW c \in Holding
          PROVE  /\ owned'[c] => In(ring, idx[c]) \/ idx[c] \in busy \/ In(uring', idx[c])
                 /\ moved[c] = IF owned'[c] /\ ~In(uring', idx[c]) THEN NoArg ELSE arg[c]
      <3>1. CASE c = b
        BY <1>0, <1>2, <1>3, <1>10, <3>1, ZenonT(20) DEF WorkInv
      <3>2. CASE c # b
        BY <1>0, <1>7, <1>13, <2>1, <3>2, SMTT(30) DEF WorkInv
      <3> QED
        BY <3>1, <3>2, SMTT(30)
    <2> QED
      BY <1>0, <1>5, <1>7, <1>12, <2>3, <2>4, ZenonT(40) DEF WorkInv, driver, device
  <1>17. RingInv'
    BY <1>0, <1>5, <1>6, SMTT(30) DEF RingInv, Avail, driver, device, Constants
  <1> QED
    BY <1>11, <1>14, <1>15, <1>16, <1>17, ZenonT(20) DEF VirtioInv

-----------------------------------------------------------------------------
(* Steps that take and free descriptors *)

\* free_chain() at the end of virtio_disk_rw().
LEMMA ReturnStep ==
  ASSUME Constants, VirtioInv, NEW b \in Buf, Return(b)
  PROVE  VirtioInv'
  <1> DEFINE c0 == Chain(idx[b])
  <1>0. TypeOK /\ ChainInv /\ CallInv /\ WorkInv /\ RingInv
    BY DEF VirtioInv
  <1>1. b \in Holding /\ ~owned[b] /\ lock = "none"
    BY DEF Return, Holding
  <1>2. /\ free' = [i \in Desc |-> free[i] \/ i \in c0]
        /\ next' = [i \in Desc |-> IF i \in c0 THEN Nil ELSE next[i]]
        /\ addr' = [i \in Desc |-> IF i \in c0 THEN Nil ELSE addr[i]]
        /\ info' = [info EXCEPT ![idx[b]].b = Nil] /\ ops' = [ops EXCEPT ![idx[b]] = NoArg]
        /\ idx' = [idx EXCEPT ![b] = Nil] /\ arg' = [arg EXCEPT ![b] = NoArg]
        /\ pc' = [WakeAlloc(pc) EXCEPT ![b] = "idle"] /\ moved' = [moved EXCEPT ![b] = NoArg]
        /\ UNCHANGED <<ring, avail, uring, used, used_idx, lock, irq, owned, dlast, busy>>
    BY ZenonT(20) DEF Return
  <1>3. idx[b] \in c0 /\ c0 \subseteq Desc /\ idx[b] \in Desc
    <2>1. Formatted(b) /\ c0 = {idx[b], next[idx[b]], next[next[idx[b]]]}
      BY <1>0, <1>1, ChainIs, ZenonT(20)
    <2> QED
      BY <2>1, ZenonT(20) DEF Formatted
  <1>4. \A c \in Holding \ {b} : Chain(idx[c]) \cap c0 = {}
    BY <1>0, <1>1, SMTT(30) DEF ChainInv
  <1>5. \A c \in Holding : /\ Formatted(c) /\ c \in Buf
                           /\ Chain(idx[c]) = {idx[c], next[idx[c]], next[next[idx[c]]]}
    BY <1>0, ChainIs, SMTT(30) DEF Holding
  <1> HIDE DEF c0
  <1>6. /\ pc' \in [Buf -> PCs] /\ pc'[b] = "idle"
        /\ \A c \in Buf \ {b} : pc'[c] = pc[c] \/ (pc[c] = "nodesc" /\ pc'[c] = "retry")
    BY <1>0, <1>2 DEF TypeOK, PCs, WakeAlloc
  <1>7. Holding' = Holding \ {b}
    BY <1>6 DEF Holding
  <1>8. /\ idx' \in [Buf -> Desc \cup {Nil}] /\ arg' \in [Buf -> Request \cup {NoArg}]
        /\ moved' \in [Buf -> Request \cup {NoArg}] /\ arg'[b] = NoArg /\ moved'[b] = NoArg
        /\ \A c \in Buf \ {b} : idx'[c] = idx[c] /\ arg'[c] = arg[c] /\ moved'[c] = moved[c]
    BY <1>0, <1>2, SMTT(30) DEF TypeOK
  <1>9. /\ info' \in [Desc -> [b : Buf \cup {Nil}, status : {0, 255}]]
        /\ ops' \in [Desc -> Request \cup {NoArg}]
        /\ \A i \in Desc : info'[i].status = info[i].status
        /\ \A i \in Desc \ {idx[b]} : info'[i] = info[i] /\ ops'[i] = ops[i]
    BY <1>0, <1>2, <1>3, SMTT(30) DEF TypeOK
  <1>10. /\ free' \in [Desc -> BOOLEAN] /\ next' \in [Desc -> Desc \cup {Nil}]
         /\ addr' \in [Desc -> Buf \cup {Nil}] /\ \A i \in c0 : free'[i]
         /\ \A i \in Desc \ c0 : free'[i] = free[i] /\ next'[i] = next[i] /\ addr'[i] = addr[i]
    BY <1>0, <1>2, <1>3, ZenonT(40) DEF TypeOK
  <1>11. TypeOK'
    BY <1>0, <1>2, <1>6, <1>8, <1>9, <1>10 DEF TypeOK
  <1>12. ASSUME NEW c \in Holding \ {b} PROVE Formatted(c)' /\ Chain(idx[c])' = Chain(idx[c])
    <2>0. PICK x, y, z : Linked(c, x, y, z) /\ Chain(idx[c]) = {x, y, z}
      BY <1>0, ChainNamed, Zenon
    <2>1. /\ x \in Desc /\ y \in Desc /\ z \in Desc /\ x # y /\ x # z /\ y # z
          /\ idx[c] = x /\ next[x] = y /\ next[y] = z /\ next[z] = Nil
          /\ ~free[x] /\ ~free[y] /\ ~free[z]
          /\ addr[y] = c /\ ops[x] = arg[c] /\ info[x].b = c
      BY <2>0, Zenon DEF Linked
    <2>2. x \notin c0 /\ y \notin c0 /\ z \notin c0
      BY <1>4, <2>0, <2>1, Zenon
    <2>3. idx'[c] = x /\ arg'[c] = arg[c]
      BY <1>5, <1>8, <2>1, Zenon
    <2>4. /\ next'[x] = y /\ next'[y] = z /\ next'[z] = Nil /\ addr'[y] = c
          /\ ~free'[x] /\ ~free'[y] /\ ~free'[z]
      BY <1>10, <2>1, <2>2, Zenon
    <2>5. ops'[x] = arg'[c] /\ info'[x].b = c
      <3>1. x # idx[b]
        BY <1>3, <2>2, Zenon
      <3> QED
        BY <1>9, <2>1, <2>3, <3>1, Zenon
    <2>6. Linked(c, x, y, z)'
      BY <2>1, <2>3, <2>4, <2>5, Zenon DEF Linked
    <2>7. Formatted(c)' /\ Chain(idx[c])' = {x, y, z}
      BY <2>6, ChainAfter
    <2> QED
      BY <2>0, <2>7, Zenon
  <1>13. ChainInv'
    <2>1. ASSUME NEW i \in Desc PROVE free'[i] \/ \E c \in Holding' : i \in Chain(idx[c])'
      <3>1. CASE i \in c0
        BY <1>10, <3>1, SMTT(30)
      <3>2. CASE i \notin c0
        <4>1. CASE free[i]
          BY <1>10, <3>2, <4>1, ZenonT(20)
        <4>2. CASE ~free[i]
          <5>1. PICK c \in Holding : i \in Chain(idx[c])
            BY <1>0, <4>2 DEF ChainInv
          <5>2. c # b
            BY <3>2, <5>1, SMTT(30) DEF c0
          <5> QED
            BY <1>7, <1>12, <5>1, <5>2, SMTT(30)
        <4> QED
          BY <4>1, <4>2, SMTT(30)
      <3> QED
        BY <3>1, <3>2, SMTT(30)
    <2>2. \A c, d \in Holding' : c # d => Chain(idx[c])' \cap Chain(idx[d])' = {}
      BY <1>0, <1>7, <1>12, ZenonT(20) DEF ChainInv
    <2> QED
      BY <1>7, <1>12, <2>1, <2>2, SMTT(30) DEF ChainInv
  <1>14. CallInv'
    <2>1. ASSUME NEW c \in Buf
          PROVE  /\ lock' = c <=> pc'[c] = "publish"
                 /\ pc'[c] = "idle" <=> arg'[c] = NoArg
                 /\ c \notin Holding' => ~owned'[c] /\ moved'[c] = NoArg
                 /\ pc'[c] \in {"publish", "wait"} => owned'[c]
      <3>1. CASE c = b
        BY <1>1, <1>2, <1>6, <1>8, <3>1, SMTT(30) DEF Constants
      <3>2. CASE c # b
        BY <1>0, <1>2, <1>6, <1>7, <1>8, <3>2, SMTT(30) DEF CallInv
      <3> QED
        BY <3>1, <3>2
    <2> QED
      BY <2>1, SMTT(30) DEF CallInv
  <1>15. WorkInv'
    <2>1. ASSUME NEW x \in Desc
          PROVE  /\ In(ring, x) \/ x \in busy \/ In(uring, x) =>
                      \E c \in Holding' : owned[c] /\ idx'[c] = x
                 /\ ~(In(ring, x) /\ x \in busy) /\ ~(In(ring, x) /\ In(uring, x))
                 /\ ~(x \in busy /\ In(uring, x))
                 /\ In(uring, x) => info'[x].status = 0
      <3>1. In(ring, x) \/ x \in busy \/ In(uring, x) => \E c \in Holding' : owned[c] /\ idx'[c] = x
        BY <1>0, <1>1, <1>5, <1>7, <1>8, ZenonT(20) DEF WorkInv
      <3> QED
        BY <1>0, <1>9, <3>1, ZenonT(20) DEF WorkInv
    <2>2. ASSUME NEW c \in Holding'
          PROVE  /\ owned[c] => In(ring, idx'[c]) \/ idx'[c] \in busy \/ In(uring, idx'[c])
                 /\ moved'[c] = IF owned[c] /\ ~In(uring, idx'[c]) THEN NoArg ELSE arg'[c]
      BY <1>0, <1>5, <1>7, <1>8, Zenon DEF WorkInv
    <2> QED
      BY <1>0, <1>2, <2>1, <2>2, SMTT(30) DEF WorkInv
  <1>16. RingInv'
    BY <1>0, <1>2 DEF RingInv, Avail
  <1> QED
    BY <1>11, <1>13, <1>14, <1>15, <1>16, SMTT(30) DEF VirtioInv

\* alloc3_desc() takes three different free descriptors.
LEMMA ThreeFree ==
  ASSUME Constants, NEW i \in FreeDesc, NEW j \in FreeDesc, NEW k \in FreeDesc,
         alloc3_desc(i, j, k)
  PROVE  /\ i \in Desc /\ j \in Desc /\ k \in Desc /\ i # j /\ i # k /\ j # k
         /\ free[i] /\ free[j] /\ free[k]
  <1>1. i \in Desc /\ j \in Desc /\ k \in Desc /\ free[i] /\ free[j] /\ free[k]
    BY DEF FreeDesc
  <1>2. Desc \subseteq Int
    BY DEF Desc, Constants, Divides
  <1>3. i < j /\ j < k
    BY DEF alloc3_desc
  <1> QED
    BY <1>1, <1>2, <1>3

\* alloc3_desc() finds three: the request is formatted and put in the ring.
LEMMA FormatStep ==
  ASSUME Constants, VirtioInv, NEW b \in Buf, NEW a \in Request, TakeDescs(b, a),
         AllocAndFormat(b, a), pc[b] \in {"idle", "retry"}
  PROVE  VirtioInv'
  <1>0. TypeOK /\ ChainInv /\ CallInv /\ WorkInv /\ RingInv
    BY SMTT(30) DEF VirtioInv
  <1> DEFINE s == avail % NUM
  <1>1. PICK i \in FreeDesc, j \in FreeDesc, k \in FreeDesc :
          /\ alloc3_desc(i, j, k)
          /\ free' = [free EXCEPT ![i] = FALSE, ![j] = FALSE, ![k] = FALSE]
          /\ ops' = [ops EXCEPT ![i] = a]
          /\ next' = [next EXCEPT ![i] = j, ![j] = k, ![k] = Nil]
          /\ addr' = [addr EXCEPT ![j] = b]
          /\ info' = [info EXCEPT ![i] = [b |-> b, status |-> 255]]
          /\ ring' = [ring EXCEPT ![s] = i]
          /\ idx' = [idx EXCEPT ![b] = i]
    BY Zenon DEF AllocAndFormat
  <1>2. a # NoArg
    BY NoArgIsNoRequest, ZenonT(20)
  <1>3. /\ owned' = [owned EXCEPT ![b] = TRUE] /\ lock' = b
        /\ pc' = [pc EXCEPT ![b] = "publish"] /\ arg' = [arg EXCEPT ![b] = a] /\ lock = "none"
        /\ UNCHANGED <<avail, uring, used, used_idx, irq, dlast, busy, moved>>
    BY DEF AllocAndFormat, TakeDescs, device
  <1>4. /\ i \in Desc /\ j \in Desc /\ k \in Desc /\ i # j /\ i # k /\ j # k
        /\ free[i] /\ free[j] /\ free[k]
    BY <1>1, ThreeFree, Zenon
  <1>5. \A c \in Holding : /\ Formatted(c) /\ c \in Buf /\ c # b
                           /\ Chain(idx[c]) = {idx[c], next[idx[c]], next[next[idx[c]]]}
    BY <1>0, ChainIs, ZenonT(20) DEF Holding
  <1>6. \A c \in Holding : i \notin Chain(idx[c]) /\ j \notin Chain(idx[c]) /\ k \notin Chain(idx[c])
    <2> SUFFICES ASSUME NEW c \in Holding, NEW x \in Chain(idx[c]) PROVE ~free[x]
      BY <1>4, Zenon
    <2>1. PICK u, v, w : Linked(c, u, v, w) /\ Chain(idx[c]) = {u, v, w}
      BY <1>0, ChainNamed, Zenon
    <2>2. x = u \/ x = v \/ x = w
      BY <2>1, Zenon
    <2> QED
      BY <2>1, <2>2, Zenon DEF Linked
  <1>7. ~In(ring, i) /\ i \notin busy /\ ~In(uring, i)
    BY <1>0, <1>4, <1>5, <1>6, ZenonT(20) DEF WorkInv
  <1>8. /\ dlast \in 0..(UINT16 - 1) /\ avail \in 0..(UINT16 - 1)
        /\ ring \in [Desc -> Desc \cup {Nil}] /\ Injective(ring) /\ Live(ring, dlast, avail)
    BY <1>0, <1>3, ZenonT(40) DEF TypeOK, WorkInv, RingInv, Avail, Constants
  <1>9. PICK t \in Desc : ring[t] = Nil
    BY <1>4, <1>7, <1>8, NotFull, SMTT(30)
  <1>10. /\ ring[s] = Nil /\ s \in Desc
         /\ Live([ring EXCEPT ![s] = i], dlast, BumpIdx(avail)) /\ dlast # BumpIdx(avail)
    <2>1. i \in Desc
      BY <1>4
    <2> QED
      BY <1>8, <1>9, <2>1, LivePut, Zenon
  <1> HIDE DEF s
  <1>11. /\ ring' \in [Desc -> Desc \cup {Nil}] /\ Injective(ring')
         /\ \A x \in Desc : In(ring', x) <=> In(ring, x) \/ x = i
    <2>1. /\ ring \in [Desc -> Desc \cup {Nil}] /\ Injective(ring) /\ i \in Desc
          /\ s \in Desc /\ ring[s] = Nil /\ ~In(ring, i)
      BY <1>4, <1>7, <1>8, <1>10
    <2>2. ring' = [ring EXCEPT ![s] = i]
      BY <1>1
    <2> QED
      BY <2>1, <2>2, PutSlot, ZenonT(40)
  <1>12. RingInv'
    <2>1. Avail' = BumpIdx(avail)
      BY <1>3, SMTT(30) DEF Avail
    <2>2. Live(ring', dlast, BumpIdx(avail))
      BY <1>1, <1>10, SMTT(30)
    <2> QED
      BY <1>0, <1>3, <1>10, <2>1, <2>2, ZenonT(40) DEF RingInv, Constants
  <1>13. /\ free' \in [Desc -> BOOLEAN] /\ next' \in [Desc -> Desc \cup {Nil}]
         /\ ~free'[i] /\ ~free'[j] /\ ~free'[k]
         /\ next'[i] = j /\ next'[j] = k /\ next'[k] = Nil
         /\ \A x \in Desc \ {i, j, k} : free'[x] = free[x] /\ next'[x] = next[x]
    BY <1>0, <1>1, <1>4, ZenonT(40) DEF TypeOK
  <1>14. /\ addr' \in [Desc -> Buf \cup {Nil}] /\ ops' \in [Desc -> Request \cup {NoArg}]
         /\ info' \in [Desc -> [b : Buf \cup {Nil}, status : {0, 255}]]
         /\ addr'[j] = b /\ ops'[i] = a /\ info'[i].b = b
         /\ \A x \in Desc \ {i, j, k} : addr'[x] = addr[x] /\ ops'[x] = ops[x]
         /\ \A x \in Desc \ {i} : info'[x] = info[x]
    BY <1>0, <1>1, <1>4, ZenonT(20) DEF TypeOK
  <1>15. /\ idx' \in [Buf -> Desc \cup {Nil}] /\ owned' \in [Buf -> BOOLEAN]
         /\ pc' \in [Buf -> PCs] /\ arg' \in [Buf -> Request \cup {NoArg}]
         /\ idx'[b] = i /\ owned'[b] /\ pc'[b] = "publish" /\ arg'[b] = a
         /\ \A c \in Buf \ {b} : /\ idx'[c] = idx[c] /\ owned'[c] = owned[c]
                                 /\ pc'[c] = pc[c] /\ arg'[c] = arg[c]
    BY <1>0, <1>1, <1>3, <1>4, ZenonT(40) DEF TypeOK, PCs
  <1>16. TypeOK'
    BY <1>0, <1>3, <1>11, <1>13, <1>14, <1>15, ZenonT(40) DEF TypeOK
  <1>17. Holding' = Holding \cup {b}
    BY <1>15, ZenonT(40) DEF Holding
  <1>18. Formatted(b)' /\ Chain(idx[b])' = {i, j, k}
    <2>1. Linked(b, i, j, k)'
      BY <1>4, <1>13, <1>14, <1>15, Zenon DEF Linked
    <2> QED
      BY <2>1, ChainAfter, Zenon
  <1>19. ASSUME NEW c \in Holding PROVE Formatted(c)' /\ Chain(idx[c])' = Chain(idx[c])
    <2>0. PICK x, y, z : Linked(c, x, y, z) /\ Chain(idx[c]) = {x, y, z}
      BY <1>0, ChainNamed, Zenon
    <2>1. /\ x \in Desc /\ y \in Desc /\ z \in Desc /\ x # y /\ x # z /\ y # z
          /\ idx[c] = x /\ next[x] = y /\ next[y] = z /\ next[z] = Nil
          /\ ~free[x] /\ ~free[y] /\ ~free[z]
          /\ addr[y] = c /\ ops[x] = arg[c] /\ info[x].b = c
      BY <2>0, Zenon DEF Linked
    <2>2. x \notin {i, j, k} /\ y \notin {i, j, k} /\ z \notin {i, j, k}
      BY <1>4, <2>0, <2>1, Zenon
    <2>3. idx'[c] = x /\ arg'[c] = arg[c]
      BY <1>5, <1>15, <2>1, Zenon
    <2>4. /\ next'[x] = y /\ next'[y] = z /\ next'[z] = Nil
          /\ ~free'[x] /\ ~free'[y] /\ ~free'[z]
      BY <1>13, <2>1, <2>2, Zenon
    <2>5. addr'[y] = c /\ ops'[x] = arg'[c] /\ info'[x].b = c
      BY <1>14, <2>1, <2>2, <2>3, Zenon
    <2>6. Linked(c, x, y, z)'
      BY <2>1, <2>3, <2>4, <2>5, Zenon DEF Linked
    <2>7. Formatted(c)' /\ Chain(idx[c])' = {x, y, z}
      BY <2>6, ChainAfter, Zenon
    <2> QED
      BY <2>0, <2>7, Zenon
  <1>20. ChainInv'
    <2>1. ASSUME NEW x \in Desc PROVE free'[x] \/ \E c \in Holding' : x \in Chain(idx[c])'
      <3>1. CASE x \in {i, j, k}
        BY <1>17, <1>18, <3>1, ZenonT(20)
      <3>2. CASE x \notin {i, j, k}
        BY <1>0, <1>13, <1>17, <1>19, <3>2, SMTT(40) DEF ChainInv
      <3> QED
        BY <3>1, <3>2
    <2>2. ASSUME NEW c \in Holding', NEW d \in Holding', c # d
          PROVE  Chain(idx[c])' \cap Chain(idx[d])' = {}
      <3>1. CASE c = b
        BY <1>6, <1>17, <1>18, <1>19, <2>2, <3>1, ZenonT(40)
      <3>2. CASE d = b
        BY <1>6, <1>17, <1>18, <1>19, <2>2, <3>2, ZenonT(20)
      <3>3. CASE c # b /\ d # b
        BY <1>0, <1>17, <1>19, <2>2, <3>3, ZenonT(20) DEF ChainInv
      <3> QED
        BY <3>1, <3>2, <3>3, Zenon
    <2>3. \A c \in Holding' : Formatted(c)'
      BY <1>17, <1>18, <1>19, ZenonT(20)
    <2> QED
      BY <2>1, <2>2, <2>3, SMTT(30) DEF ChainInv
  <1>21. CallInv'
    <2>1. ASSUME NEW c \in Buf
          PROVE  /\ lock' = c <=> pc'[c] = "publish"
                 /\ pc'[c] = "idle" <=> arg'[c] = NoArg
                 /\ c \notin Holding' => ~owned'[c] /\ moved'[c] = NoArg
                 /\ pc'[c] \in {"publish", "wait"} => owned'[c]
      <3>1. CASE c = b
        BY <1>2, <1>3, <1>15, <1>17, <3>1, Zenon
      <3>2. CASE c # b
        <4>1. /\ owned'[c] = owned[c] /\ pc'[c] = pc[c] /\ arg'[c] = arg[c]
              /\ moved'[c] = moved[c] /\ lock' # c /\ lock = "none"
          BY <1>3, <1>15, <3>2, Zenon
        <4>2. pc[c] # "publish"
          BY <1>0, <4>1, Zenon DEF CallInv, Constants
        <4>3. c \in Holding' <=> c \in Holding
          BY <1>17, <3>2, Zenon
        <4>4. /\ pc[c] = "idle" <=> arg[c] = NoArg
              /\ c \notin Holding => ~owned[c] /\ moved[c] = NoArg
              /\ pc[c] \in {"publish", "wait"} => owned[c]
          BY <1>0, Zenon DEF CallInv
        <4>5. lock' = c <=> pc'[c] = "publish"
          BY <4>1, <4>2, Zenon
        <4> QED
          BY <4>1, <4>3, <4>4, <4>5, ZenonT(20)
      <3> QED
        BY <3>1, <3>2, ZenonT(20)
    <2> QED
      BY <2>1, ZenonT(20) DEF CallInv
  <1>22. WorkInv'
    <2>1. ASSUME NEW x \in Desc
          PROVE  /\ In(ring', x) \/ x \in busy \/ In(uring, x) =>
                      \E c \in Holding' : owned'[c] /\ idx'[c] = x
                 /\ ~(In(ring', x) /\ x \in busy) /\ ~(In(ring', x) /\ In(uring, x))
                 /\ ~(x \in busy /\ In(uring, x))
                 /\ In(uring, x) => info'[x].status = 0
      <3>1. CASE x = i
        BY <1>7, <1>15, <1>17, <3>1, ZenonT(40)
      <3>2. CASE x # i
        <4>1. In(ring', x) <=> In(ring, x)
          BY <1>11, <3>2
        <4>2. \A c \in Holding : owned[c] /\ idx[c] = x => owned'[c] /\ idx'[c] = x
          BY <1>5, <1>15, Zenon
        <4> QED
          <5>1. /\ In(ring, x) \/ x \in busy \/ In(uring, x) =>
                     \E c \in Holding : owned[c] /\ idx[c] = x
                /\ ~(In(ring, x) /\ x \in busy) /\ ~(In(ring, x) /\ In(uring, x))
                /\ ~(x \in busy /\ In(uring, x))
                /\ In(uring, x) => info[x].status = 0
            BY <1>0, Zenon DEF WorkInv
          <5>2. info'[x] = info[x]
            BY <1>14, <3>2, Zenon
          <5> QED
            BY <1>17, <4>1, <4>2, <5>1, <5>2, Zenon
      <3> QED
        BY <3>1, <3>2, ZenonT(40)
    <2>2. ASSUME NEW c \in Holding'
          PROVE  /\ owned'[c] => In(ring', idx'[c]) \/ idx'[c] \in busy \/ In(uring, idx'[c])
                 /\ moved[c] = IF owned'[c] /\ ~In(uring, idx'[c]) THEN NoArg ELSE arg'[c]
      <3>1. CASE c = b
        <4>1. b \notin Holding
          BY ZenonT(20) DEF Holding
        <4> QED
          BY <1>0, <1>4, <1>7, <1>11, <1>15, <3>1, <4>1, ZenonT(40) DEF CallInv
      <3>2. CASE c # b
        <4>1. c \in Holding /\ c \in Buf /\ idx[c] \in Desc
          BY <1>5, <1>17, <3>2 DEF Formatted
        <4> QED
          BY <1>0, <1>11, <1>15, <3>2, <4>1, ZenonT(40) DEF WorkInv
      <3> QED
        BY <3>1, <3>2, ZenonT(40)
    <2> QED
      BY <1>0, <1>3, <1>11, <2>1, <2>2, ZenonT(40) DEF WorkInv
  <1> QED
    BY <1>12, <1>16, <1>20, <1>21, <1>22, SMTT(30) DEF VirtioInv

-----------------------------------------------------------------------------
(* The invariant *)

\* virtio_disk_init() establishes it.
LEMMA VirtioInit ==
  ASSUME Constants, Init
  PROVE  VirtioInv
  <1>1. UINT16 \in Nat \ {0} /\ NUM \in Nat \ {0}
    BY DEF Constants, Divides
  <1>2. TypeOK
    <2>1. info \in [Desc -> [b : Buf \cup {Nil}, status : {0, 255}]]
      BY DEF Init
    <2>2. {avail, used, used_idx, dlast} \subseteq 0..(UINT16 - 1) /\ busy \subseteq Desc
      BY <1>1 DEF Init
    <2> QED
      BY <2>1, <2>2, ZenonT(40) DEF Init, TypeOK, PCs
  <1>3. Holding = {}
    BY ZenonT(20) DEF Init, Holding
  <1>4. ChainInv /\ CallInv
    BY <1>3, ZenonT(20) DEF Init, ChainInv, CallInv, Constants
  <1>5. \A i \in Desc : ~In(ring, i) /\ ~In(uring, i) /\ i \notin busy
    BY ZenonT(20) DEF Init, In, Constants
  <1>6. Injective(ring) /\ Injective(uring)
    BY SMTT(30), ZenonT(20) DEF Init, Injective
  <1>7. WorkInv
    BY <1>3, <1>5, <1>6, ZenonT(20) DEF WorkInv
  <1>8. Live(ring, 0, 0) /\ Live(uring, 0, 0)
    <2>1. (0 - 0) % UINT16 = 0
      BY <1>1, AheadIs, SMTT(30) DEF Ahead
    <2>2. ASSUME NEW k \in 0..(NUM - 1) PROVE ring[(0 + k) % NUM] = Nil /\ uring[(0 + k) % NUM] = Nil
      <3>1. 0 + k \in Int
        BY <1>1
      <3>2. (0 + k) % NUM \in Desc
        BY <3>1, SlotType, ZenonT(20)
      <3> QED
        BY <3>2 DEF Init
    <2> QED
      BY <1>1, <2>1, <2>2, SMTT(30) DEF Live
  <1>9. RingInv
    BY <1>8, SMTT(30) DEF RingInv, Avail, Init, Constants
  <1> QED
    BY <1>2, <1>4, <1>7, <1>9 DEF VirtioInv

\* A call takes its descriptors or sleeps, with the arguments it came with.
LEMMA TakeStep ==
  ASSUME Constants, VirtioInv, NEW b \in Buf, NEW a \in Request, TakeDescs(b, a),
         pc[b] \in {"idle", "retry"}
  PROVE  VirtioInv'
  BY FailStep, FormatStep, ZenonT(40) DEF TakeDescs

\* The arguments of a call that waits for descriptors.
LEMMA ArgOf ==
  ASSUME VirtioInv, NEW b \in Buf, pc[b] # "idle"
  PROVE  arg[b] \in Request
  BY DEF VirtioInv, TypeOK, CallInv

\* Every step keeps it.
LEMMA VirtioStep ==
  ASSUME Constants, VirtioInv, [Next]_vars
  PROVE  VirtioInv'
  <1>1. ASSUME NEW b \in Buf, NEW op \in {"read", "write"}, Rw(b, op) PROVE VirtioInv'
    <2>1. [op |-> op, blk |-> b] \in Request
      BY ZenonT(20) DEF Request
    <2> QED
      BY <1>1, <2>1, TakeStep, SMTT(30) DEF Rw
  <1>2. ASSUME NEW b \in Buf, Retry(b) PROVE VirtioInv'
    BY <1>2, ArgOf, TakeStep, ZenonT(20) DEF Retry
  <1>3. ASSUME UNCHANGED vars PROVE VirtioInv'
    <2>0. TypeOK /\ CallInv /\ RingInv
      BY SMTT(30) DEF VirtioInv
    <2>1. Holding' = Holding /\ Avail' = Avail
      BY <1>3, ZenonT(20) DEF vars, Holding, Avail
    <2>2. TypeOK' /\ CallInv'
      BY <1>3, <2>0, <2>1 DEF vars, driver, device, TypeOK, CallInv
    <2> QED
      BY <1>3, <2>0, <2>1, <2>2, Kept, SMTT(30) DEF vars, RingInv
  <1> QED
    BY <1>1, <1>2, <1>3, PublishStep, SleepStep, ReturnStep, FetchStep,
        DoneStep, IntrStep, EntryStep
    DEF Next

\* Between its sections under vdisk_lock the driver keeps chains, rings and
\* calls consistent with what the device has taken and finished, for any number
\* of buffers and descriptors and however often the 16 bit indices wrap.
THEOREM VirtioInvariant ==
  ASSUME Constants PROVE Spec => []VirtioInv
  <1>1. Init => VirtioInv
    BY VirtioInit
  <1>2. VirtioInv /\ [Next]_vars => VirtioInv'
    BY VirtioStep
  <1> QED
    BY <1>1, <1>2, PTL DEF Spec

\* free_desc() wakes all who sleep for descriptors, and nobody goes to sleep
\* for them or takes any but as alloc3_desc() finds.
LEMMA DescSleepStep ==
  ASSUME VirtioInv, DescSleepersMustWait, [Next]_vars
  PROVE  DescSleepersMustWait'
  <1> DEFINE Three == \E i, j, k \in FreeDesc : alloc3_desc(i, j, k)
  <1>0. pc \in [Buf -> PCs]
    BY DEF VirtioInv, TypeOK
  <1>1. ASSUME UNCHANGED free PROVE Three' <=> Three
    BY <1>1, ZenonT(20) DEF FreeDesc, alloc3_desc
  <1>2. ASSUME UNCHANGED free, \A b \in Buf : pc'[b] = "nodesc" => pc[b] = "nodesc"
        PROVE  DescSleepersMustWait'
    BY <1>1, <1>2, ZenonT(20) DEF DescSleepersMustWait
  <1>3. ASSUME NEW b \in Buf, NEW a, TakeDescs(b, a) PROVE DescSleepersMustWait'
    <2>1. CASE AllocFails(b)
      <3>1. UNCHANGED free /\ ~Three
        BY <2>1, ZenonT(20) DEF AllocFails, driver
      <3> QED
        BY <3>1, <1>1, ZenonT(20) DEF DescSleepersMustWait
    <2>2. CASE AllocAndFormat(b, a)
      <3>1. \A c \in Buf : pc[c] # "nodesc"
        BY <2>2, ZenonT(20) DEF AllocAndFormat, DescSleepersMustWait
      <3>2. pc' = [pc EXCEPT ![b] = "publish"]
        BY <2>2, ZenonT(20) DEF AllocAndFormat
      <3>3. \A c \in Buf : pc'[c] # "nodesc"
        BY <1>0, <3>1, <3>2
      <3> QED
        BY <3>3, ZenonT(20) DEF DescSleepersMustWait
    <2> QED
      BY <1>3, <2>1, <2>2, ZenonT(20) DEF TakeDescs
  <1>4. ASSUME NEW b \in Buf, Return(b) PROVE DescSleepersMustWait'
    <2>1. pc' = [WakeAlloc(pc) EXCEPT ![b] = "idle"]
      BY <1>4, ZenonT(20) DEF Return
    <2>2. \A c \in Buf : pc'[c] # "nodesc"
      BY <1>0, <2>1 DEF WakeAlloc
    <2> QED
      BY <2>2, ZenonT(20) DEF DescSleepersMustWait
  <1>5. ASSUME NEW b \in Buf, Publish(b) \/ SleepAgain(b) \/ Killed(b)
        PROVE  DescSleepersMustWait'
    BY <1>0, <1>2, <1>5 DEF Publish, SleepAgain, Killed, driver
  <1>6. ASSUME DevFetch \/ (\E i \in Desc : DevDone(i)) \/ IntrEnter \/ IntrExit
        PROVE  DescSleepersMustWait'
    BY <1>2, <1>6 DEF DevFetch, DevDone, IntrEnter, IntrExit, driver
  <1>7. ASSUME IntrEntry PROVE DescSleepersMustWait'
    BY <1>0, <1>2, <1>7 DEF IntrEntry, driver
  <1>8. ASSUME UNCHANGED vars PROVE DescSleepersMustWait'
    BY <1>2, <1>8 DEF vars, driver
  <1> QED
    BY <1>3, <1>4, <1>5, <1>6, <1>7, <1>8, ZenonT(40) DEF Next, Rw, Retry

\* The descriptors not free are exactly the chains of the calls that hold
\* theirs, three each and disjoint: alloc3_desc() and free_chain() neither lose
\* nor share one, a pending entry of the used ring has its status written and
\* its interrupt raised, and nobody sleeps for descriptors past a free_desc().
THEOREM DiskDriver ==
  ASSUME Constants PROVE Spec => []DriverConsistent
  <1>1. ASSUME VirtioInv PROVE DescriptorsOwned
    <2>0. ChainInv /\ TypeOK
      BY <1>1 DEF VirtioInv
    <2>1. ASSUME NEW b \in Holding
          PROVE  /\ \E x, y, z \in Chain(idx[b]) :
                      x # y /\ x # z /\ y # z /\ Chain(idx[b]) = {x, y, z}
                 /\ Chain(idx[b]) \subseteq Desc \ FreeDesc
      <3> DEFINE i == idx[b]
                 j == next[i]
                 k == next[j]
      <3>1. /\ Chain(i) = {i, j, k} /\ {i, j, k} \subseteq Desc /\ i # j /\ i # k /\ j # k
            /\ ~free[i] /\ ~free[j] /\ ~free[k]
        BY <2>0, ChainIs, ZenonT(20) DEF Formatted
      <3> HIDE DEF i, j, k
      <3>2. i \in Chain(i) /\ j \in Chain(i) /\ k \in Chain(i)
        BY <3>1, ZenonT(20)
      <3>3. Chain(i) \subseteq Desc \ FreeDesc
        BY <3>1 DEF FreeDesc
      <3>4. \E x, y, z \in Chain(i) : x # y /\ x # z /\ y # z /\ Chain(i) = {x, y, z}
        BY <3>1, <3>2, Zenon
      <3> QED
        BY <3>3, <3>4, Zenon DEF i
    <2>2. ASSUME NEW x \in Desc \ FreeDesc PROVE x \in UNION {Chain(idx[b]) : b \in Holding}
      BY <2>0 DEF ChainInv, FreeDesc
    <2>3. Desc \ FreeDesc = UNION {Chain(idx[b]) : b \in Holding}
      <3>1. ASSUME NEW x \in UNION {Chain(idx[b]) : b \in Holding} PROVE x \in Desc \ FreeDesc
        BY <2>1, Zenon
      <3> QED
        BY <2>2, <3>1, Zenon
    <2> QED
      BY <2>0, <2>1, <2>3, Zenon DEF DescriptorsOwned, ChainInv
  <1>2. ASSUME VirtioInv PROVE NoLostCompletion
    <2>1. ASSUME used_idx # used PROVE info[uring[used_idx % NUM]].status = 0
      <3>1. /\ used \in 0..(UINT16 - 1) /\ used_idx \in 0..(UINT16 - 1)
            /\ Live(uring, used_idx, used) /\ uring \in [Desc -> Desc \cup {Nil}]
        BY <1>2, SMTT(30) DEF VirtioInv, TypeOK, RingInv
      <3>2. used_idx % NUM \in Desc
        BY <3>1, SlotType, SMTT(30)
      <3>3. uring[used_idx % NUM] # Nil
        BY <2>1, <3>1, LiveFirst, SMTT(30)
      <3> QED
        BY <1>2, <3>1, <3>2, <3>3, SMTT(30) DEF VirtioInv, WorkInv, In
    <2> QED
      BY <1>2, <2>1, ZenonT(20) DEF VirtioInv, RingInv, CallInv, NoLostCompletion
  <1>3. Init => DescSleepersMustWait
    BY DEF Init, DescSleepersMustWait
  <1>4. VirtioInv /\ DescSleepersMustWait /\ [Next]_vars => DescSleepersMustWait'
    BY DescSleepStep
  <1>5. VirtioInv /\ DescSleepersMustWait => DriverConsistent
    BY <1>1, <1>2 DEF DriverConsistent
  <1> QED
    BY <1>3, <1>4, <1>5, VirtioInvariant, PTL DEF Spec

-----------------------------------------------------------------------------
(* The driver implements the block device *)

\* A call starts with its own arguments or goes on with them.
LEMMA TakeRefines ==
  ASSUME VirtioInv, NEW b \in Buf, NEW a \in Request, TakeDescs(b, a),
         pc[b] = "idle" \/ (pc[b] = "retry" /\ a = arg[b])
  PROVE  [BD!Next]_(BD!vars)
  <1>1. arg \in [Buf -> Request \cup {NoArg}] /\ arg' = [arg EXCEPT ![b] = a] /\ moved' = moved
    BY SMTT(30), ZenonT(20) DEF VirtioInv, TypeOK, TakeDescs, device
  <1>2. CASE pc[b] = "idle"
    <2>1. arg[b] = BD!None /\ a \in BD!Request
      BY <1>2, SMTT(30) DEF VirtioInv, CallInv, BD!None, NoArg, Request, BD!Request
    <2>2. BD!Start(b, a)
      BY <1>1, <2>1 DEF BD!Start
    <2> QED
      BY <2>1, <2>2, ZenonT(20) DEF BD!Next
  <1>3. CASE a = arg[b]
    BY <1>1, <1>3, SMTT(30) DEF BD!vars
  <1> QED
    BY <1>2, <1>3, ZenonT(20)

\* The device moves the data of the request it finishes.
LEMMA DoneRefines ==
  ASSUME VirtioInv, NEW i \in Desc, DevDone(i)
  PROVE  [BD!Next]_(BD!vars)
  <1>0. TypeOK /\ ChainInv /\ CallInv /\ WorkInv
    BY DEF VirtioInv
  <1>1. i \in busy /\ ~In(uring, i)
    BY <1>0, SMTT(30) DEF WorkInv, DevDone
  <1>2. PICK b \in Holding : owned[b] /\ idx[b] = i
    BY <1>0, <1>1, ZenonT(40) DEF WorkInv
  <1>3. b \in Buf /\ addr[next[i]] = b /\ ops[i] = arg[b]
    BY <1>0, <1>2, ZenonT(40) DEF ChainInv, Formatted, Holding
  <1>4. moved[b] = NoArg /\ arg[b] # NoArg
    <2>1. moved[b] = IF owned[b] /\ ~In(uring, idx[b]) THEN NoArg ELSE arg[b]
      BY <1>0, Zenon DEF WorkInv
    <2>2. moved[b] = NoArg
      BY <1>1, <1>2, <2>1, Zenon
    <2>3. pc[b] # "idle"
      BY Zenon DEF Holding
    <2>4. arg[b] # NoArg
      BY <1>0, <1>3, <2>3, Zenon DEF CallInv
    <2> QED
      BY <2>2, <2>4
  <1>5. BD!Transfer(b)
    BY <1>3, <1>4 DEF DevDone, BD!Transfer, BD!None, NoArg
  <1> QED
    BY <1>3, <1>5 DEF BD!Next

\* virtio_disk_rw() returns after the transfer.
LEMMA ReturnRefines ==
  ASSUME VirtioInv, NEW b \in Buf, Return(b)
  PROVE  [BD!Next]_(BD!vars)
  <1>1. b \in Holding /\ ~owned[b]
    BY DEF Return, Holding
  <1>2. moved[b] = arg[b] /\ arg[b] # NoArg
    BY <1>1 DEF VirtioInv, WorkInv, CallInv, Return
  <1>3. BD!Finish(b)
    BY <1>2 DEF Return, BD!Finish, BD!None, NoArg
  <1> QED
    BY <1>3 DEF BD!Next

\* Every step is a step of the block device or changes nothing of it.
LEMMA StepRefines ==
  ASSUME VirtioInv, [Next]_vars
  PROVE  [BD!Next]_(BD!vars)
  <1>1. ASSUME NEW b \in Buf, NEW op \in {"read", "write"}, Rw(b, op) PROVE [BD!Next]_(BD!vars)
    <2>1. [op |-> op, blk |-> b] \in Request
      BY SMTT(30) DEF Request
    <2> QED
      BY <1>1, <2>1, TakeRefines, SMTT(30) DEF Rw
  <1>2. ASSUME NEW b \in Buf, Retry(b) PROVE [BD!Next]_(BD!vars)
    BY <1>2, ArgOf, TakeRefines, ZenonT(20) DEF Retry
  <1>3. ASSUME NEW b \in Buf, Publish(b) \/ SleepAgain(b) \/ Killed(b) PROVE UNCHANGED BD!vars
    BY <1>3, SMTT(30) DEF Publish, SleepAgain, Killed, device, BD!vars
  <1>4. ASSUME DevFetch \/ IntrEnter \/ IntrEntry \/ IntrExit \/ UNCHANGED vars PROVE UNCHANGED BD!vars
    BY <1>4, Zenon DEF DevFetch, IntrEnter, IntrEntry, IntrExit, vars, device, BD!vars
  <1> QED
    BY <1>1, <1>2, <1>3, <1>4, ReturnRefines, DoneRefines, SMTT(30) DEF Next

\* virtio_disk_rw() is one transfer of its own block to or from its own buffer
\* between its call and its return: the driver with its rings, its interrupt and
\* a device that finishes requests in any order implements the block device that
\* the buffer cache is built on.
THEOREM DriverImplementsBlockDev ==
  ASSUME Constants PROVE Spec => ImplementsBlockDev
  <1>1. Init => BD!Init
    BY DEF Init, BD!Init, BD!None, NoArg
  <1>2. VirtioInv /\ [Next]_vars => [BD!Next]_(BD!vars)
    BY StepRefines
  <1> QED
    BY <1>1, <1>2, VirtioInvariant, PTL DEF Spec, ImplementsBlockDev, BD!Spec

-----------------------------------------------------------------------------
(* The clock *)

\* What n becomes as a uint.
LEMMA ArgMod ==
  ASSUME NEW n \in Arg \cup {0}
  PROVE  n \in Int /\ n % UINT \in 0..(UINT - 1) /\ n % UINT = Duration(n)
  <1>1. n \in Int /\ -UINT <= n /\ n < UINT /\ UINT \in Nat \ {0}
    BY ClockAssumption
  <1>2. n % UINT \in 0..(UINT - 1)
    BY <1>1, DivMod
  <1>3. /\ 0 <= n /\ n < UINT => n % UINT = n
        /\ -UINT <= n /\ n < 0 => n % UINT = n + UINT
    BY <1>1, ModNear, ZenonT(20)
  <1> QED
    BY <1>1, <1>2, <1>3 DEF Duration

\* Idle is no stage of sys_sleep().
LEMMA IdleIs == Idle.pc = "idle"
  BY SMTT(30) DEF Idle

\* A tick adds one to the ticks that have passed.
LEMMA OneMore ==
  ASSUME ClockTypeOK, NEW p \in User, real[p] = (ticks - th[p].ticks0) % UINT, real[p] < UINT - 1
  PROVE  (((ticks + 1) % UINT) - th[p].ticks0) % UINT = real[p] + 1
  <1> DEFINE t == th[p].ticks0
  <1>1. UINT \in Nat \ {0} /\ ticks \in 0..(UINT - 1) /\ t \in 0..(UINT - 1)
    BY ClockAssumption DEF ClockTypeOK
  <1>2. real[p] = Ahead(t, ticks, UINT) /\ Ahead(t, ticks, UINT) < UINT - 1
    BY DEF Ahead
  <1> HIDE DEF t
  <1>3. Ahead(t, Bumped(ticks, UINT), UINT) = Ahead(t, ticks, UINT) + 1
    BY <1>1, <1>2, AheadPut, ZenonT(20)
  <1> QED
    BY <1>2, <1>3 DEF Ahead, Bumped, t

\* What ClockInv says of one process.
UserInv(p) ==
  \/ th[p] = Idle /\ real[p] = 0
  \/ /\ th[p].pc # "idle" /\ real[p] = (ticks - th[p].ticks0) % UINT
     /\ th[p].pc = "sleep" => tickslock = p
     /\ th[p].pc \in {"sleep", "asleep"} => real[p] < th[p].n % UINT

\* A tick preserves it: nobody who can still be counting misses the tick.
LEMMA TickStep ==
  ASSUME ClockInv, Tick
  PROVE  ClockInv'
  <1>0. ClockTypeOK /\ \A p \in User : UserInv(p)
    BY DEF ClockInv, UserInv
  <1>1. UINT \in Nat \ {0} /\ tickslock = Nil /\ tickslock' = tickslock /\ victims' = victims
    BY ClockAssumption DEF Tick, TickMayCome
  <1>2. ticks' = (ticks + 1) % UINT /\ ticks' \in 0..(UINT - 1)
    <2>1. Bumped(ticks, UINT) \in 0..(UINT - 1)
      BY <1>0, <1>1, BumpedIs DEF ClockTypeOK
    <2> QED
      BY <2>1 DEF Tick, Count, Bumped
  <1>3. ASSUME NEW p \in User, th[p] # Idle
        PROVE  /\ real[p] < UINT - 1 /\ real'[p] = real[p] + 1
               /\ th'[p].pc = "test" /\ th'[p].ticks0 = th[p].ticks0 /\ th'[p].n = th[p].n
    <2>1. th[p].pc # "sleep"
      BY <1>0, <1>1, <1>3, ClockAssumption DEF UserInv
    <2>2. th[p].pc \in {"test", "asleep"}
      BY <1>0, <1>3, <2>1 DEF UserInv, ClockTypeOK
    <2>3. th[p].n % UINT \in 0..(UINT - 1)
      BY <1>0, ArgMod DEF ClockTypeOK
    <2>4. real[p] < UINT - 1
      BY <1>0, <1>1, <1>3, <2>2, <2>3 DEF UserInv, ClockTypeOK, Tick, TickMayCome
    <2>5. real'[p] = real[p] + 1
      <3>1. real[p] # UINT - 1
        BY <1>0, <1>1, <2>4 DEF ClockTypeOK
      <3> QED
        BY <1>3, <3>1 DEF Tick, Count
    <2>6. th'[p].pc = "test" /\ th'[p].ticks0 = th[p].ticks0 /\ th'[p].n = th[p].n
      BY <1>0, <2>2 DEF Tick, ClockTypeOK
    <2> QED
      BY <2>4, <2>5, <2>6
  <1>4. ASSUME NEW p \in User, th[p] = Idle PROVE th'[p] = Idle /\ real'[p] = 0
    BY <1>4 DEF Tick, Count, Idle
  <1>5. ASSUME NEW p \in User PROVE UserInv(p)'
    <2>1. CASE th[p] = Idle
      BY <1>4, <2>1 DEF UserInv
    <2>2. CASE th[p] # Idle
      <3>1. real[p] = (ticks - th[p].ticks0) % UINT
        BY <1>0, <2>2 DEF UserInv
      <3>2. (((ticks + 1) % UINT) - th[p].ticks0) % UINT = real[p] + 1
        BY <1>0, <1>3, <2>2, <3>1, OneMore
      <3> QED
        BY <1>2, <1>3, <2>2, <3>2 DEF UserInv
    <2> QED
      BY <2>1, <2>2
  <1>6. real' \in [User -> 0..(UINT - 1)]
    <2>1. \A p \in User : real'[p] \in 0..(UINT - 1)
      BY <1>0, <1>1, <1>3, <1>4 DEF ClockTypeOK
    <2> QED
      BY <2>1, ZenonT(20) DEF Tick, Count
  <1>7. th' \in [User -> [pc : {"idle", "test", "sleep", "asleep"}, ticks0 : 0..(UINT - 1),
                         n : Arg \cup {0}]]
    BY <1>0 DEF Tick, ClockTypeOK
  <1>8. ClockTypeOK'
    BY <1>0, <1>1, <1>2, <1>6, <1>7, ZenonT(20) DEF ClockTypeOK
  <1> QED
    BY <1>5, <1>8, ZenonT(20) DEF ClockInv, UserInv

\* A call, its test, its sleep() and kill() preserve it; nobody else moves.
LEMMA UserStep ==
  ASSUME ClockInv, NEW p \in User,
         Test(p) \/ Sleep(p) \/ KillUser(p) \/ \E n \in Arg : Call(p, n)
  PROVE  ClockInv'
  <1>0. ClockTypeOK /\ \A q \in User : UserInv(q)
    BY ZenonT(20) DEF ClockInv, UserInv
  <1>1. UINT \in Nat \ {0} /\ ticks' = ticks /\ ticks \in 0..(UINT - 1)
    BY <1>0, ClockAssumption DEF Test, Sleep, KillUser, Call, ClockTypeOK
  <1>2. ClockTypeOK'
    <2>1. CASE Test(p)
      BY <1>0, <1>1, <2>1 DEF Test, ClockTypeOK, Idle
    <2>2. CASE Sleep(p)
      BY <1>0, <2>2 DEF Sleep, ClockTypeOK
    <2>3. CASE KillUser(p)
      BY <1>0, <2>3 DEF KillUser, ClockTypeOK
    <2>4. ASSUME NEW n \in Arg, Call(p, n) PROVE ClockTypeOK'
      BY <1>0, <2>4 DEF Call, ClockTypeOK
    <2> QED
      BY <2>1, <2>2, <2>3, <2>4
  <1>3. ASSUME NEW q \in User, q # p PROVE UserInv(q)'
    <2>1. th'[q] = th[q] /\ real'[q] = real[q]
      BY <1>0, <1>3 DEF Test, Sleep, KillUser, Call, ClockTypeOK
    <2>2. tickslock = q => tickslock' = q
      <3>1. q # Nil
        BY ClockAssumption
      <3>2. CASE Sleep(p)
        BY <1>0, <1>3, <3>2 DEF Sleep, UserInv, Idle
      <3>3. CASE Test(p) \/ KillUser(p) \/ \E n \in Arg : Call(p, n)
        BY <1>3, <3>1, <3>3 DEF Test, KillUser, Call
      <3> QED
        BY <3>2, <3>3
    <2> QED
      BY <1>0, <1>1, <2>1, <2>2, ZenonT(20) DEF UserInv
  <1>4. UserInv(p)'
    <2>1. CASE Test(p)
      <3>1. CASE Over(p) \/ p \in victims
        BY <1>0, <2>1, <3>1 DEF Test, UserInv, ClockTypeOK
      <3>2. CASE ~(Over(p) \/ p \in victims)
        <4>1. /\ th'[p].pc = "sleep" /\ th'[p].ticks0 = th[p].ticks0 /\ th'[p].n = th[p].n
              /\ tickslock' = p /\ real' = real
          BY <1>0, <2>1, <3>2 DEF Test, ClockTypeOK
        <4>2. real[p] = (ticks - th[p].ticks0) % UINT
          BY <1>0, <2>1 DEF UserInv, Test, Idle
        <4>3. real[p] \in Int /\ th[p].n % UINT \in Int
          BY <1>0, ArgMod DEF ClockTypeOK
        <4>4. real[p] < th[p].n % UINT
          BY <3>2, <4>2, <4>3 DEF Over
        <4> QED
          BY <1>1, <4>1, <4>2, <4>4, ZenonT(20) DEF UserInv
      <3> QED
        BY <3>1, <3>2
    <2>2. CASE Sleep(p)
      BY <1>0, <1>1, <2>2 DEF Sleep, UserInv, ClockTypeOK, Idle
    <2>3. CASE KillUser(p)
      BY <1>0, <1>1, <2>3, ZenonT(20) DEF KillUser, UserInv, ClockTypeOK, Idle
    <2>4. ASSUME NEW n \in Arg, Call(p, n) PROVE UserInv(p)'
      <3>1. (ticks - ticks) % UINT = 0
        BY <1>1
      <3> QED
        BY <1>0, <1>1, <2>4, <3>1 DEF Call, UserInv, ClockTypeOK, Idle
    <2> QED
      BY <2>1, <2>2, <2>3, <2>4
  <1> QED
    BY <1>2, <1>3, <1>4, ZenonT(20) DEF ClockInv, UserInv

\* In every state of a call, ticks - ticks0 is the number of ticks that have
\* passed since it began, and who sleeps has time left.
THEOREM ClockInvariant == ClockSpec => []ClockInv
  <1>1. ClockInit => ClockInv
    BY ClockAssumption DEF ClockInit, ClockInv, ClockTypeOK, Idle
  <1>2. ClockInv /\ [ClockNext]_clockvars => ClockInv'
    <2>1. ASSUME ClockInv, UNCHANGED clockvars PROVE ClockInv'
      BY <2>1 DEF clockvars, ClockInv, ClockTypeOK
    <2> QED
      BY <2>1, TickStep, UserStep DEF ClockNext
  <1> QED
    BY <1>1, <1>2, PTL DEF ClockSpec

\* sys_sleep(n) returns 0 after n ticks or more, or 2^32 + n for a negative n,
\* wherever ticks wraps, and nobody is asleep in it whose time is over.
THEOREM SleepLasts == ClockSpec => SleptEnough
  <1>1. ClockInv => AsleepInTime
    <2> SUFFICES ASSUME ClockInv, NEW p \in User, th[p].pc = "asleep"
                 PROVE  real[p] < Duration(th[p].n)
      BY DEF AsleepInTime
    <2>1. th[p].n % UINT = Duration(th[p].n)
      BY ArgMod DEF ClockInv, ClockTypeOK
    <2>2. th[p] # Idle
      BY IdleIs, ZenonT(20)
    <2> QED
      BY <2>1, <2>2, ZenonT(20) DEF ClockInv
  <1>2. ClockInv /\ [ClockNext]_clockvars => [SleptEnoughStep]_clockvars
    <2> SUFFICES ASSUME ClockInv, ClockNext, NEW p \in User,
                        th[p].pc = "test", th'[p] = Idle, p \notin victims
                 PROVE  real[p] >= Duration(th[p].n)
      BY DEF SleptEnoughStep
    <2>1. th'[p].pc = "idle"
      BY DEF Idle
    <2>2. Test(p) /\ Over(p)
      <3>1. ASSUME Tick PROVE FALSE
        BY <2>1, <3>1 DEF Tick
      <3>2. ASSUME NEW q \in User, Test(q) \/ Sleep(q) \/ KillUser(q) \/ \E n \in Arg : Call(q, n),
                   q # p
            PROVE  FALSE
        BY <2>1, <3>2 DEF Test, Sleep, KillUser, Call, ClockInv, ClockTypeOK
      <3>3. ~Sleep(p) /\ ~KillUser(p) /\ \A n \in Arg : ~Call(p, n)
        BY <2>1, ZenonT(20) DEF Sleep, KillUser, Call, ClockInv, ClockTypeOK, Idle
      <3>4. Test(p)
        BY <3>1, <3>2, <3>3 DEF ClockNext
      <3>5. Over(p)
        BY <2>1, <3>4, ZenonT(20) DEF Test, ClockInv, ClockTypeOK
      <3> QED
        BY <3>4, <3>5
    <2>3. real[p] >= th[p].n % UINT
      <3>1. th[p] # Idle
        BY IdleIs, ZenonT(20)
      <3>2. real[p] = (ticks - th[p].ticks0) % UINT
        BY <3>1, ZenonT(20) DEF ClockInv
      <3> QED
        BY <2>2, <3>2, ZenonT(20) DEF Over
    <2>4. th[p].n % UINT = Duration(th[p].n)
      BY ArgMod DEF ClockInv, ClockTypeOK
    <2> QED
      BY <2>3, <2>4
  <1> QED
    BY <1>1, <1>2, ClockInvariant, PTL DEF ClockSpec, SleptEnough

=============================================================================
