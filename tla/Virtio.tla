------------------------------- MODULE Virtio -------------------------------
(***************************************************************************)
(* The driver of kernel/virtio_disk.c and the device it talks to through   *)
(* the descriptor table and the two rings in memory.                       *)
(*                                                                         *)
(* The caller of virtio_disk_rw() holds the sleep lock of its buffer, so a *)
(* buffer stands for the process that is in the call.  One step is one     *)
(* section under vdisk_lock, cut where the device can see memory change:   *)
(* at the increment of avail->idx and between the entries of the used ring.*)
(* What is read once and never again (a ring slot that was consumed, the   *)
(* header of a finished request) is reset to Nil, not left to linger.      *)
(***************************************************************************)
EXTENDS Integers, Null

CONSTANTS Buf,     \* buffers, and the blocks they cache
          NUM,     \* descriptors, and entries of each ring
          UINT16   \* indices count modulo this, a multiple of NUM

Desc == 0..(NUM - 1)

VARIABLES free,    \* disk.free
          next,    \* desc[i].next where flags has VRING_DESC_F_NEXT, else Nil
          addr,    \* desc[i].addr where it is a buffer's data
          ops,     \* disk.ops: type and sector
          info,    \* disk.info: the buffer and the status byte
          ring,    \* avail->ring
          avail,   \* avail->idx
          uring,   \* used->ring
          used,    \* used->idx
          used_idx,\* disk.used_idx
          lock,    \* who holds vdisk_lock: "none", "intr" or a buffer
          irq,     \* the interrupt line
          owned,   \* b->disk
          idx,     \* the local idx[0] of the call on b
          arg,     \* the arguments of the call on b
          pc,      \* where the call on b is
          dlast,   \* device: how far it has read avail->ring
          busy,    \* device: heads of the chains it works on
          moved    \* history: the transfer made into or out of b

driver == <<free, next, addr, ops, info, ring>>
device == <<dlast, busy, moved>>
vars == <<driver, avail, uring, used, used_idx, lock, irq, owned, idx, arg, pc,
          device>>

\* "nodesc": asleep on &disk.free[0]; "retry": woken from that sleep;
\* "publish": holds vdisk_lock, about to increment avail->idx; "wait": asleep
\* on b; "woken": woken from that sleep.
PCs == {"idle", "nodesc", "retry", "publish", "wait", "woken"}

NoArg == [op |-> "none"]
FreeDesc == {i \in Desc : free[i]}
BumpIdx(n) == (n + 1) % UINT16

\* virtio_disk_init: the rings are zeroed pages and all descriptors unused.
Init ==
  /\ free = [i \in Desc |-> TRUE]
  /\ next = [i \in Desc |-> Nil]
  /\ addr = [i \in Desc |-> Nil]
  /\ ops = [i \in Desc |-> NoArg]
  /\ info = [i \in Desc |-> [b |-> Nil, status |-> 0]]
  /\ ring = [i \in Desc |-> Nil]
  /\ uring = [i \in Desc |-> Nil]
  /\ avail = 0 /\ used = 0 /\ used_idx = 0 /\ dlast = 0
  /\ lock = "none" /\ irq = FALSE /\ busy = {}
  /\ owned = [b \in Buf |-> FALSE]
  /\ idx = [b \in Buf |-> Nil]
  /\ arg = [b \in Buf |-> NoArg]
  /\ pc = [b \in Buf |-> "idle"]
  /\ moved = [b \in Buf |-> NoArg]

----------------------------------------------------------------------------
(* virtio_disk_rw *)

\* wakeup(&disk.free[0]), from free_desc().
WakeAlloc(f) == [b \in Buf |-> IF f[b] = "nodesc" THEN "retry" ELSE f[b]]

\* Each alloc_desc() scans from 0, so alloc3_desc() takes the three lowest.
alloc3_desc(i, j, k) == i < j /\ j < k /\ \A d \in FreeDesc \ {i, j} : k <= d

\* Mutant: what alloc3_desc() had taken when it fails is lost.
AllocFailsLeaks(b) ==
  /\ ~\E i, j, k \in FreeDesc : alloc3_desc(i, j, k)
  /\ pc' = [pc EXCEPT ![b] = "nodesc"]
  /\ free' = [i \in Desc |-> FALSE]
  /\ UNCHANGED <<next, addr, ops, info, ring, lock, owned, idx>>

\* alloc3_desc() fails: what it had taken it gives back, with a wakeup for
\* each, and the caller sleeps.
AllocFails(b) ==
  /\ ~\E i, j, k \in FreeDesc : alloc3_desc(i, j, k)
  /\ pc' = [(IF FreeDesc = {} THEN pc ELSE WakeAlloc(pc)) EXCEPT ![b] = "nodesc"]
  /\ UNCHANGED <<driver, lock, owned, idx>>

\* alloc3_desc() succeeds; the chain header, data, status is formatted and
\* its head put in the ring.
AllocAndFormat(b, a) ==
  /\ \E i, j, k \in FreeDesc :
       /\ alloc3_desc(i, j, k)
       /\ free' = [free EXCEPT ![i] = FALSE, ![j] = FALSE, ![k] = FALSE]
       /\ ops' = [ops EXCEPT ![i] = a]
       /\ next' = [next EXCEPT ![i] = j, ![j] = k, ![k] = Nil]
       /\ addr' = [addr EXCEPT ![j] = b]
       /\ info' = [info EXCEPT ![i] = [b |-> b, status |-> 255]]
       /\ ring' = [ring EXCEPT ![avail % NUM] = i]
       /\ idx' = [idx EXCEPT ![b] = i]
  /\ owned' = [owned EXCEPT ![b] = TRUE]
  /\ lock' = b
  /\ pc' = [pc EXCEPT ![b] = "publish"]

TakeDescs(b, a) ==
  /\ lock = "none"
  /\ AllocFails(b) \/ AllocAndFormat(b, a)
  /\ arg' = [arg EXCEPT ![b] = a]
  /\ UNCHANGED <<avail, uring, used, used_idx, irq, device>>

\* The sector follows from b->blockno, and a block has one buffer.
Rw(b, op) == pc[b] = "idle" /\ TakeDescs(b, [op |-> op, blk |-> b])
Retry(b) == pc[b] = "retry" /\ TakeDescs(b, arg[b])

\* avail->idx += 1 and the notification; b->disk is still 1, so sleep(b).
Publish(b) ==
  /\ pc[b] = "publish"
  /\ avail' = BumpIdx(avail)
  /\ lock' = "none"
  /\ pc' = [pc EXCEPT ![b] = "wait"]
  /\ UNCHANGED <<driver, uring, used, used_idx, irq, owned, idx, arg, device>>

\* The descriptors free_chain(i) walks over.
Chain(i) ==
  LET j == next[i] IN
  {i} \cup (IF j = Nil THEN {}
            ELSE {j} \cup (IF next[j] = Nil THEN {} ELSE {next[j]}))

\* Back from sleep(b): go on sleeping while the device owns the buffer.
SleepAgain(b) ==
  /\ pc[b] = "woken" /\ lock = "none" /\ owned[b]
  /\ pc' = [pc EXCEPT ![b] = "wait"]
  /\ UNCHANGED <<driver, avail, uring, used, used_idx, lock, irq, owned, idx,
                 arg, device>>

\* Mutant: an if where virtio_disk_rw() has while(b->disk == 1).
ReturnWoken(b) ==
  LET c == Chain(idx[b]) IN
  /\ pc[b] = "woken" /\ lock = "none"
  /\ info' = [info EXCEPT ![idx[b]].b = Nil]
  /\ ops' = [ops EXCEPT ![idx[b]] = NoArg]
  /\ free' = [i \in Desc |-> free[i] \/ i \in c]
  /\ next' = [i \in Desc |-> IF i \in c THEN Nil ELSE next[i]]
  /\ addr' = [i \in Desc |-> IF i \in c THEN Nil ELSE addr[i]]
  /\ idx' = [idx EXCEPT ![b] = Nil]
  /\ arg' = [arg EXCEPT ![b] = NoArg]
  /\ pc' = [WakeAlloc(pc) EXCEPT ![b] = "idle"]
  /\ moved' = [moved EXCEPT ![b] = NoArg]
  /\ UNCHANGED <<ring, avail, uring, used, used_idx, lock, irq, owned, dlast,
                 busy>>

Return(b) ==
  LET c == Chain(idx[b]) IN
  /\ pc[b] = "woken" /\ lock = "none" /\ ~owned[b]
  /\ info' = [info EXCEPT ![idx[b]].b = Nil]
  /\ ops' = [ops EXCEPT ![idx[b]] = NoArg]
  /\ free' = [i \in Desc |-> free[i] \/ i \in c]
  /\ next' = [i \in Desc |-> IF i \in c THEN Nil ELSE next[i]]
  /\ addr' = [i \in Desc |-> IF i \in c THEN Nil ELSE addr[i]]
  /\ idx' = [idx EXCEPT ![b] = Nil]
  /\ arg' = [arg EXCEPT ![b] = NoArg]
  /\ pc' = [WakeAlloc(pc) EXCEPT ![b] = "idle"]
  /\ moved' = [moved EXCEPT ![b] = NoArg]
  /\ UNCHANGED <<ring, avail, uring, used, used_idx, lock, irq, owned, dlast,
                 busy>>

\* kill() makes any sleeping process runnable.
Killed(b) ==
  /\ pc[b] \in {"nodesc", "wait"}
  /\ pc' = [pc EXCEPT ![b] = IF @ = "wait" THEN "woken" ELSE "retry"]
  /\ UNCHANGED <<driver, avail, uring, used, used_idx, lock, irq, owned, idx,
                 arg, device>>

----------------------------------------------------------------------------
(* The device *)

DevFetch ==
  /\ dlast # avail
  /\ busy' = busy \cup {ring[dlast % NUM]}
  /\ ring' = [ring EXCEPT ![dlast % NUM] = Nil]
  /\ dlast' = BumpIdx(dlast)
  /\ UNCHANGED <<free, next, addr, ops, info, avail, uring, used, used_idx,
                 lock, irq, owned, idx, arg, pc, moved>>

\* It finishes the chains in any order: moves the data, writes the status
\* byte, adds the head to the used ring and raises its interrupt.
DevDone(i) ==
  /\ i \in busy
  /\ busy' = busy \ {i}
  /\ moved' = [moved EXCEPT ![addr[next[i]]] = ops[i]]
  /\ info' = [info EXCEPT ![i].status = 0]
  /\ uring' = [uring EXCEPT ![used % NUM] = i]
  /\ used' = BumpIdx(used)
  /\ irq' = TRUE
  /\ UNCHANGED <<free, next, addr, ops, ring, avail, used_idx, lock, owned, idx,
                 arg, pc, dlast>>

----------------------------------------------------------------------------
(* virtio_disk_intr *)

IntrEnter ==
  /\ irq /\ lock = "none"
  /\ lock' = "intr"
  /\ irq' = FALSE
  /\ UNCHANGED <<driver, avail, uring, used, used_idx, owned, idx, arg, pc,
                 device>>

\* Mutant: no wakeup(b).
IntrEntrySilent ==
  LET id == uring[used_idx % NUM]
  IN  /\ lock = "intr" /\ used_idx # used
      /\ owned' = [owned EXCEPT ![info[id].b] = FALSE]
      /\ uring' = [uring EXCEPT ![used_idx % NUM] = Nil]
      /\ used_idx' = BumpIdx(used_idx)
      /\ UNCHANGED <<driver, avail, used, lock, irq, idx, arg, pc, device>>

IntrEntry ==
  LET id == uring[used_idx % NUM]
      b  == info[id].b
  IN  /\ lock = "intr" /\ used_idx # used
      /\ owned' = [owned EXCEPT ![b] = FALSE]
      /\ pc' = [pc EXCEPT ![b] = IF @ = "wait" THEN "woken" ELSE @]
      /\ uring' = [uring EXCEPT ![used_idx % NUM] = Nil]
      /\ used_idx' = BumpIdx(used_idx)
      /\ UNCHANGED <<driver, avail, used, lock, irq, idx, arg, device>>

IntrExit ==
  /\ lock = "intr" /\ used_idx = used
  /\ lock' = "none"
  /\ UNCHANGED <<driver, avail, uring, used, used_idx, irq, owned, idx, arg, pc,
                 device>>

----------------------------------------------------------------------------
Next ==
  \/ \E b \in Buf, op \in {"read", "write"} : Rw(b, op)
  \/ \E b \in Buf : Retry(b)
  \/ \E b \in Buf : Publish(b)
  \/ \E b \in Buf : SleepAgain(b)
  \/ \E b \in Buf : Return(b)
  \/ \E b \in Buf : Killed(b)
  \/ DevFetch
  \/ \E i \in Desc : DevDone(i)
  \/ IntrEnter \/ IntrEntry \/ IntrExit

Spec == Init /\ [][Next]_vars

\* The device serves what it is given and its interrupt is taken in the end;
\* a process gets vdisk_lock if it keeps finding it free.  Nothing is assumed
\* of those who wait for descriptors.
Fairness ==
  /\ WF_vars(DevFetch) /\ \A i \in Desc : WF_vars(DevDone(i))
  /\ SF_vars(IntrEnter) /\ WF_vars(IntrEntry \/ IntrExit)
  /\ \A b \in Buf : WF_vars(Publish(b)) /\ SF_vars(SleepAgain(b) \/ Return(b))

----------------------------------------------------------------------------
(* Properties *)

BD == INSTANCE BlockDev WITH req <- arg, Block <- Buf

\* virtio_disk_rw() is one transfer of its own block to or from its own
\* buffer, whatever the order in which the device finishes the requests in
\* flight, however the indices wrap and whoever is woken by kill().
ImplementsBlockDev == BD!Spec

\* Descriptors are neither lost nor shared: those not free are exactly the
\* chains of the calls that have taken theirs, three each, so free_desc()
\* never meets a free one and the ring never holds more heads than it has room.
Holding == {b \in Buf : pc[b] \in {"publish", "wait", "woken"}}
DescriptorsOwned ==
  /\ \A b \in Holding : \E i, j, k \in Chain(idx[b]) :
       i # j /\ i # k /\ j # k /\ Chain(idx[b]) = {i, j, k}
  /\ \A b, c \in Holding : b # c => Chain(idx[b]) \cap Chain(idx[c]) = {}
  /\ Desc \ FreeDesc = UNION {Chain(idx[b]) : b \in Holding}

\* No completion is lost in the race of virtio_disk_intr() with the device:
\* an entry of the used ring the driver has not seen is announced by a pending
\* interrupt or will be found by the running handler, its status byte is
\* written, and a caller sleeps on its buffer only while the device owns it.
NoLostCompletion ==
  /\ used_idx # used => info[uring[used_idx % NUM]].status = 0
  /\ used_idx # used => irq \/ lock = "intr"
  /\ \A b \in Buf : pc[b] = "wait" => owned[b]

\* Nobody sleeps for descriptors when there are three: no free_desc() goes by
\* without its wakeup() reaching those who sleep on &disk.free[0].
DescSleepersMustWait ==
  (\E b \in Buf : pc[b] = "nodesc") => ~\E i, j, k \in FreeDesc : alloc3_desc(i, j, k)

\* The descriptors in use are the chains of three of the calls in progress,
\* virtio_disk_intr() misses no entry the device adds while it runs, and who
\* sleeps for descriptors has to.
DriverConsistent == DescriptorsOwned /\ NoLostCompletion /\ DescSleepersMustWait

\* Every request handed to the device returns to its caller.
RequestReturns == \A b \in Buf : []<>(pc[b] \notin {"wait", "woken"})
----------------------------------------------------------------------------
(* The inductive invariant *)

Request == [op : {"read", "write"}, blk : Buf]

TypeOK ==
  /\ free \in [Desc -> BOOLEAN] /\ next \in [Desc -> Desc \cup {Nil}]
  /\ addr \in [Desc -> Buf \cup {Nil}] /\ ops \in [Desc -> Request \cup {NoArg}]
  /\ info \in [Desc -> [b : Buf \cup {Nil}, status : {0, 255}]]
  /\ ring \in [Desc -> Desc \cup {Nil}] /\ uring \in [Desc -> Desc \cup {Nil}]
  /\ {avail, used, used_idx, dlast} \subseteq 0..(UINT16 - 1)
  /\ lock \in {"none", "intr"} \cup Buf /\ irq \in BOOLEAN /\ busy \subseteq Desc
  /\ owned \in [Buf -> BOOLEAN] /\ idx \in [Buf -> Desc \cup {Nil}]
  /\ arg \in [Buf -> Request \cup {NoArg}] /\ moved \in [Buf -> Request \cup {NoArg}]
  /\ pc \in [Buf -> PCs]

\* The chain of a call is header, data and status of its request.
Formatted(b) ==
  LET i == idx[b]
      j == next[i]
      k == next[j]
  IN  /\ {i, j, k} \subseteq Desc /\ i # j /\ i # k /\ j # k /\ next[k] = Nil
      /\ ~free[i] /\ ~free[j] /\ ~free[k]
      /\ addr[j] = b /\ ops[i] = arg[b] /\ info[i].b = b

ChainInv ==
  /\ \A b \in Holding : Formatted(b)
  /\ \A b, c \in Holding : b # c => Chain(idx[b]) \cap Chain(idx[c]) = {}
  /\ \A i \in Desc : free[i] \/ \E b \in Holding : i \in Chain(idx[b])

CallInv ==
  \A b \in Buf :
    /\ lock = b <=> pc[b] = "publish"
    /\ pc[b] = "idle" <=> arg[b] = NoArg
    /\ b \notin Holding => ~owned[b] /\ moved[b] = NoArg
    /\ pc[b] \in {"publish", "wait"} => owned[b]

\* A request that the device owns is in one place: the available ring, the
\* device or the used ring; and its data has been moved in the last.
In(f, i) == \E s \in Desc : f[s] = i

Injective(f) == \A s, t \in Desc : f[s] = f[t] /\ f[s] # Nil => s = t

WorkInv ==
  /\ Injective(ring) /\ Injective(uring)
  /\ \A i \in Desc :
       /\ In(ring, i) \/ i \in busy \/ In(uring, i) =>
            \E b \in Holding : owned[b] /\ idx[b] = i
       /\ ~(In(ring, i) /\ i \in busy) /\ ~(In(ring, i) /\ In(uring, i))
       /\ ~(i \in busy /\ In(uring, i))
       /\ In(uring, i) => info[i].status = 0
  /\ \A b \in Holding :
       /\ owned[b] => In(ring, idx[b]) \/ idx[b] \in busy \/ In(uring, idx[b])
       /\ moved[b] = IF owned[b] /\ ~In(uring, idx[b]) THEN NoArg ELSE arg[b]

\* The slots in use of a ring are those between its two counters.
Live(f, lo, hi) ==
  /\ (hi - lo) % UINT16 <= NUM
  /\ \A k \in 0..(NUM - 1) : f[(lo + k) % NUM] # Nil <=> k < (hi - lo) % UINT16

\* avail->idx, once the head that is in the ring is published.
Avail == IF lock \in Buf THEN BumpIdx(avail) ELSE avail

RingInv ==
  /\ Live(ring, dlast, Avail) /\ Live(uring, used_idx, used)
  /\ lock \in Buf => dlast # Avail
  /\ used_idx # used => irq \/ lock = "intr"

VirtioInv == TypeOK /\ ChainInv /\ CallInv /\ WorkInv /\ RingInv
=============================================================================
