------------------------------- MODULE Bcache -------------------------------
(***************************************************************************)
(* The buffer cache of kernel/bio.c with the sleep locks of                *)
(* kernel/sleeplock.c, over the disk that BlockDev promises.               *)
(*                                                                         *)
(* One step is one section under bcache.lock or under the spinlock of a    *)
(* sleep lock, or one instant of a disk request.  A process stands for one *)
(* use of a buffer, from bget() to the end of brelse().  Of the contents   *)
(* of a block only one thing matters: whether a copy of it, in a buffer or *)
(* on the disk, is what the last writer of the block left.                 *)
(***************************************************************************)
EXTENDS Naturals, FiniteSets, Null

CONSTANTS Proc, Buf, Block,
          MaxPin   \* blocks the log pins at a time, at most

VARIABLES blockno, valid, refcnt,  \* fields of struct buf
          data,    \* b->data is the latest version of the block
          lru,     \* bcache.head: the buffers, most recently used first
          lock,    \* b->lock: the process that holds it, or Nil
          disk,    \* the disk has the latest version of each block
          req, moved,  \* the disk's requests, as in BlockDev
          pinned,  \* the buffers the log has pinned
          pc, cur, \* where each process is, and its buffer
          want     \* the block it asked for

cache == <<blockno, refcnt, lru>>
vars == <<cache, valid, data, lock, disk, req, moved, pinned, pc, cur, want>>

BD == INSTANCE BlockDev

\* "acq": in acquiresleep(); "asleep": asleep on the lock; "reading": in
\* bread()'s request; "have": returned from bread(); "dirty": has changed the
\* buffer; "writing": in bwrite(); "rel": in brelse(), lock given up.
PCs == {"out", "acq", "asleep", "reading", "have", "dirty", "writing", "rel"}

Goto(p, l) == pc' = [pc EXCEPT ![p] = l]

\* binit() links every buffer once, in an order that does not matter here.
AllBuffers ==
  CHOOSE s \in [1..Cardinality(Buf) -> Buf] : \A b \in Buf : \E n \in DOMAIN s : s[n] = b

Init ==
  /\ blockno = [b \in Buf |-> Nil]
  /\ valid = [b \in Buf |-> FALSE]
  /\ refcnt = [b \in Buf |-> 0]
  /\ lru = AllBuffers
  /\ lock = [b \in Buf |-> Nil]
  /\ disk = [k \in Block |-> TRUE]
  /\ data = [b \in Buf |-> FALSE]
  /\ BD!Init
  /\ pinned = {}
  /\ pc = [p \in Proc |-> "out"]
  /\ cur = [p \in Proc |-> Nil]
  /\ want = [p \in Proc |-> Nil]

----------------------------------------------------------------------------
(* bget *)

Cached(k) == {b \in Buf : blockno[b] = k}

Unused == {i \in DOMAIN lru : refcnt[lru[i]] = 0}

\* The buffer that a miss recycles: the least recently used without a user.
Victim == lru[CHOOSE i \in Unused : \A j \in Unused : j <= i]

Hit(p, k) ==
  \E b \in Cached(k) :
    /\ refcnt' = [refcnt EXCEPT ![b] = @ + 1]
    /\ cur' = [cur EXCEPT ![p] = b]
    /\ Goto(p, "acq")
    /\ UNCHANGED <<blockno, valid, data>>

\* Mutant: b->valid is not cleared.
MissKeepsValid(p, k) ==
  /\ Cached(k) = {} /\ Unused # {}
  /\ blockno' = [blockno EXCEPT ![Victim] = k]
  /\ refcnt' = [refcnt EXCEPT ![Victim] = 1]
  /\ cur' = [cur EXCEPT ![p] = Victim]
  /\ data' = [data EXCEPT ![Victim] = FALSE]
  /\ Goto(p, "acq")
  /\ UNCHANGED valid

Miss(p, k) ==
  /\ Cached(k) = {} /\ Unused # {}
  /\ blockno' = [blockno EXCEPT ![Victim] = k]
  /\ valid' = [valid EXCEPT ![Victim] = FALSE]
  /\ data' = [data EXCEPT ![Victim] = FALSE]
  /\ refcnt' = [refcnt EXCEPT ![Victim] = 1]
  /\ cur' = [cur EXCEPT ![p] = Victim]
  /\ Goto(p, "acq")

\* With neither, bget() panics and its caller takes no further step.
NoBuffers(k) == Cached(k) = {} /\ Unused = {}

Bget(p, k) ==
  /\ pc[p] = "out"
  /\ Hit(p, k) \/ Miss(p, k)
  /\ want' = [want EXCEPT ![p] = k]
  /\ UNCHANGED <<lru, lock, disk, req, moved, pinned>>

----------------------------------------------------------------------------
(* acquiresleep and the read of bread *)

AcquireSleeps(p) ==
  /\ pc[p] = "acq" /\ lock[cur[p]] # Nil
  /\ Goto(p, "asleep")
  /\ UNCHANGED <<cache, valid, data, lock, disk, req, moved, pinned, cur, want>>

Acquire(p) ==
  LET b == cur[p] IN
  /\ pc[p] = "acq" /\ lock[b] = Nil
  /\ lock' = [lock EXCEPT ![b] = p]
  /\ IF valid[b]
     THEN Goto(p, "have") /\ UNCHANGED <<req, moved>>
     ELSE Goto(p, "reading") /\ BD!Start(b, [op |-> "read", blk |-> blockno[b]])
  /\ UNCHANGED <<cache, valid, data, disk, pinned, cur, want>>

\* kill() wakes a process that will find the lock taken and sleep again.
Killed(p) ==
  /\ pc[p] = "asleep"
  /\ Goto(p, "acq")
  /\ UNCHANGED <<cache, valid, data, lock, disk, req, moved, pinned, cur, want>>

\* The device moves the block.
Transfer(b) ==
  /\ BD!Transfer(b)
  /\ IF req[b].op = "read"
     THEN data' = [data EXCEPT ![b] = disk[req[b].blk]] /\ UNCHANGED disk
     ELSE disk' = [disk EXCEPT ![req[b].blk] = data[b]] /\ UNCHANGED data
  /\ UNCHANGED <<cache, valid, lock, pinned, pc, cur, want>>

\* virtio_disk_rw() returns, in bread() or in bwrite().
RequestDone(p) ==
  /\ pc[p] \in {"reading", "writing"}
  /\ BD!Finish(cur[p])
  /\ valid' = [valid EXCEPT ![cur[p]] = TRUE]
  /\ Goto(p, "have")
  /\ UNCHANGED <<cache, data, lock, disk, pinned, cur, want>>

----------------------------------------------------------------------------
(* What the holder of a buffer does with it *)

\* A new version: every other copy becomes an old one.
Change(p) ==
  /\ pc[p] = "have"
  /\ data' = [b \in Buf |-> IF blockno[b] = want[p] THEN b = cur[p] ELSE data[b]]
  /\ disk' = [disk EXCEPT ![want[p]] = FALSE]
  /\ Goto(p, "dirty")
  /\ UNCHANGED <<cache, valid, lock, req, moved, pinned, cur, want>>

Bwrite(p) ==
  /\ pc[p] \in {"have", "dirty"}
  /\ BD!Start(cur[p], [op |-> "write", blk |-> blockno[cur[p]]])
  /\ Goto(p, "writing")
  /\ UNCHANGED <<cache, valid, data, lock, disk, pinned, cur, want>>

\* Mutant: bpin() also for a block that the log has already.
BpinAgain(p) ==
  LET b == cur[p] IN
  /\ pc[p] = "dirty"
  /\ b \in pinned \/ Cardinality(pinned) < MaxPin
  /\ pinned' = pinned \cup {b}
  /\ refcnt' = [refcnt EXCEPT ![b] = @ + 1]
  /\ Goto(p, "have")
  /\ UNCHANGED <<blockno, lru, valid, data, lock, disk, req, moved, cur, want>>

\* log_write() of a changed buffer: bpin(), unless the log has the block
\* already.
Bpin(p) ==
  LET b == cur[p] IN
  /\ pc[p] = "dirty"
  /\ b \in pinned \/ Cardinality(pinned) < MaxPin
  /\ pinned' = pinned \cup {b}
  /\ refcnt' = [refcnt EXCEPT ![b] = IF b \in pinned THEN @ ELSE @ + 1]
  /\ Goto(p, "have")
  /\ UNCHANGED <<blockno, lru, valid, data, lock, disk, req, moved, cur, want>>

\* install_trans() has written the block home: bunpin().
Bunpin(p) ==
  LET b == cur[p] IN
  /\ pc[p] = "have" /\ b \in pinned /\ disk[blockno[b]]
  /\ pinned' = pinned \ {b}
  /\ refcnt' = [refcnt EXCEPT ![b] = @ - 1]
  /\ UNCHANGED <<blockno, lru, valid, data, lock, disk, req, moved, pc, cur,
                 want>>

----------------------------------------------------------------------------
(* brelse *)

\* Mutant: no wakeup(lk).
ReleaseSilent(p) ==
  /\ pc[p] = "have"
  /\ lock' = [lock EXCEPT ![cur[p]] = Nil]
  /\ Goto(p, "rel")
  /\ UNCHANGED <<cache, valid, data, disk, req, moved, pinned, cur, want>>

\* releasesleep()
ReleaseSleep(p) ==
  LET b == cur[p] IN
  /\ pc[p] = "have"
  /\ lock' = [lock EXCEPT ![b] = Nil]
  /\ pc' = [q \in Proc |-> IF q = p THEN "rel"
                           ELSE IF pc[q] = "asleep" /\ cur[q] = b THEN "acq"
                           ELSE pc[q]]
  /\ UNCHANGED <<cache, valid, data, disk, req, moved, pinned, cur, want>>

\* The list with b taken out and put in front.
MoveToFront(b) ==
  LET i == CHOOSE n \in DOMAIN lru : lru[n] = b
  IN  [n \in DOMAIN lru |-> IF n = 1 THEN b
                            ELSE IF n <= i THEN lru[n - 1] ELSE lru[n]]

\* Give the reference up; a buffer nobody uses becomes the most recent.
Unref(p) ==
  LET b == cur[p] IN
  /\ pc[p] = "rel"
  /\ refcnt' = [refcnt EXCEPT ![b] = @ - 1]
  /\ lru' = IF refcnt[b] = 1 THEN MoveToFront(b) ELSE lru
  /\ Goto(p, "out")
  /\ cur' = [cur EXCEPT ![p] = Nil]
  /\ want' = [want EXCEPT ![p] = Nil]
  /\ UNCHANGED <<blockno, valid, data, lock, disk, req, moved, pinned>>

----------------------------------------------------------------------------
Next ==
  \/ \E p \in Proc, k \in Block : Bget(p, k)
  \/ \E p \in Proc : AcquireSleeps(p)
  \/ \E p \in Proc : Acquire(p)
  \/ \E p \in Proc : Killed(p)
  \/ \E b \in Buf : Transfer(b)
  \/ \E p \in Proc : RequestDone(p)
  \/ \E p \in Proc : Change(p)
  \/ \E p \in Proc : Bwrite(p)
  \/ \E p \in Proc : Bpin(p)
  \/ \E p \in Proc : Bunpin(p)
  \/ \E p \in Proc : ReleaseSleep(p)
  \/ \E p \in Proc : Unref(p)

Spec == Init /\ [][Next]_vars

----------------------------------------------------------------------------
(* Properties *)

Users(b) == {p \in Proc : cur[p] = b}
Holds(p) == pc[p] \in {"have", "dirty", "writing"}

\* A block is cached once.
OneBuffer ==
  \A b, c \in Buf : b # c /\ blockno[b] = blockno[c] => blockno[b] = Nil

\* Only one process at a time uses a buffer and everyone sees the same block:
\* whoever bread() returned to holds the only buffer of the block it asked for,
\* with what the last writer left there, however many evictions, rereads and
\* writes to the disk came between.
Coherent ==
  /\ OneBuffer
  /\ \A p \in Proc :
       Holds(p) => /\ lock[cur[p]] = p
                   /\ blockno[cur[p]] = want[p]
                   /\ data[cur[p]]

\* A reference counts a process between bget() and the end of brelse(), or a
\* pin, so that the victim of bget() has no user and is not in the log.
RefsCounted ==
  \A b \in Buf :
    refcnt[b] = Cardinality(Users(b)) + (IF b \in pinned THEN 1 ELSE 0)

\* bget() would panic only while every buffer has a user or is in the log.
PanicMeansFull ==
  \A k \in Block : NoBuffers(k) =>
    \A b \in Buf : Users(b) # {} \/ b \in pinned

\* b->refcnt counts the users and the pin of a buffer, and bget() panics for
\* want of a buffer only if all NBUF are held or pinned at that moment: no
\* reference is left behind and no buffer drops out of the list, however the
\* two steps of brelse() and the log's pins interleave with other callers.
\* The code does not rule that moment out: NBUF buffers serve NPROC processes
\* and up to LOGSIZE pins.
BgetFinds == RefsCounted /\ PanicMeansFull

\* No lost wakeup in acquiresleep(): who sleeps waits for a holder.
SleepLockHeld == \A p \in Proc : pc[p] = "asleep" => lock[cur[p]] # Nil

----------------------------------------------------------------------------
(* The inductive invariant behind these properties *)

TypeOK ==
  /\ blockno \in [Buf -> Block \cup {Nil}]
  /\ valid \in [Buf -> BOOLEAN] /\ data \in [Buf -> BOOLEAN]
  /\ refcnt \in [Buf -> Nat]
  /\ lock \in [Buf -> Proc \cup {Nil}]
  /\ disk \in [Block -> BOOLEAN]
  /\ req \in [Buf -> BD!Request \cup {BD!None}]
  /\ moved \in [Buf -> BD!Request \cup {BD!None}]
  /\ pinned \subseteq Buf
  /\ pc \in [Proc -> PCs]
  /\ cur \in [Proc -> Buf \cup {Nil}]
  /\ want \in [Proc -> Block \cup {Nil}]

\* The list holds every buffer.
LruInv ==
  /\ lru \in [1..Cardinality(Buf) -> Buf]
  /\ \A b \in Buf : \E n \in 1..Cardinality(Buf) : lru[n] = b

\* From bget() to brelse() a process has a buffer of the block it wants:
\* nobody recycles it under its hands.
CurInv ==
  \A p \in Proc :
    IF pc[p] = "out" THEN cur[p] = Nil
    ELSE cur[p] \in Buf /\ want[p] \in Block /\ blockno[cur[p]] = want[p]

\* The lock of a buffer names the one process between acquiresleep() and
\* releasesleep().
HasLock(p) == pc[p] \in {"reading", "have", "dirty", "writing"}

LockInv ==
  /\ \A p \in Proc : HasLock(p) => lock[cur[p]] = p
  /\ \A b \in Buf : lock[b] # Nil => cur[lock[b]] = b /\ HasLock(lock[b])

\* The device works for the holder of the lock only, on its block.
ReqInv ==
  /\ \A p \in Proc :
       /\ pc[p] = "reading" => req[cur[p]] = [op |-> "read", blk |-> want[p]]
       /\ pc[p] = "writing" => req[cur[p]] = [op |-> "write", blk |-> want[p]]
  /\ \A b \in Buf :
       /\ req[b] # BD!None => lock[b] # Nil /\ pc[lock[b]] \in {"reading", "writing"}
       /\ moved[b] \in {BD!None, req[b]}

\* b->valid says that the buffer has the latest version of its block.
DataInv ==
  /\ \A b \in Buf : valid[b] => data[b]
  /\ \A p \in Proc :
       /\ Holds(p) => valid[cur[p]]
       /\ pc[p] = "reading" => ~valid[cur[p]] /\ (moved[cur[p]] # BD!None => data[cur[p]])

\* It has changed its buffer and the device has not copied it yet.
ToWrite(p) == pc[p] = "dirty" \/ (pc[p] = "writing" /\ moved[cur[p]] = BD!None)

\* A version that the disk does not have is in a buffer that bget() will not
\* recycle: pinned by the log, or with a writer that has yet to write it.
DiskInv ==
  \A k \in Block : ~disk[k] =>
    \E b \in Buf :
      /\ blockno[b] = k /\ valid[b]
      /\ b \in pinned \/ \E p \in Proc : cur[p] = b /\ ToWrite(p)

PinInv == Cardinality(pinned) <= MaxPin

CacheInv ==
  /\ TypeOK /\ LruInv /\ CurInv /\ LockInv /\ OneBuffer /\ RefsCounted
  /\ ReqInv /\ DataInv /\ DiskInv /\ SleepLockHeld /\ PinInv
=============================================================================
