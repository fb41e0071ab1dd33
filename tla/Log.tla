-------------------------------- MODULE Log --------------------------------
(***************************************************************************)
(* The write-ahead log of kernel/log.c, with the part of the buffer cache  *)
(* it relies on (a pinned buffer is not recycled), several processes       *)
(* inside file system calls at once, group commit, and a crash at any      *)
(* step, recovery included.                                                *)
(*                                                                         *)
(* One step is one section under log.lock, or one write of a disk block:   *)
(* those are the instants at which another process or a crash can see the  *)
(* state.  A block is written to the disk whole or not at all (the header, *)
(* 4*(LOGSIZE+1) bytes, fits in the first sector of its block).  Log       *)
(* blocks are written through the cache, so they are modelled on disk only.*)
(***************************************************************************)
EXTENDS Naturals, Sequences, FiniteSets

CONSTANTS Proc,         \* processes that make file system calls
          Block,        \* home blocks (everything outside the log)
          Val,          \* contents of a block
          InitVal,      \* contents of every block of a fresh file system
          NotCached,    \* marks a block without a valid buffer
          MAXOPBLOCKS,  \* blocks begin_op() reserves for a call
          LOGSIZE,      \* entries of struct logheader
          NLOG,         \* sb->nlog = log.size: header block and data blocks
          OpBlocks      \* distinct blocks a call really writes, at most

ASSUME ConstAssumption ==
  /\ InitVal \in Val
  /\ NotCached \notin Val
  /\ MAXOPBLOCKS \in Nat /\ LOGSIZE \in Nat /\ NLOG \in Nat /\ OpBlocks \in Nat
  /\ 0 < OpBlocks /\ OpBlocks <= MAXOPBLOCKS
  /\ MAXOPBLOCKS < LOGSIZE /\ LOGSIZE <= NLOG
  /\ IsFiniteSet(Proc)

VARIABLES disk,         \* home blocks on the disk
          logd,         \* data blocks of the on-disk log, 1..NLOG-1
          head,         \* the on-disk header: block[0..n-1]
          lh,           \* log.lh, the in-memory header
          outstanding,  \* log.outstanding
          committing,   \* log.committing
          buf,          \* the buffer cache: contents, or NotCached
          pin,          \* references bpin() holds on the buffer of a block
          pc,           \* where each process is
          tail,         \* the loop variable of write_log and install_trans
          wrote,        \* the blocks the running call has logged
          boot          \* recovery: "read_head", "install", "clear", or "up"

stable == <<disk, logd, head>>
vars == <<disk, logd, head, lh, outstanding, committing, buf, pin, pc, tail,
          wrote, boot>>

PCs == {"out", "begin", "sleep", "op", "write_log", "write_head", "install",
        "clear", "done", "panic"}

Blocks(h) == {h[i] : i \in 1..Len(h)}

\* bread(): the cached contents, or else what the disk holds.
View(b) == IF buf[b] = NotCached THEN disk[b] ELSE buf[b]

\* A process that panics inside begin_op, log_write or end_op keeps log.lock.
LockFree == \A p \in Proc : pc[p] # "panic"

Init ==
  /\ disk = [b \in Block |-> InitVal]
  /\ logd = [i \in 1..(NLOG - 1) |-> InitVal]
  /\ head = <<>>
  /\ lh = <<>>
  /\ outstanding = 0
  /\ committing = FALSE
  /\ buf = [b \in Block |-> NotCached]
  /\ pin = [b \in Block |-> 0]
  /\ pc = [p \in Proc |-> "out"]
  /\ tail = 0
  /\ wrote = [p \in Proc |-> {}]
  /\ boot = "read_head"

----------------------------------------------------------------------------
(* Recovery: recover_from_log(), run by the first process before any other *)
(* process exists.                                                         *)

RecoverReadHead ==
  /\ boot = "read_head"
  /\ lh' = head
  /\ tail' = 0
  /\ boot' = IF head = <<>> THEN "clear" ELSE "install"
  /\ UNCHANGED <<stable, outstanding, committing, buf, pin, pc, wrote>>

\* One iteration of install_trans: copy a log block to its home.
CopyHome ==
  /\ disk' = [disk EXCEPT ![lh[tail + 1]] = logd[tail + 1]]
  /\ buf' = [buf EXCEPT ![lh[tail + 1]] = logd[tail + 1]]
  /\ tail' = tail + 1
  /\ UNCHANGED <<logd, head, lh, outstanding, committing, wrote>>

RecoverInstall ==
  /\ boot = "install"
  /\ CopyHome
  /\ boot' = IF tail + 1 = Len(lh) THEN "clear" ELSE "install"
  /\ UNCHANGED <<pin, pc>>

\* log.lh.n = 0; write_head()
EraseLog ==
  /\ lh' = <<>>
  /\ head' = <<>>
  /\ UNCHANGED <<disk, logd, outstanding, buf, pin, tail, wrote>>

RecoverClear ==
  /\ boot = "clear"
  /\ EraseLog
  /\ boot' = "up"
  /\ UNCHANGED <<committing, pc>>

----------------------------------------------------------------------------
(* begin_op, log_write, end_op *)

\* Mutant: the caller's own reservation is forgotten.
NoSpaceOthersOnly == Len(lh) + outstanding * MAXOPBLOCKS > LOGSIZE

\* The reservation test of begin_op.
NoSpace == Len(lh) + (outstanding + 1) * MAXOPBLOCKS > LOGSIZE

MustWait == committing \/ NoSpace

AtBegin(p) == boot = "up" /\ pc[p] \in {"out", "begin"} /\ LockFree

BeginOp(p) ==
  /\ AtBegin(p)
  /\ ~MustWait
  /\ outstanding' = outstanding + 1
  /\ pc' = [pc EXCEPT ![p] = "op"]
  /\ UNCHANGED <<stable, lh, committing, buf, pin, tail, wrote, boot>>

BeginSleep(p) ==
  /\ AtBegin(p)
  /\ MustWait
  /\ pc' = [pc EXCEPT ![p] = "sleep"]
  /\ UNCHANGED <<stable, lh, outstanding, committing, buf, pin, tail, wrote,
                 boot>>

\* The caller holds the buffer of b, has set its data to v and logs it.  The
\* capacity test comes before the search for an entry to absorb the write.
LogFull == Len(lh) >= LOGSIZE \/ Len(lh) >= NLOG - 1

MayWrite(p, b) == b \in wrote[p] \/ Cardinality(wrote[p]) < OpBlocks

LogWrite(p, b, v) ==
  /\ pc[p] = "op" /\ LockFree
  /\ MayWrite(p, b)
  /\ wrote' = [wrote EXCEPT ![p] = @ \cup {b}]
  /\ IF LogFull \/ outstanding < 1
     THEN \* the buffer stays locked: nobody sees v
          pc' = [pc EXCEPT ![p] = "panic"] /\ UNCHANGED <<buf, lh, pin>>
     ELSE /\ buf' = [buf EXCEPT ![b] = v]
          /\ UNCHANGED pc
          /\ IF b \in Blocks(lh)
             THEN UNCHANGED <<lh, pin>>
             ELSE /\ lh' = Append(lh, b)
                  /\ pin' = [pin EXCEPT ![b] = @ + 1]
  /\ UNCHANGED <<stable, outstanding, committing, tail, boot>>

\* Mutant: nobody is woken.
WakeupNobody(f) == f

\* wakeup(&log): every sleeper goes back to the test of begin_op.
Wakeup(f) == [p \in Proc |-> IF f[p] = "sleep" THEN "begin" ELSE f[p]]

\* Mutant: a transaction of one block is taken for an empty one.
CommitFirstOffByOne == IF Len(lh) <= 1 THEN "done" ELSE "write_log"

\* commit() has nothing to do for an empty transaction.
CommitFirst == IF lh = <<>> THEN "done" ELSE "write_log"

EndOp(p) ==
  /\ pc[p] = "op" /\ LockFree
  /\ outstanding' = outstanding - 1
  /\ wrote' = [wrote EXCEPT ![p] = {}]
  /\ IF committing
     THEN pc' = [pc EXCEPT ![p] = "panic"] /\ UNCHANGED <<committing, tail>>
     ELSE IF outstanding = 1
          THEN /\ committing' = TRUE
               /\ tail' = 0
               /\ pc' = [pc EXCEPT ![p] = CommitFirst]
          ELSE /\ pc' = Wakeup([pc EXCEPT ![p] = "out"])
               /\ UNCHANGED <<committing, tail>>
  /\ UNCHANGED <<stable, lh, buf, pin, boot>>

----------------------------------------------------------------------------
(* commit(), by the process whose end_op() found no other call running *)

WriteLog(p) ==
  /\ pc[p] = "write_log"
  /\ logd' = [logd EXCEPT ![tail + 1] = View(lh[tail + 1])]
  /\ buf' = [buf EXCEPT ![lh[tail + 1]] = View(lh[tail + 1])]
  /\ tail' = tail + 1
  /\ pc' = [pc EXCEPT ![p] =
              IF tail + 1 = Len(lh) THEN "write_head" ELSE "write_log"]
  /\ UNCHANGED <<disk, head, lh, outstanding, committing, pin, wrote, boot>>

WriteHead(p) ==
  /\ pc[p] = "write_head"
  /\ head' = lh
  /\ tail' = 0
  /\ pc' = [pc EXCEPT ![p] = "install"]
  /\ UNCHANGED <<disk, logd, lh, outstanding, committing, buf, pin, wrote,
                 boot>>

\* Mutant: install_trans never unpins.
InstallKeepsPin(p) ==
  /\ pc[p] = "install"
  /\ CopyHome
  /\ pc' = [pc EXCEPT ![p] =
              IF tail + 1 = Len(lh) THEN "clear" ELSE "install"]
  /\ UNCHANGED <<pin, boot>>

Install(p) ==
  /\ pc[p] = "install"
  /\ CopyHome
  /\ pin' = [pin EXCEPT ![lh[tail + 1]] = @ - 1]
  /\ pc' = [pc EXCEPT ![p] =
              IF tail + 1 = Len(lh) THEN "clear" ELSE "install"]
  /\ UNCHANGED boot

Clear(p) ==
  /\ pc[p] = "clear"
  /\ EraseLog
  /\ pc' = [pc EXCEPT ![p] = "done"]
  /\ UNCHANGED <<committing, boot>>

\* Mutant: end_op() clears log.committing and wakes nobody.
CommitDoneSilent(p) ==
  /\ pc[p] = "done" /\ LockFree
  /\ committing' = FALSE
  /\ pc' = [pc EXCEPT ![p] = "out"]
  /\ UNCHANGED <<stable, lh, outstanding, buf, pin, tail, wrote, boot>>

\* The last section of end_op.
CommitDone(p) ==
  /\ pc[p] = "done" /\ LockFree
  /\ committing' = FALSE
  /\ pc' = Wakeup([pc EXCEPT ![p] = "out"])
  /\ UNCHANGED <<stable, lh, outstanding, buf, pin, tail, wrote, boot>>

----------------------------------------------------------------------------
(* The cache and the machine *)

\* Mutant: the reference that bpin() takes is not respected.
EvictPinned(b) ==
  /\ buf[b] # NotCached
  /\ buf' = [buf EXCEPT ![b] = NotCached]
  /\ UNCHANGED <<stable, lh, outstanding, committing, pin, pc, tail, wrote,
                 boot>>

\* bget() recycles a buffer that has no reference.
Evict(b) ==
  /\ buf[b] # NotCached
  /\ pin[b] = 0
  /\ buf' = [buf EXCEPT ![b] = NotCached]
  /\ UNCHANGED <<stable, lh, outstanding, committing, pin, pc, tail, wrote,
                 boot>>

\* bread() of a block nobody has cached, by any reader.
Load(b) ==
  /\ boot = "up"
  /\ buf[b] = NotCached
  /\ buf' = [buf EXCEPT ![b] = disk[b]]
  /\ UNCHANGED <<stable, lh, outstanding, committing, pin, pc, tail, wrote,
                 boot>>

\* Power is lost: only the disk survives, and the machine boots again.
Crash ==
  /\ lh' = <<>>
  /\ outstanding' = 0
  /\ committing' = FALSE
  /\ buf' = [b \in Block |-> NotCached]
  /\ pin' = [b \in Block |-> 0]
  /\ pc' = [p \in Proc |-> "out"]
  /\ tail' = 0
  /\ wrote' = [p \in Proc |-> {}]
  /\ boot' = "read_head"
  /\ UNCHANGED stable

----------------------------------------------------------------------------
Recover == RecoverReadHead \/ RecoverInstall \/ RecoverClear

CommitStep(p) ==
  WriteLog(p) \/ WriteHead(p) \/ Install(p) \/ Clear(p) \/ CommitDone(p)

Next ==
  \/ RecoverReadHead
  \/ RecoverInstall
  \/ RecoverClear
  \/ \E p \in Proc : BeginOp(p)
  \/ \E p \in Proc : BeginSleep(p)
  \/ \E p \in Proc, b \in Block, v \in Val : LogWrite(p, b, v)
  \/ \E p \in Proc : EndOp(p)
  \/ \E p \in Proc : WriteLog(p)
  \/ \E p \in Proc : WriteHead(p)
  \/ \E p \in Proc : Install(p)
  \/ \E p \in Proc : Clear(p)
  \/ \E p \in Proc : CommitDone(p)
  \/ \E b \in Block : Evict(b)
  \/ \E b \in Block : Load(b)
  \/ Crash

Spec == Init /\ [][Next]_vars

\* A call makes finitely many writes and then reaches end_op; commit and
\* recovery are straight-line code whose disk requests complete.  Nothing is
\* assumed of begin_op, of the cache or of crashes.
Fairness ==
  /\ WF_vars(Recover)
  /\ \A p \in Proc : WF_vars(EndOp(p)) /\ WF_vars(CommitStep(p))

FairSpec == Spec /\ Fairness

----------------------------------------------------------------------------
(* Properties *)

\* Every field keeps the type its struct declares; in particular a buffer's
\* pin count never goes below zero and the header never outgrows the log.
TypeOK ==
  /\ disk \in [Block -> Val]
  /\ logd \in [1..(NLOG - 1) -> Val]
  /\ head \in Seq(Block) /\ Len(head) <= NLOG - 1
  /\ lh \in Seq(Block) /\ Len(lh) <= NLOG - 1
  /\ outstanding \in Nat
  /\ committing \in BOOLEAN
  /\ buf \in [Block -> Val \cup {NotCached}]
  /\ pin \in [Block -> Nat]
  /\ pc \in [Proc -> PCs]
  /\ tail \in Nat
  /\ wrote \in [Proc -> SUBSET Block]
  /\ boot \in {"read_head", "install", "clear", "up"}

\* What recovery would restore from the disk as it is now.
Overlay(d, h, l) ==
  [b \in Block |-> IF b \in Blocks(h)
                   THEN l[CHOOSE i \in 1..Len(h) : h[i] = b]
                   ELSE d[b]]
Durable == Overlay(disk, head, logd)

\* What a reader sees; while the machine is booting, what it is about to see.
Current == IF boot = "up" THEN [b \in Block |-> View(b)] ELSE Durable

Active == {p \in Proc : pc[p] \in {"op", "panic"}}

AD == INSTANCE AtomicDisk
        WITH durable <- Durable, current <- Current, active <- Active

\* log.c implements an atomic disk: whatever the interleaving of calls,
\* commits, evictions and crashes, the blocks a crash would leave change only
\* by whole groups of finished calls, at the header write of commit(), and
\* recovery brings back exactly those blocks, however often it is itself cut
\* short.
ImplementsAtomicDisk == AD!Spec

\* When no call is running and no commit is in progress, everything that
\* finished calls wrote is durable: end_op() returned to the last caller of
\* the group only after its writes could no longer be lost.
DurableWhenQuiet ==
  boot = "up" /\ outstanding = 0 /\ ~committing => Current = Durable

\* The reservation of begin_op() is enough: log_write() never finds the log
\* full ("too big a transaction"), never runs outside a transaction, and
\* end_op() never meets a commit in progress.
NoPanic == \A p \in Proc : pc[p] # "panic"

\* bpin() and bunpin() balance: a block is pinned once while it is in the
\* header and not yet installed, and otherwise not at all, so the log neither
\* lets an uncommitted block be recycled nor leaks buffers of the cache.
Installing == \E p \in Proc : pc[p] \in {"install", "clear"}
Installed == IF Installing THEN {lh[i] : i \in 1..tail} ELSE {}
PinBalance ==
  boot = "up" =>
    \A b \in Block :
      pin[b] = IF b \in Blocks(lh) \ Installed THEN 1 ELSE 0

\* No lost wakeup in begin_op(): a process asleep on &log would still have to
\* wait if it looked again, and someone who will wake it is on the way.
SleeperMustWait ==
  (\E p \in Proc : pc[p] = "sleep") =>
    MustWait /\ (committing \/ outstanding > 0)

\* Every process that sleeps in begin_op() is woken (or the machine reboots);
\* it may find the log full or committing again, and go back to sleep.
SleeperWakes == \A p \in Proc : []<>(pc[p] # "sleep")

\* Unless the machine keeps crashing, recovery ends and the system stays up.
RecoveryEnds == []<><<Crash>>_vars \/ <>[](boot = "up")

----------------------------------------------------------------------------
(* The inductive invariant behind these properties *)

CommitPCs == {"write_log", "write_head", "install", "clear", "done"}

NoDup(h) == \A i, j \in 1..Len(h) : h[i] = h[j] => i = j

\* Who is where: calls and commits exclude each other, one process commits,
\* and log.outstanding counts the running calls.
ControlInv ==
  /\ \A p, q \in Proc : pc[p] \in CommitPCs /\ pc[q] \in CommitPCs => p = q
  /\ committing <=> \E p \in Proc : pc[p] \in CommitPCs
  /\ committing => Active = {}
  /\ outstanding = Cardinality(Active)
  /\ boot # "up" => \A p \in Proc : pc[p] = "out"
  /\ boot = "up" /\ ~committing /\ outstanding = 0 => lh = <<>>

\* Which buffers are pinned, and that an unpinned one agrees with the disk.
PinInv ==
  /\ \A b \in Block : pin[b] = 0 => buf[b] \in {NotCached, disk[b]}
  /\ \A b \in Block : pin[b] # 0 => buf[b] # NotCached
  /\ \A b \in Block : b \notin Blocks(lh) => pin[b] = 0
  /\ boot # "up" => \A b \in Block : pin[b] = 0
  /\ boot = "up" =>
       \A i \in 1..Len(lh) :
         pin[lh[i]] = IF Installing /\ i <= tail THEN 0 ELSE 1

\* How far commit or recovery has come, and what is on the disk by then.
PhaseInv ==
  /\ boot = "up" /\ ~Installing => head = <<>>
  /\ \A p \in Proc :
       /\ pc[p] = "write_log" =>
            /\ tail < Len(lh)
            /\ \A i \in 1..tail : logd[i] = buf[lh[i]]
       /\ pc[p] = "write_head" =>
            /\ lh # <<>>
            /\ \A i \in 1..Len(lh) : logd[i] = buf[lh[i]]
       /\ pc[p] = "install" =>
            /\ head = lh /\ tail < Len(lh)
            /\ \A i \in 1..tail : disk[lh[i]] = logd[i]
            /\ \A i \in (tail + 1)..Len(lh) : buf[lh[i]] = logd[i]
       /\ pc[p] = "clear" =>
            /\ head = lh /\ tail = Len(lh)
            /\ \A i \in 1..Len(lh) : disk[lh[i]] = logd[i]
       /\ pc[p] = "done" => lh = <<>>
  /\ boot = "read_head" => lh = <<>>
  /\ boot = "install" =>
       /\ head = lh /\ tail < Len(lh)
       /\ \A i \in 1..tail : disk[lh[i]] = logd[i]
  /\ boot = "clear" =>
       head = lh /\ \A i \in 1..Len(lh) : disk[lh[i]] = logd[i]

\* Together: the log's contents, its header and the cache agree at every
\* point where commit() or recover_from_log() can be cut short.
LogInv ==
  /\ TypeOK
  /\ NoDup(lh) /\ NoDup(head)
  /\ ControlInv
  /\ PinInv
  /\ PhaseInv
=============================================================================
