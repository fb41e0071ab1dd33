------------------------------- MODULE MCLive -------------------------------
(***************************************************************************)
(* What must eventually happen, on small instances for TLC: in the log     *)
(* (this module extends Log), the disk driver, the UART, sys_sleep() and   *)
(* the shell.  Each behaviour is one of one part, under the fairness of    *)
(* that part; the others rest in their initial states.  While the shell    *)
(* waits, the rest of the system goes on.                                  *)
(***************************************************************************)
EXTENDS Log, Integers

CONSTANTS Buf, NUM, UINT16, \* Virtio
          User, Nil         \* Uart, Clock, ShRun

\* Command lines: x | x | x, x | x &; x, x | (x; x).
Word == [type |-> "EXEC", argv |-> <<"x">>]
Pipe(l, r) == [type |-> "PIPE", left |-> l, right |-> r]
List(l, r) == [type |-> "LIST", left |-> l, right |-> r]
Commands ==
  {Pipe(Word, Pipe(Word, Word)), Pipe(Word, List(Word, Word)),
   List([type |-> "BACK", cmd |-> Pipe(Word, Word)], Word)}

VARIABLES part, vfree, vnext, vaddr, vops, vinfo, vring, vavail, vuring,
          vused, vused_idx, vlock, virq, vowned, vidx, varg, vpc, vdlast,
          vbusy, vmoved, otx_buf, otx_w, otx_r, ouart_tx_lock, owhere, oleft,
          ofifo, ooverrun, osent, cticks, ctickslock, cth, creal, cvictims,
          rtree, rproc, rprompt, roops

vvars == <<vfree, vnext, vaddr, vops, vinfo, vring, vavail, vuring, vused,
  vused_idx, vlock, virq, vowned, vidx, varg, vpc, vdlast, vbusy, vmoved>>
ovars == <<otx_buf, otx_w, otx_r, ouart_tx_lock, owhere, oleft, ofifo,
  ooverrun, osent>>
cvars == <<cticks, ctickslock, cth, creal, cvictims>>
rvars == <<rtree, rproc, rprompt, roops>>

V == INSTANCE Virtio WITH
  free <- vfree, next <- vnext, addr <- vaddr, ops <- vops, info <- vinfo,
  ring <- vring, avail <- vavail, uring <- vuring, used <- vused,
  used_idx <- vused_idx, lock <- vlock, irq <- virq, owned <- vowned,
  idx <- vidx, arg <- varg, pc <- vpc, dlast <- vdlast, busy <- vbusy,
  moved <- vmoved
UA == INSTANCE Uart WITH
  Writer <- User, Sync <- {}, UART_TX_BUF_SIZE <- 2, UINT64 <- 4, FIFO <- 3,
  MaxN <- 2, tx_buf <- otx_buf, tx_w <- otx_w, tx_r <- otx_r,
  uart_tx_lock <- ouart_tx_lock, where <- owhere, left <- oleft,
  fifo <- ofifo, overrun <- ooverrun, sent <- osent
CL == INSTANCE Clock WITH
  UINT <- 4, Arg <- {0, 2, -1}, ticks <- cticks, tickslock <- ctickslock,
  th <- cth, real <- creal, victims <- cvictims
RU == INSTANCE ShRun WITH
  Trees <- Commands, NOFILE <- 7, tree <- rtree, proc <- rproc,
  prompt <- rprompt, oops <- roops

MCInit ==
  /\ part \in {"log", "virtio", "uart", "clock", "run"}
  /\ Init
  /\ V!Init
  /\ UA!UartInit
  /\ CL!ClockInit
  /\ RU!Init /\ (part # "run" => rtree = Pipe(Word, Pipe(Word, Word)))

mcvars == <<part, vars, vvars, ovars, cvars, rvars>>

MCNext ==
  /\ UNCHANGED part
  /\ \/ /\ part = "log" /\ Next
        /\ UNCHANGED <<vvars, ovars, cvars, rvars>>
     \/ /\ part = "virtio" /\ V!Next
        /\ UNCHANGED <<vars, ovars, cvars, rvars>>
     \/ /\ part = "uart" /\ UA!UartNext
        /\ UNCHANGED <<vars, vvars, cvars, rvars>>
     \/ /\ part = "clock" /\ CL!ClockNext
        /\ UNCHANGED <<vars, vvars, ovars, rvars>>
     \/ /\ part = "run" /\ RU!Next
        /\ UNCHANGED <<vars, vvars, ovars, cvars>>
     \/ part = "run" /\ UNCHANGED mcvars

MCSpec == MCInit /\ [][MCNext]_mcvars
\* The fairness of Log, Virtio, Uart, Clock and ShRun, each for its part.
\* part never changes, so that one disjunct applies.
MCFairSpec ==
  /\ MCSpec
  /\ \/ /\ []<>(part = "log")
        /\ WF_vars(part = "log" /\ Recover)
        /\ \A p \in Proc : WF_vars(part = "log" /\ EndOp(p))
                           /\ WF_vars(part = "log" /\ CommitStep(p))
     \/ /\ []<>(part = "virtio")
        /\ WF_vvars(part = "virtio" /\ V!DevFetch)
        /\ \A i \in V!Desc : WF_vvars(part = "virtio" /\ V!DevDone(i))
        /\ SF_vvars(part = "virtio" /\ V!IntrEnter)
        /\ WF_vvars(part = "virtio" /\ (V!IntrEntry \/ V!IntrExit))
        /\ \A b \in Buf :
             /\ WF_vvars(part = "virtio" /\ V!Publish(b))
             /\ SF_vvars(part = "virtio" /\ (V!SleepAgain(b) \/ V!Return(b)))
     \/ /\ []<>(part = "uart")
        /\ WF_ovars(part = "uart" /\ UA!Drain) /\ SF_ovars(part = "uart" /\ UA!Uartintr)
        /\ \A t \in UA!Starter :
             WF_ovars(/\ part = "uart"
                      /\ UA!StartDone(t) \/ UA!StartReady(t) \/ UA!StartSend(t))
        /\ \A p \in User : SF_ovars(part = "uart" /\ UA!Putc(p))
     \/ /\ []<>(part = "clock")
        /\ SF_cvars(part = "clock" /\ CL!Tick)
        /\ \A p \in User : SF_cvars(part = "clock" /\ CL!Test(p))
                           /\ WF_cvars(part = "clock" /\ CL!Sleep(p))
     \/ []<>(part = "run") /\ WF_rvars(part = "run" /\ RU!Next)
-----------------------------------------------------------------------------
\* begin_op() and recover_from_log(): a call that sleeps for room in the log
\* is woken or the machine crashes, and unless the machine keeps crashing,
\* recovery ends and the system stays up.  It is not said that the call gets
\* in: others may take the room before it looks, again and again.
LogMoves == SleeperWakes /\ ([]<>(part # "log") \/ RecoveryEnds)

\* Every wait for a device ends: a request handed to the disk returns from
\* virtio_disk_rw(), what uartputc() put in the ring goes out, and every call
\* of sys_sleep() ends, a negative argument included.
DeviceWaitsEnd == V!RequestReturns /\ UA!OutputMoves /\ CL!SleepEnds

\* The shell comes back to its prompt after every pipeline.
PromptReturns == []<>(part # "run" \/ rprompt)
=============================================================================
