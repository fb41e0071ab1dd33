-------------------------------- MODULE Uart --------------------------------
(***************************************************************************)
(* Output to the UART (uart.c, consolewrite() of console.c).  Processes    *)
(* put bytes into a ring under uart_tx_lock; uartstart() moves them to the *)
(* device, called by the writer and by the interrupt handler; printf() and *)
(* the echo write to the device without the lock, from any CPU.            *)
(*                                                                         *)
(* The device is the environment: THR is the head of a transmit FIFO of    *)
(* FIFO bytes, LSR_TX_IDLE says that it is empty, and while it is empty    *)
(* the UART asks for an interrupt.  Between a test of LSR_TX_IDLE and the  *)
(* write that follows anyone else may write.                               *)
(***************************************************************************)
EXTENDS Integers, Sequences, FiniteSets, Null

CONSTANTS Writer,             \* callers of consolewrite()
          Sync,               \* callers of uartputc_sync(), each on its CPU
          UART_TX_BUF_SIZE,
          UINT64,             \* 2^64
          FIFO,               \* depth of the FIFO once enabled (16)
          MaxN                \* longest write()

Handler == "uartintr"
Starter == Writer \cup {Handler}

\* The CPUs that may all write at once, and one uartstart(), fit in the FIFO.
ASSUME UartAssumption ==
  /\ Nil \notin Starter /\ Handler \notin Writer /\ Sync \cap Starter = {}
  /\ UART_TX_BUF_SIZE \in Nat \ {0} /\ MaxN \in Nat
  /\ UINT64 \in Nat /\ UINT64 % UART_TX_BUF_SIZE = 0 /\ UART_TX_BUF_SIZE < UINT64
  /\ IsFiniteSet(Sync) /\ FIFO \in Nat /\ Cardinality(Sync) < FIFO

VARIABLES tx_buf, tx_w, tx_r,
          uart_tx_lock,  \* who holds it, or Nil
          where,    \* where each thread is
          left,     \* bytes each process has still to write
          fifo,     \* bytes in the device
          overrun,  \* a byte was written to a full FIFO, and lost
          sent      \* the byte taken from the ring last

uartvars == <<tx_buf, tx_w, tx_r, uart_tx_lock, where, left, fifo, overrun, sent>>

(* uartinit() enables the FIFOs. *)
FifoDepth == FIFO

UartInit ==
  /\ tx_buf = [i \in 0..UART_TX_BUF_SIZE-1 |-> Nil]
  /\ tx_w = 0 /\ tx_r = 0
  /\ uart_tx_lock = Nil
  /\ where = [t \in Starter \cup Sync |-> "idle"]
  /\ left = [p \in Writer |-> 0]
  /\ fifo = 0 /\ overrun = FALSE
  /\ sent = Nil

TX_IDLE == fifo = 0
(* Mutant: >= for ==, on counters that wrap. *)
RingFullUnsigned == tx_w >= tx_r + UART_TX_BUF_SIZE

RingFull == tx_w = (tx_r + UART_TX_BUF_SIZE) % UINT64
RingEmpty == tx_w = tx_r

WriteTHR ==
  /\ overrun' = (overrun \/ fifo = FifoDepth)
  /\ fifo' = IF fifo = FifoDepth THEN fifo ELSE fifo + 1

Move(t, l) == where' = [where EXCEPT ![t] = l]
-----------------------------------------------------------------------------
(* consolewrite(): uartputc() for each byte.                               *)
Write(p, n) ==
  /\ where[p] = "idle"
  /\ left' = [left EXCEPT ![p] = n]
  /\ Move(p, "putc")
  /\ UNCHANGED <<tx_buf, tx_w, tx_r, uart_tx_lock, fifo, overrun, sent>>

(* A turn of uartputc()'s loop.  There is no panic in these behaviours, so *)
(* the test of panicked before it is left out.                             *)
Putc(p) ==
  /\ where[p] = "putc" /\ uart_tx_lock = Nil
  /\ IF RingFull
     THEN Move(p, "asleep") /\ UNCHANGED <<tx_buf, tx_w, uart_tx_lock, left>>
     ELSE /\ tx_buf' = [tx_buf EXCEPT ![tx_w % UART_TX_BUF_SIZE] = p]
          /\ tx_w' = (tx_w + 1) % UINT64
          /\ left' = [left EXCEPT ![p] = @ - 1]
          /\ uart_tx_lock' = p
          /\ Move(p, "start")
  /\ UNCHANGED <<tx_r, fifo, overrun, sent>>

(* uartintr(), once the input is read (module Console): one at a time,     *)
(* because the PLIC gives the interrupt to one CPU.                        *)
Uartintr ==
  /\ where[Handler] = "idle" /\ uart_tx_lock = Nil /\ TX_IDLE
  /\ uart_tx_lock' = Handler
  /\ Move(Handler, "start")
  /\ UNCHANGED <<tx_buf, tx_w, tx_r, left, fifo, overrun, sent>>

(* uartstart(): return when the ring is empty or the UART busy...          *)
AfterStart(t) == IF t \in Writer /\ left[t] > 0 THEN "putc" ELSE "idle"

StartDone(t) ==
  /\ where[t] = "start" /\ (RingEmpty \/ ~TX_IDLE)
  /\ uart_tx_lock' = Nil
  /\ Move(t, AfterStart(t))
  /\ UNCHANGED <<tx_buf, tx_w, tx_r, left, fifo, overrun, sent>>

StartReady(t) ==
  /\ where[t] = "start" /\ ~RingEmpty /\ TX_IDLE
  /\ Move(t, "send")
  /\ UNCHANGED <<tx_buf, tx_w, tx_r, uart_tx_lock, left, fifo, overrun, sent>>

(* Mutant: uartstart() forgets the writers that wait for room. *)
StartWakesNobody == where

(* ... else take a byte, wakeup(&uart_tx_r), write THR, and go round.      *)
StartWakes == [t \in DOMAIN where |-> IF where[t] = "asleep" THEN "putc" ELSE where[t]]

StartSend(t) ==
  /\ where[t] = "send"
  /\ sent' = tx_buf[tx_r % UART_TX_BUF_SIZE]
  /\ tx_buf' = [tx_buf EXCEPT ![tx_r % UART_TX_BUF_SIZE] = Nil]   \* stale
  /\ tx_r' = (tx_r + 1) % UINT64
  /\ WriteTHR
  /\ where' = [StartWakes EXCEPT ![t] = "start"]
  /\ UNCHANGED <<tx_w, uart_tx_lock, left>>
-----------------------------------------------------------------------------
(* uartputc_sync(): spin until LSR_TX_IDLE, then write THR.                *)
SyncTest(s) ==
  /\ where[s] = "idle" /\ TX_IDLE
  /\ Move(s, "write")
  /\ UNCHANGED <<tx_buf, tx_w, tx_r, uart_tx_lock, left, fifo, overrun, sent>>

SyncWrite(s) ==
  /\ where[s] = "write"
  /\ WriteTHR
  /\ Move(s, "idle")
  /\ UNCHANGED <<tx_buf, tx_w, tx_r, uart_tx_lock, left, sent>>

(* The device puts a byte on the line.                                     *)
Drain ==
  /\ fifo > 0
  /\ fifo' = fifo - 1
  /\ UNCHANGED <<tx_buf, tx_w, tx_r, uart_tx_lock, where, left, overrun, sent>>

UartNext ==
  \/ \E p \in Writer : Putc(p) \/ \E n \in 1..MaxN : Write(p, n)
  \/ Uartintr
  \/ \E t \in Starter : StartDone(t) \/ StartReady(t) \/ StartSend(t)
  \/ \E s \in Sync : SyncTest(s) \/ SyncWrite(s)
  \/ Drain

UartSpec == UartInit /\ [][UartNext]_uartvars

(* The line works, its interrupt is taken in the end, uartstart() does not *)
(* stop half way, and whoever keeps finding uart_tx_lock free gets it.     *)
UartFairness ==
  /\ WF_uartvars(Drain) /\ SF_uartvars(Uartintr)
  /\ \A t \in Starter : WF_uartvars(StartDone(t) \/ StartReady(t) \/ StartSend(t))
  /\ \A p \in Writer : SF_uartvars(Putc(p))
-----------------------------------------------------------------------------
InRing == [k \in 1..((tx_w - tx_r) % UINT64) |-> tx_buf[(tx_r + k - 1) % UART_TX_BUF_SIZE]]

Q == INSTANCE Fifo WITH Byte <- Writer, Nothing <- Nil, Capacity <- UART_TX_BUF_SIZE,
       q <- InRing, out <- sent, ropen <- TRUE, wopen <- TRUE

(* Bytes written to the console leave in the order in which uartputc()     *)
(* took them, each once, whoever runs uartstart() and however often the    *)
(* counters wrap.                                                          *)
OutputInOrder == Q!Spec

(* A byte is never written to a device that cannot take it, although the   *)
(* test and the write are not atomic and uartputc_sync() takes no lock:    *)
(* everyone who passed the test fits in the FIFO.                          *)
NoOverrun == ~overrun

(* A writer sleeps only while the ring is full.                            *)
WriterMustWait == \A p \in Writer : where[p] = "asleep" => RingFull

(* Both ends of uartputc(): the device takes each byte it is given, and a  *)
(* writer is stopped by a full ring only.                                  *)
OutputFits == NoOverrun /\ WriterMustWait

UartTypeOK ==
  /\ tx_buf \in [0..(UART_TX_BUF_SIZE - 1) -> Writer \cup {Nil}]
  /\ tx_w \in 0..(UINT64 - 1) /\ tx_r \in 0..(UINT64 - 1)
  /\ uart_tx_lock \in Starter \cup {Nil}
  /\ where \in [Starter \cup Sync -> {"idle", "putc", "asleep", "start", "send", "write"}]
  /\ left \in [Writer -> 0..MaxN]
  /\ fifo \in Nat /\ overrun \in BOOLEAN
  /\ sent \in Writer \cup {Nil}

(* Who has seen LSR_TX_IDLE and not yet written THR.                       *)
Writing == {s \in Sync : where[s] = "write"}
Sending == \E t \in Starter : where[t] = "send"

(* Everyone who passed the test fits, because at most one thread, the one  *)
(* with uart_tx_lock, is in uartstart(); the ring never holds more than    *)
(* its size, and a byte is there when one is sent.                         *)
UartInv ==
  /\ UartTypeOK /\ ~overrun
  /\ \A t \in Starter : where[t] \in {"start", "send"} => uart_tx_lock = t
  /\ \A t \in Starter : where[t] = "send" => ~RingEmpty
  /\ \A p \in Writer : where[p] \in {"putc", "asleep"} => left[p] > 0
  /\ WriterMustWait
  /\ (tx_w - tx_r) % UINT64 <= UART_TX_BUF_SIZE
  /\ fifo + Cardinality(Writing) + (IF Sending THEN 1 ELSE 0) <= Cardinality(Sync) + 1

(* The ring empties or keeps moving: the byte at tx_r is sent, because the *)
(* UART interrupts whenever it has become idle.  (That a given writer gets *)
(* its turn is more than sleep() and wakeup() promise: the others may be   *)
(* quicker each time.)                                                     *)
OutputMoves == []<>(tx_r = tx_w) \/ []<><<tx_r' # tx_r>>_uartvars
=============================================================================
