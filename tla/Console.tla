------------------------------ MODULE Console ------------------------------
(***************************************************************************)
(* Console input (console.c): consoleintr() edits the ring cons.buf under  *)
(* the three indices r <= w <= e, consoleread() takes bytes from it.  The  *)
(* indices are uints of UINT values; INPUT_BUF divides UINT.  A step of    *)
(* consoleread() is one turn of its loop, with cons.lock held from the     *)
(* first to the last or to the sleep(); consoleintr() is one step.  The    *)
(* echo goes to the UART without a lock (module Uart); ^P only prints.     *)
(***************************************************************************)
EXTENDS Integers, Sequences, Null

CONSTANTS Reader, Letter, INPUT_BUF,
          UINT32,    \* 2^32
          MaxRead    \* longest read()

ASSUME ConsoleAssumption ==
  /\ Nil \notin Reader /\ MaxRead \in Nat
  /\ Letter \cap {"\r", "\n", "^D", "^U", "^H"} = {}
  /\ INPUT_BUF \in Nat \ {0} /\ INPUT_BUF < UINT32
  /\ UINT32 \in Nat /\ UINT32 % INPUT_BUF = 0

VARIABLES cons_buf, cons_r, cons_w, cons_e,   \* struct cons
          cons_lock,   \* the process that holds cons.lock, or Nil
          rd,          \* each process: pc, bytes wanted and still wanted
          doomed       \* the readers that are killed

consolevars == <<cons_buf, cons_r, cons_w, cons_e, cons_lock, rd, doomed>>

NotReading == [pc |-> "idle", target |-> 0, n |-> 0]
Keys == Letter \cup {"\r", "\n", "^D", "^U", "^H"}

ConsoleInit ==
  /\ cons_buf = [i \in 0..INPUT_BUF-1 |-> Nil]
  /\ cons_r = 0 /\ cons_w = 0 /\ cons_e = 0
  /\ cons_lock = Nil
  /\ rd = [p \in Reader |-> NotReading]
  /\ doomed = {}

CharAt(i) == cons_buf[i % INPUT_BUF]
InCons == (cons_e - cons_r) % UINT32

\* wakeup(&cons.r)
WakeReaders ==
  rd' = [p \in Reader |-> IF rd[p].pc = "asleep" THEN [rd[p] EXCEPT !.pc = "run"] ELSE rd[p]]
-----------------------------------------------------------------------------
(* Mutant: ^U does not look at the write index. *)
KillLineAll == cons_e' = cons_r

(* ^U: back to the committed part or to a newline, whichever comes first.  *)
KillLine ==
  LET span == (cons_e - cons_w) % UINT32
      stop(k) == k = span \/ CharAt(cons_e - k - 1) = "\n"
      k == CHOOSE n \in 0..span : stop(n) /\ \A j \in 0..n-1 : ~stop(j)
  IN cons_e' = (cons_e - k) % UINT32

Backspace == cons_e # cons_w /\ cons_e' = (cons_e - 1) % UINT32

(* The default case: store the character; a line is committed when it ends *)
(* and when the ring is full.                                              *)
Commits(c, e1) == c \in {"\n", "^D"} \/ e1 = (cons_r + INPUT_BUF) % UINT32

Store(key) ==
  LET c == IF key = "\r" THEN "\n" ELSE key
      e1 == (cons_e + 1) % UINT32
  IN
  /\ InCons < INPUT_BUF
  /\ cons_buf' = [cons_buf EXCEPT ![cons_e % INPUT_BUF] = c]
  /\ cons_e' = e1
  /\ IF Commits(c, e1) THEN cons_w' = e1 /\ WakeReaders ELSE UNCHANGED <<cons_w, rd>>

Consoleintr(key) ==
  /\ cons_lock = Nil
  /\ \/ key = "^U" /\ KillLine /\ UNCHANGED <<cons_buf, cons_w, rd>>
     \/ key = "^H" /\ Backspace /\ UNCHANGED <<cons_buf, cons_w, rd>>
     \/ key \notin {"^U", "^H"} /\ Store(key)
  /\ UNCHANGED <<cons_r, cons_lock, doomed>>
-----------------------------------------------------------------------------
ReadBegin(p, n) ==
  /\ rd[p] = NotReading /\ p \notin doomed
  /\ rd' = [rd EXCEPT ![p] = [pc |-> "run", target |-> n, n |-> n]]
  /\ UNCHANGED <<cons_buf, cons_r, cons_w, cons_e, cons_lock, doomed>>

HasCons(p) == rd[p].pc = "run" /\ cons_lock \in {Nil, p}

(* Mutant: cons.lock is released before sleep(). *)
ReadEmptyUnlocks(p) ==
  /\ HasCons(p) /\ rd[p].n > 0 /\ cons_r = cons_w
  /\ rd' = [rd EXCEPT ![p] = IF p \in doomed THEN NotReading ELSE [@ EXCEPT !.pc = "sleep"]]
  /\ cons_lock' = Nil
  /\ UNCHANGED <<cons_buf, cons_r, cons_w, cons_e, doomed>>

(* The ring is empty: return -1 when killed, else sleep().                 *)
ReadEmpty(p) ==
  /\ HasCons(p) /\ rd[p].n > 0 /\ cons_r = cons_w
  /\ IF p \in doomed
     THEN rd' = [rd EXCEPT ![p] = NotReading] /\ cons_lock' = Nil
     ELSE rd' = [rd EXCEPT ![p].pc = "sleep"] /\ cons_lock' = p
  /\ UNCHANGED <<cons_buf, cons_r, cons_w, cons_e, doomed>>

ReadSleep(p) ==
  /\ rd[p].pc = "sleep"
  /\ rd' = [rd EXCEPT ![p].pc = "asleep"]
  /\ cons_lock' = Nil
  /\ UNCHANGED <<cons_buf, cons_r, cons_w, cons_e, doomed>>

(* cons.r after a ^D: it stays for the next call when this one has bytes.  *)
PastEof(p) == IF rd[p].n < rd[p].target THEN cons_r ELSE (cons_r + 1) % UINT32

ReadTake(p) ==
  /\ HasCons(p) /\ rd[p].n > 0 /\ cons_r # cons_w
  /\ IF CharAt(cons_r) = "^D"
     THEN /\ cons_r' = PastEof(p)
          /\ rd' = [rd EXCEPT ![p] = NotReading] /\ cons_lock' = Nil
     ELSE /\ cons_r' = (cons_r + 1) % UINT32
          /\ \/ CharAt(cons_r) # "\n" /\ rd[p].n > 1     \* go on
                /\ rd' = [rd EXCEPT ![p].n = @ - 1] /\ cons_lock' = p
             \/ rd' = [rd EXCEPT ![p] = NotReading] /\ cons_lock' = Nil   \* done, or copyout fails
  /\ UNCHANGED <<cons_buf, cons_w, cons_e, doomed>>

(* kill(): the flag, and a sleeper runs again.                             *)
KillReader(p) ==
  /\ rd[p].pc # "idle" /\ p \notin doomed
  /\ doomed' = doomed \cup {p}
  /\ rd' = [rd EXCEPT ![p].pc = IF @ = "asleep" THEN "run" ELSE @]
  /\ UNCHANGED <<cons_buf, cons_r, cons_w, cons_e, cons_lock>>

ConsoleNext ==
  \/ \E key \in Keys : Consoleintr(key)
  \/ \E p \in Reader :
       \/ \E n \in 1..MaxRead : ReadBegin(p, n)
       \/ ReadEmpty(p) \/ ReadSleep(p) \/ ReadTake(p) \/ KillReader(p)

ConsoleSpec == ConsoleInit /\ [][ConsoleNext]_consolevars
-----------------------------------------------------------------------------
Chars(i, n) == [k \in 1..n |-> CharAt(i + k - 1)]

Char == Letter \cup {"\n", "^D"}
Ready == (cons_w - cons_r) % UINT32   \* how much has been committed
Edited == (cons_e - cons_w) % UINT32  \* how much can still be edited

T == INSTANCE Tty WITH Char <- Char, End <- {"\n", "^D"}, Size <- INPUT_BUF,
       line <- Chars(cons_w, Edited), ready <- Chars(cons_r, Ready)

(* A read() takes a ^D only as its first character, and returns 0 bytes:   *)
(* no end of file typed at the console is swallowed by a read that also    *)
(* returns data.                                                           *)
EofIsEmptyReadStep ==
  \A p \in Reader :
    (rd[p].pc = "run" /\ cons_r' # cons_r /\ CharAt(cons_r) = "^D" /\ rd'[p] = NotReading)
      => rd[p].n = rd[p].target

(* What is read is what was typed and not erased: over all wraps of the    *)
(* three indices the ring holds a committed part and a line being edited,  *)
(* and ^U and ^H never reach into what was committed.  A read that finds   *)
(* ^D first returns no bytes, and the ^D is used up once.                  *)
ImplementsTty == T!Spec /\ [][EofIsEmptyReadStep]_consolevars

(* The keyboard is never dead: if there is no room for another character,  *)
(* what the ring holds has been handed to the readers.                     *)
FullIsCommitted == InCons = INPUT_BUF => cons_w = cons_e

(* Nobody sleeps in consoleread() while there is something to read.        *)
AsleepForNothing == \A p \in Reader : rd[p].pc = "asleep" => cons_r = cons_w

(* Input does not get stuck: consoleread() sleeps only while there is      *)
(* nothing to read, and a full buffer is there to read without an end of   *)
(* line.                                                                   *)
ReaderMustWait == AsleepForNothing /\ FullIsCommitted

ConsoleTypeOK ==
  /\ cons_buf \in [0..(INPUT_BUF - 1) -> Char \cup {Nil}]
  /\ cons_r \in 0..(UINT32 - 1) /\ cons_w \in 0..(UINT32 - 1) /\ cons_e \in 0..(UINT32 - 1)
  /\ cons_lock \in Reader \cup {Nil} /\ doomed \subseteq Reader
  /\ rd \in [Reader -> [pc : {"idle", "run", "sleep", "asleep"},
                        target : 0..MaxRead, n : 0..MaxRead]]

(* The three indices are in order, whichever of them have wrapped; the     *)
(* part that can be edited has no end of a line in it; the ring is         *)
(* committed before it is full; a reader about to sleep has the lock.      *)
ConsoleInv ==
  /\ ConsoleTypeOK
  /\ InCons = Ready + Edited /\ InCons <= INPUT_BUF
  /\ \A k \in 0..(Edited - 1) : CharAt(cons_w + k) \notin {"\n", "^D"}
  /\ FullIsCommitted
  /\ \A p \in Reader :
       /\ rd[p].n <= rd[p].target
       /\ rd[p].pc = "sleep" => cons_lock = p
       /\ rd[p].pc \in {"sleep", "asleep"} => cons_r = cons_w
=============================================================================
