-------------------------------- MODULE Tty --------------------------------
(***************************************************************************)
(* What the console promises to its readers: the line being typed can be   *)
(* edited until it ends, from then on it only waits to be read, in order.  *)
(***************************************************************************)
EXTENDS Naturals, Sequences

CONSTANTS Char,   \* what can be stored
          End,    \* the characters that end a line
          Size    \* how many characters are kept in all

VARIABLES line, ready

vars == <<line, ready>>

Init == line = <<>> /\ ready = <<>>

\* A line also ends when there is no room for more of it.
Type(c) ==
  LET full == Len(line) + Len(ready) + 1 = Size IN
  /\ Len(line) + Len(ready) < Size
  /\ IF c \in End \/ full
     THEN ready' = ready \o Append(line, c) /\ line' = <<>>
     ELSE line' = Append(line, c) /\ UNCHANGED ready

Erase ==
  /\ line # <<>>
  /\ line' = SubSeq(line, 1, Len(line) - 1)
  /\ UNCHANGED ready

KillLine == line' = <<>> /\ UNCHANGED ready

Read ==
  /\ ready # <<>>
  /\ ready' = Tail(ready)
  /\ UNCHANGED line

Next == (\E c \in Char : Type(c)) \/ Erase \/ KillLine \/ Read

Spec == Init /\ [][Next]_vars
=============================================================================
