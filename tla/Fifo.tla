-------------------------------- MODULE Fifo --------------------------------
(***************************************************************************)
(* What a pipe promises to the processes that share it: a queue of bytes   *)
(* of bounded length.  Bytes leave in the order in which they came, each   *)
(* one once; nothing comes in after the read end is closed; an end that is *)
(* closed stays closed.                                                    *)
(***************************************************************************)
EXTENDS Naturals, Sequences

CONSTANTS Byte,      \* the bytes that may be sent
          Nothing,   \* no byte has been delivered yet
          Capacity   \* how many bytes the pipe holds

VARIABLES q,      \* the bytes in transit
          out,    \* the byte delivered last
          ropen,  \* the read end is open
          wopen   \* the write end is open

vars == <<q, out, ropen, wopen>>

Init == q = <<>> /\ out = Nothing /\ ropen = TRUE /\ wopen = TRUE

Put(b) ==
  /\ ropen /\ Len(q) < Capacity
  /\ q' = Append(q, b)
  /\ UNCHANGED <<out, ropen, wopen>>

Take ==
  /\ q # <<>>
  /\ out' = Head(q)
  /\ q' = Tail(q)
  /\ UNCHANGED <<ropen, wopen>>

\* A reader whose buffer is not mapped loses the byte it took.
Lose ==
  /\ q # <<>>
  /\ q' = Tail(q)
  /\ UNCHANGED <<out, ropen, wopen>>

CloseRead ==
  /\ ropen /\ ropen' = FALSE
  /\ UNCHANGED <<q, out, wopen>>

CloseWrite ==
  /\ wopen /\ wopen' = FALSE
  /\ UNCHANGED <<q, out, ropen>>

Next ==
  \/ \E b \in Byte : Put(b)
  \/ Take
  \/ Lose
  \/ CloseRead
  \/ CloseWrite

Spec == Init /\ [][Next]_vars
=============================================================================
