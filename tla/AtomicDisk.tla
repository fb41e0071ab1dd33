----------------------------- MODULE AtomicDisk -----------------------------
(***************************************************************************)
(* What the logging layer of kernel/log.c promises to the file system      *)
(* calls above it: a disk whose updates become durable in groups of whole  *)
(* calls.  A call is a begin_op()/end_op() bracket; its writes are visible *)
(* to everyone at once and become durable together with the writes of all  *)
(* the other calls of the group, at an instant when no call is running; a  *)
(* crash at any other time brings back exactly what was durable.           *)
(***************************************************************************)
EXTENDS Naturals

CONSTANTS Proc,     \* the processes that make file system calls
          Block,    \* the blocks outside the log
          Val,      \* the contents of a block
          InitVal   \* the contents mkfs gave every block

VARIABLES durable,  \* the blocks as a crash at this instant would leave them
          current,  \* the blocks as a call that reads now sees them
          active    \* the processes inside begin_op() ... end_op()

vars == <<durable, current, active>>

Init ==
  /\ durable = [b \in Block |-> InitVal]
  /\ current = durable
  /\ active = {}

Begin(p) ==
  /\ p \notin active
  /\ active' = active \cup {p}
  /\ UNCHANGED <<durable, current>>

Write(p, b, v) ==
  /\ p \in active
  /\ current' = [current EXCEPT ![b] = v]
  /\ UNCHANGED <<durable, active>>

End(p) ==
  /\ p \in active
  /\ active' = active \ {p}
  /\ UNCHANGED <<durable, current>>

\* The whole group, and never part of a running call, becomes durable.
Commit ==
  /\ active = {}
  /\ durable' = current
  /\ UNCHANGED <<current, active>>

Crash ==
  /\ current' = durable
  /\ active' = {}
  /\ UNCHANGED durable

Next ==
  \/ \E p \in Proc : Begin(p) \/ End(p)
  \/ \E p \in Proc, b \in Block, v \in Val : Write(p, b, v)
  \/ Commit
  \/ Crash

Spec == Init /\ [][Next]_vars
=============================================================================
