------------------------------ MODULE BlockDev ------------------------------
(***************************************************************************)
(* What virtio_disk_rw() promises to the buffer cache: a request moves the *)
(* contents of one block between the disk and one buffer, once, at some    *)
(* instant between the call and its return.                                *)
(***************************************************************************)
CONSTANTS Buf,   \* buffers, each with at most one request at a time
          Block  \* blocks of the disk

VARIABLES req,   \* the request of each buffer: what is to be done, and where
          moved  \* the transfer the device has made for it

vars == <<req, moved>>

None == [op |-> "none"]
Request == [op : {"read", "write"}, blk : Block]

Init == req = [b \in Buf |-> None] /\ moved = [b \in Buf |-> None]

Start(b, r) ==
  /\ req[b] = None
  /\ req' = [req EXCEPT ![b] = r]
  /\ UNCHANGED moved

Transfer(b) ==
  /\ req[b] # None /\ moved[b] = None
  /\ moved' = [moved EXCEPT ![b] = req[b]]
  /\ UNCHANGED req

Finish(b) ==
  /\ moved[b] # None
  /\ req' = [req EXCEPT ![b] = None]
  /\ moved' = [moved EXCEPT ![b] = None]

Next ==
  \E b \in Buf :
    \/ \E r \in Request : Start(b, r)
    \/ Transfer(b)
    \/ Finish(b)

Spec == Init /\ [][Next]_vars
=============================================================================
