------------------------------- MODULE MCLog -------------------------------
(* Small instances of Log for TLC. *)
EXTENDS Log, TLC

\* Processes and blocks are interchangeable in Log.
Symmetry == Permutations(Proc) \cup Permutations(Block)
=============================================================================
