------------------------------- MODULE MCProc -------------------------------
(* Small instances of Proc for TLC. *)
EXTENDS Proc, TLC

\* CPUs are interchangeable.
Symmetry == Permutations(CPU)
=============================================================================
