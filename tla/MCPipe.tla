------------------------------- MODULE MCPipe -------------------------------
(* Small instances of Pipe for TLC. *)
EXTENDS Pipe

(* The byte stored tells the round of the ring, so that it differs from    *)
(* the one that was in its slot before.                                    *)
Numbered == nwrite' # nwrite => data'[nwrite % PIPESIZE] = nwrite \div PIPESIZE
=============================================================================
