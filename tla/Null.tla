-------------------------------- MODULE Null --------------------------------
(* The null pointer, which several modules use for "none". *)
CONSTANT Nil
=============================================================================
