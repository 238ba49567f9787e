--------------------------- MODULE MCResetRestore ---------------------------
(* Instances of ResetRestore for TLC. *)
EXTENDS ResetRestore

============================================================================
