-------------------------- MODULE MCParameterStore --------------------------
(* Instances of ParameterStore for TLC. *)
EXTENDS ParameterStore

============================================================================
