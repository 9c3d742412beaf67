----------------------------- MODULE MCBindings -----------------------------
(* Bindings instantiated for TLC. *)
EXTENDS Bindings

CONSTANTS t1, f1, f2, a
=============================================================================
