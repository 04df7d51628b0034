----------------------------- MODULE MCBindings -----------------------------
(* Small instances of Bindings for TLC.                                    *)
EXTENDS Bindings
CONSTANTS n1, n2
=============================================================================
