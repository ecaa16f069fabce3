------------------------------ MODULE MCScope -------------------------------
(***************************************************************************)
(* Four objects on top of the root scope: enough for a `with' in a `with', *)
(* and for a scope in a scope in a `with'.  One name, since no operation   *)
(* relates two names.                                                      *)
(***************************************************************************)
EXTENDS ScopeProps, TLC

CONSTANTS x, u, v

Symmetric == Permutations({u, v})
=============================================================================
