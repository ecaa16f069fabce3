--------------------------- MODULE DeepMergeProps ---------------------------
(* What Nix says the entries of a set mean, whatever order they come in. *)
EXTENDS DeepMerge

LeavesOf(i) == {<<lit[i].path \o q, i>> : q \in lit[i].value}

AllLeaves == UNION {LeavesOf(i) : i \in DOMAIN lit}

(* No leaf is at or above another: entries of one set that only share sets. *)
Tree(T) == \A l, m \in T : IsPrefix(l[1], m[1]) => l = m

(* The literals Nix accepts. *)
Valid == Tree(AllLeaves)

Finished == error # "" \/ pc > Len(lit)

----------------------------------------------------------------------------
(* The gaps of the implementation. *)

(* A path of three keys or more *)
Deep == \E i \in DOMAIN lit : Len(lit[i].path) > 2

(* A set written at a path that has leaves already *)
Rewritten == \E i, j \in DOMAIN lit : i < j /\ Below(LeavesOf(i), lit[j].path) # {}

(* A nested path of a `let' before the set it goes into *)
Undeclared ==
  Form = "let" /\ \E j \in DOMAIN lit :
    /\ Len(lit[j].path) > 1
    /\ \A i \in 1 .. (j - 1) : lit[i].path # <<lit[j].path[1]>>

Gap == Deep \/ Rewritten \/ Undeclared

----------------------------------------------------------------------------

(***************************************************************************)
(* Outside the gaps, the statements build what the entries mean together:  *)
(* every value once, none lost to a later entry (lib.rs 226, index.ts 399).*)
(***************************************************************************)
MergedButForGaps ==
  Valid /\ Finished /\ ~Gap => error = "" /\ own = AllLeaves

(***************************************************************************)
(* A nested key of a `rec' never writes into a set of the enclosing scope, *)
(* which is visible under the same name (the hasOwnProperty at lib.rs 234).*)
(***************************************************************************)
OuterUntouched == [][outer' = outer]_vars
=============================================================================
