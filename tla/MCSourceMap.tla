---------------------------- MODULE MCSourceMap -----------------------------
(***************************************************************************)
(* Two lines of input with two identifiers, one of which occurs twice; the *)
(* output grows within its line or by a line.                              *)
(***************************************************************************)
EXTENDS SourceMapProps

At(l, c) == [line |-> l, col |-> c]

MCSrcPos == {At(0, 0), At(0, 2), At(1, 0)}

MCIdents == {[name |-> "a", from |-> At(0, 0), to |-> At(0, 1)],
             [name |-> "b", from |-> At(0, 2), to |-> At(0, 3)],
             [name |-> "a", from |-> At(1, 1), to |-> At(1, 2)]}

MCChunks == {[lines |-> 0, cols |-> 2], [lines |-> 1, cols |-> 1]}
=============================================================================
