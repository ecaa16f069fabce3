------------------------------ MODULE TextPos -------------------------------
(* Positions in a text, by line and column, counted from 0. *)
EXTENDS Integers

Pos == [line : Nat, col : Nat]

Origin == [line |-> 0, col |-> 0]

Unmapped == [line |-> -1, col |-> -1]        \* no position

(* Pushing a text with c.lines newlines and c.cols characters after them. *)
Moved(o, c) ==
  [line |-> o.line + c.lines, col |-> IF c.lines = 0 THEN o.col + c.cols ELSE c.cols]
=============================================================================
