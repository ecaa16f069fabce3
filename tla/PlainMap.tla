------------------------------ MODULE PlainMap -------------------------------
(***************************************************************************)
(* What the source map promises, without any encoding: a table of absolute *)
(* positions.  Recording a source position at the present end of the       *)
(* output adds an entry, which has no source if the source position is the *)
(* one recorded before: the code leaves the fields out, where zeros would  *)
(* say `as before'.  Recording the same pair twice adds nothing.           *)
(***************************************************************************)
EXTENDS TextPos, Sequences

CONSTANTS
  SrcPos,   \* the positions in the input at which something is recorded
  Idents,   \* the identifiers of the input: name, and where it starts and ends
  Chunks,   \* the texts that may be pushed, as the way they move the end
  Prefix    \* where the output ends at first

VARIABLES
  out,      \* where the output ends
  at,       \* the pair recorded last
  table     \* the map

pvars == <<out, at, table>>

(* The table after recording src with the output ending at dst. *)
Recorded(t, last, dst, src) ==
  IF dst = last.dst /\ src = last.src THEN t
  ELSE Append(t, [dst |-> dst, src |-> IF src = last.src THEN Unmapped ELSE src])

Pair(dst, src) == [dst |-> dst, src |-> src]

Push(c) ==
  /\ out' = Moved(out, c)
  /\ UNCHANGED <<at, table>>

Record(src) ==
  /\ table' = Recorded(table, at, out, src)
  /\ at' = Pair(out, src)
  /\ UNCHANGED out

(* An identifier: its start, its text, its end. *)
RecordIdent(i, c) ==
  /\ out' = Moved(out, c)
  /\ table' = Recorded(Recorded(table, at, out, i.from), Pair(out, i.from), out', i.to)
  /\ at' = Pair(out', i.to)

Init ==
  /\ out = [line |-> 0, col |-> Prefix]
  /\ at = Pair(Origin, Origin)
  /\ table = <<>>

Next ==
  \/ \E c \in Chunks : Push(c)
  \/ \E src \in SrcPos : Record(src)
  \/ \E i \in Idents, c \in Chunks : RecordIdent(i, c)

Spec == Init /\ [][Next]_pvars
=============================================================================
