----------------------------- MODULE SourceMap ------------------------------
(***************************************************************************)
(* The source map the translator writes while it translates (helpers.rs,   *)
(* snapshot_pos and snapshot_ident): `mappings' is a stream of separators  *)
(* and numbers, each position given relative to the one before.  Which     *)
(* positions are recorded, and how the output grows in between, is up to   *)
(* the translator; it goes forwards in the output, and in any order        *)
(* through the input.                                                      *)
(***************************************************************************)
EXTENDS TextPos, Sequences

CONSTANTS
  SrcPos,      \* the positions in the input at which nodes start
  Idents,      \* the identifiers of the input
  Chunks,      \* the texts pushed: how many newlines, how far in the last line
  Prefix,      \* length of what translate() emits before the first node
  MaxSegments, \* bound: segments written
  MaxLine,     \* bounds: how far pushes between recorded positions go
  MaxCol

ASSUME SourceMapAssumption ==
  /\ SrcPos \subseteq Pos
  /\ Chunks \subseteq [lines : Nat, cols : Nat]
  /\ \A i \in Idents : /\ i.from \in Pos /\ i.to \in Pos
                       /\ i.from # i.to            \* no identifier is empty
  /\ Prefix \in Nat /\ MaxSegments \in Nat /\ MaxLine \in Nat /\ MaxCol \in Nat

VARIABLES
  out,   \* where Context.acc ends
  ctx    \* the other fields of Context: names, mappings, lp_src, lp_dst; and
         \* dec, a history variable: a reader that has read all of mappings

vars == <<out, ctx>>

----------------------------------------------------------------------------
(***************************************************************************)
(* The stream: `;' for every new line of output, `,' between the segments  *)
(* of a line, and VLQ numbers.                                             *)
(***************************************************************************)
Lines(n) == [k |-> "lines", n |-> n]         \* n times `;'
Comma    == [k |-> "comma", n |-> 0]
Vlq(n)   == [k |-> "vlq",   n |-> n]

(***************************************************************************)
(* A reader of the format ("version": 3).  A segment has 1, 4 or 5 fields: *)
(* column, source, line, column, name; each is relative to the last value  *)
(* of that field, the output column within its line.  `bad' counts what no *)
(* reader accepts.                                                         *)
(***************************************************************************)
Reader0 == [field |-> 0, line |-> 0, col |-> 0, sline |-> 0, scol |-> 0,
            sname |-> 0, bad |-> 0, table |-> <<>>]

Segment(d, n) ==
  [dst |-> [line |-> d.line, col |-> d.col + n], src |-> Unmapped, name |-> -1]

ReadCol(d, n) ==
  [d EXCEPT !.field = 1, !.col = d.col + n, !.table = Append(d.table, Segment(d, n))]

(* one file only *)
ReadFile(d) == [d EXCEPT !.field = 2]

ReadSrcLine(d, n) == [d EXCEPT !.field = 3, !.sline = d.sline + n]

ReadSrcCol(d, n) ==
  [d EXCEPT !.field = 4, !.scol = d.scol + n,
            !.table[Len(d.table)].src = [line |-> d.sline, col |-> d.scol + n]]

ReadName(d, n) ==
  [d EXCEPT !.field = 5, !.sname = d.sname + n,
            !.table[Len(d.table)].name = d.sname + n]

ReadField(d, n) ==
  CASE d.field = 0 -> ReadCol(d, n)
    [] d.field = 1 -> ReadFile(d)
    [] d.field = 2 -> ReadSrcLine(d, n)
    [] d.field = 3 -> ReadSrcCol(d, n)
    [] d.field = 4 -> ReadName(d, n)
    [] OTHER       -> [d EXCEPT !.bad = d.bad + 1]

EndSegment(d) ==
  [d EXCEPT !.field = 0, !.bad = IF d.field \in {0, 1, 4, 5} THEN d.bad ELSE d.bad + 1]

Read(d, tok) ==
  CASE tok.k = "lines" -> [EndSegment(d) EXCEPT !.line = d.line + tok.n, !.col = 0]
    [] tok.k = "comma" -> EndSegment(d)
    [] OTHER           -> ReadField(d, tok.n)

Write(c, tok) ==
  [c EXCEPT !.mappings = Append(c.mappings, tok), !.dec = Read(c.dec, tok)]

----------------------------------------------------------------------------
(* PosTrackerExtern::update: lines and columns from a to b. *)
OffsetLine(a, b) == b.line - a.line

(* Mutant: a new line does not begin at column 0. *)
OffsetColSameLine(a, b) == b.col - a.col

OffsetCol(a, b) == IF a.line = b.line THEN b.col - a.col ELSE b.col

(* Separators, then the position in the output. *)
WriteDst(c, o) ==
  LET dst_oline == OffsetLine(c.lp_dst, o)
      sep == IF dst_oline > 0 THEN Write(c, Lines(dst_oline))
             ELSE IF c.mappings # <<>> THEN Write(c, Comma) ELSE c
  IN Write(sep, Vlq(OffsetCol(c.lp_dst, o)))

(* The position in the input, unless it is the same as before.  Lines and *)
(* columns are subtracted separately, there being no separator.           *)
WriteSrc(c, src) ==
  IF src = c.lp_src THEN c
  ELSE Write(Write(Write(c, Vlq(0)), Vlq(src.line - c.lp_src.line)),
             Vlq(src.col - c.lp_src.col))

(* Mutants: a position of lp_ is not brought up to date. *)
snapshot_pos_stale_dst(c, o, src) ==
  IF o = c.lp_dst /\ src = c.lp_src THEN c
  ELSE [WriteSrc(WriteDst(c, o), src) EXCEPT !.lp_src = src]

snapshot_pos_stale_src(c, o, src) ==
  IF o = c.lp_dst /\ src = c.lp_src THEN c
  ELSE [WriteSrc(WriteDst(c, o), src) EXCEPT !.lp_dst = o]

(* snapshot_pos: o is the end of acc, src the position in the input. *)
snapshot_pos(c, o, src) ==
  IF o = c.lp_dst /\ src = c.lp_src THEN c
  ELSE [WriteSrc(WriteDst(c, o), src) EXCEPT !.lp_src = src, !.lp_dst = o]

(***************************************************************************)
(* names: the index (from 0) of an identifier, which is added at the end   *)
(* if it is not there yet.                                                 *)
(***************************************************************************)
Known(c, name) == \E j \in DOMAIN c.names : c.names[j] = name

index(c, name) ==
  IF Known(c, name)
  THEN (CHOOSE j \in DOMAIN c.names : c.names[j] = name) - 1
  ELSE Len(c.names)

AddName(c, name) ==
  [Write(c, Vlq(index(c, name))) EXCEPT
     !.names = IF Known(c, name) THEN c.names ELSE Append(c.names, name)]

----------------------------------------------------------------------------
(* Context.push *)
push(c) ==
  /\ Moved(out, c) \in [line : 0 .. MaxLine, col : 0 .. MaxCol]
  /\ out' = Moved(out, c)
  /\ UNCHANGED ctx

(* The start of a node (translate_node). *)
Snapshot(src) ==
  /\ Len(ctx.dec.table) < MaxSegments
  /\ ctx' = snapshot_pos(ctx, out, src)
  /\ UNCHANGED out

(***************************************************************************)
(* snapshot_ident: the start, what `consume' pushes, the end, the name.    *)
(* The output only grows, so that PosTrackerExtern::update never fails.    *)
(***************************************************************************)
snapshot_ident(i, c) ==
  /\ Len(ctx.dec.table) < MaxSegments
  /\ out' = Moved(out, c)
  /\ ctx' = AddName(snapshot_pos(snapshot_pos(ctx, out, i.from), out', i.to), i.name)

Init ==
  /\ out = [line |-> 0, col |-> Prefix]
  /\ ctx = [names |-> <<>>, mappings |-> <<>>, lp_src |-> Origin,
            lp_dst |-> Origin, dec |-> Reader0]

Next ==
  \/ \E c \in Chunks : push(c)
  \/ \E src \in SrcPos : Snapshot(src)
  \/ \E i \in Idents, c \in Chunks : snapshot_ident(i, c)

Spec == Init /\ [][Next]_vars
=============================================================================
