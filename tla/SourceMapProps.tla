--------------------------- MODULE SourceMapProps ---------------------------
(***************************************************************************)
(* What a reader of the source map gets out of it.                         *)
(***************************************************************************)
EXTENDS SourceMap

Token == [k : {"lines", "comma", "vlq"}, n : Int]
Entry == [dst : Pos, src : Pos \cup {Unmapped}, name : Int]

(* Types; a reader never comes to a negative line or column of the output  *)
(* (helpers.rs 117-149).                                                   *)
TypeOK ==
  /\ out \in Pos
  /\ ctx \in [names : Seq({i.name : i \in Idents}), mappings : Seq(Token),
              lp_src : Pos, lp_dst : Pos,
              dec : [field : 0 .. 5, line : Nat, col : Nat, sline : Int, scol : Int,
                     sname : Int, bad : Nat, table : Seq(Entry)]]

(***************************************************************************)
(* ReaderInStep: after any sequence of calls, with jumps back and forth in *)
(* the input, new lines and repeated positions, every segment so far had a *)
(* legal number of fields, and a reader who adds up the relative values    *)
(* stands where snapshot_pos believes: nothing shifts later positions.     *)
(***************************************************************************)
ReaderInStep ==
  LET d == ctx.dec
  IN /\ d.bad = 0 /\ d.field \in {0, 1, 4, 5}
     /\ ctx.lp_dst = [line |-> d.line, col |-> d.col]
     /\ ctx.lp_src = [line |-> d.sline, col |-> d.scol]

(***************************************************************************)
(* IsPlainMap: what the reader has read is the plain table of the recorded *)
(* positions.                                                              *)
(***************************************************************************)
PlainTable ==
  [j \in DOMAIN ctx.dec.table |->
     [dst |-> ctx.dec.table[j].dst, src |-> ctx.dec.table[j].src]]

Plain == INSTANCE PlainMap WITH
  table <- PlainTable, at <- [dst |-> ctx.lp_dst, src |-> ctx.lp_src]

IsPlainMap == Plain!Spec

(* Entry e is the end of an identifier called names[n], counted from 0. *)
Denotes(e, n) ==
  /\ n + 1 \in DOMAIN ctx.names
  /\ \E i \in Idents : i.to = e.src /\ i.name = ctx.names[n + 1]

(***************************************************************************)
(* NamesAreIndices: what the version the map declares ("version": 3,       *)
(* lib.rs 1086) says of the name field, which snapshot_ident (helpers.rs   *)
(* 166-175) writes: a reader who adds it up finds in names the identifier  *)
(* that ends there.                                                        *)
(***************************************************************************)
NamesAreIndices ==
  \A j \in DOMAIN ctx.dec.table :
    ctx.dec.table[j].name # -1 => Denotes(ctx.dec.table[j], ctx.dec.table[j].name)
=============================================================================
