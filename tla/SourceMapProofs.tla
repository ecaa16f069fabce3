--------------------------- MODULE SourceMapProofs --------------------------
(***************************************************************************)
(* The relative numbers of the source map add up, for every input, every   *)
(* identifier and every sequence of recorded positions.  The lemmas follow *)
(* the writer: a separator, a position in the output, a position in the    *)
(* input, a name; each says what the reader of the stream makes of it.     *)
(* None of them needs more than that reader and writer were in step        *)
(* before, and that the output does not go back.                           *)
(***************************************************************************)
EXTENDS SourceMapProps, SequenceTheorems, TLAPS

(* The types of TypeOK by name. *)
NameSet == {i.name : i \in Idents}

Fields == 0 .. 5

Reader == [field : Fields, line : Nat, col : Nat, sline : Int, scol : Int,
           sname : Int, bad : Nat, table : Seq(Entry)]

Context == [names : Seq(NameSet), mappings : Seq(Token), lp_src : Pos, lp_dst : Pos,
            dec : Reader]

(* The types of the fields of a reader, of a context, of a position. *)
LEMMA ReaderFields ==
  ASSUME NEW d \in Reader
  PROVE  /\ d.field \in Fields /\ d.line \in Nat /\ d.col \in Nat /\ d.sline \in Int
         /\ d.scol \in Int /\ d.sname \in Int /\ d.bad \in Nat /\ d.table \in Seq(Entry)
BY DEF Reader

LEMMA FieldNumbers == 0 \in Fields /\ 1 \in Fields /\ 2 \in Fields /\ 3 \in Fields
                      /\ 4 \in Fields /\ 5 \in Fields
BY DEF Fields

(* Sequences of which one element is replaced. *)
LEMMA SeqUpdate ==
  ASSUME NEW S, NEW s \in Seq(S), NEW i \in 1 .. Len(s), NEW x \in S
  PROVE  /\ [s EXCEPT ![i] = x] \in Seq(S) /\ Len([s EXCEPT ![i] = x]) = Len(s)
         /\ DOMAIN [s EXCEPT ![i] = x] = 1 .. Len(s)
OBVIOUS

(* The reader completes the segment it read last. *)
LEMMA LastEntry ==
  ASSUME NEW t \in Seq(Entry), t # <<>>
  PROVE  /\ Len(t) \in 1 .. Len(t) /\ t[Len(t)] \in Entry
         /\ \A p \in Pos : [t EXCEPT ![Len(t)].src = p] \in Seq(Entry)
         /\ \A n \in Int : [t EXCEPT ![Len(t)].name = n] \in Seq(Entry)
<1> DEFINE e == t[Len(t)]
           L == Len(t)
<1>1. L \in 1 .. Len(t) /\ e \in Entry
  OBVIOUS
<1>2. /\ \A p \in Pos : [e EXCEPT !.src = p] \in Entry
      /\ \A n \in Int : [e EXCEPT !.name = n] \in Entry
  BY <1>1 DEF Entry
<1>3. /\ \A p \in Pos : [t EXCEPT ![L] = [e EXCEPT !.src = p]] \in Seq(Entry)
      /\ \A n \in Int : [t EXCEPT ![L] = [e EXCEPT !.name = n]] \in Seq(Entry)
  BY <1>1, <1>2, SeqUpdate
<1> QED
  BY <1>1, <1>3

(* A separator after a legal number of fields. *)
LEMMA EndSegmentEffect ==
  ASSUME NEW d \in Reader, d.field \in {0, 1, 4, 5}
  PROVE  /\ EndSegment(d) \in Reader
         /\ EndSegment(d).field = 0 /\ EndSegment(d).line = d.line
         /\ EndSegment(d).col = d.col /\ EndSegment(d).sline = d.sline
         /\ EndSegment(d).scol = d.scol /\ EndSegment(d).bad = d.bad
         /\ EndSegment(d).table = d.table
<1>1. EndSegment(d) = [d EXCEPT !.field = 0, !.bad = d.bad]
  BY DEF EndSegment
<1>2. EndSegment(d) \in Reader
  BY <1>1, ReaderFields, FieldNumbers DEF Reader
<1> QED
  BY <1>1, <1>2 DEF Reader

(* Which field is read depends on the number of fields before it. *)
LEMMA FieldCases ==
  ASSUME NEW d, NEW n
  PROVE  /\ d.field = 0 => ReadField(d, n) = ReadCol(d, n)
         /\ d.field = 1 => ReadField(d, n) = ReadFile(d)
         /\ d.field = 2 => ReadField(d, n) = ReadSrcLine(d, n)
         /\ d.field = 3 => ReadField(d, n) = ReadSrcCol(d, n)
         /\ d.field = 4 => ReadField(d, n) = ReadName(d, n)
  BY DEF ReadField

(* The first field of a segment adds an entry to the table. *)
LEMMA ColEffect ==
  ASSUME NEW d \in Reader, NEW n \in Int, d.field = 0, d.col + n \in Nat
  PROVE  LET r == ReadField(d, n)
         IN /\ r \in Reader /\ r.field = 1 /\ r.line = d.line /\ r.col = d.col + n
            /\ r.sline = d.sline /\ r.scol = d.scol /\ r.bad = d.bad
            /\ r.table = Append(d.table, Segment(d, n))
            /\ Segment(d, n) \in Entry
<1> DEFINE t == Append(d.table, Segment(d, n))
           k == d.col + n
<1>1. ReadField(d, n) = [d EXCEPT !.field = 1, !.col = k, !.table = t]
  BY FieldCases DEF ReadCol
<1>2. Segment(d, n) \in Entry
  BY ReaderFields DEF Segment, Entry, Pos
<1>3. t \in Seq(Entry) /\ k \in Nat
  BY <1>2, ReaderFields
<1> HIDE DEF t, k
<1>4. [d EXCEPT !.field = 1, !.col = k, !.table = t] \in Reader
  BY <1>3, FieldNumbers DEF Reader
<1>5. LET r == [d EXCEPT !.field = 1, !.col = k, !.table = t]
      IN /\ r.field = 1 /\ r.line = d.line /\ r.col = k
         /\ r.sline = d.sline /\ r.scol = d.scol /\ r.bad = d.bad /\ r.table = t
  BY DEF Reader
<1> QED
  BY <1>1, <1>2, <1>4, <1>5 DEF t, k

(* The three fields of a position in the input, one after the other *)
LEMMA SourceEffect ==
  ASSUME NEW d \in Reader, d.field = 1, d.table # <<>>,
         NEW n \in Int, NEW m \in Int, [line |-> d.sline + n, col |-> d.scol + m] \in Pos
  PROVE  LET r == ReadField(ReadField(ReadField(d, 0), n), m)
             p == [line |-> d.sline + n, col |-> d.scol + m]
         IN /\ r \in Reader /\ r.field = 4 /\ r.line = d.line /\ r.col = d.col
            /\ r.sline = d.sline + n /\ r.scol = d.scol + m /\ r.bad = d.bad
            /\ r.table = [d.table EXCEPT ![Len(d.table)].src = p]
<1> DEFINE e == ReadField(d, 0)
           f == ReadField(e, n)
           r == ReadField(f, m)
           p == [line |-> d.sline + n, col |-> d.scol + m]
           t == [d.table EXCEPT ![Len(d.table)].src = p]
           sl == d.sline + n
           sc == d.scol + m
<1>1. e = [d EXCEPT !.field = 2]
  BY FieldCases DEF ReadFile
<1>2. /\ e \in Reader /\ e.field = 2 /\ e.line = d.line /\ e.col = d.col
      /\ e.sline = d.sline /\ e.scol = d.scol /\ e.bad = d.bad /\ e.table = d.table
  BY <1>1, FieldNumbers DEF Reader
<1> HIDE DEF e
<1>3. f = [e EXCEPT !.field = 3, !.sline = sl]
  <2>1. f = ReadSrcLine(e, n)
    BY <1>2, FieldCases
  <2> QED
    BY <1>2, <2>1 DEF ReadSrcLine
<1>4. sl \in Int /\ sc \in Int
  BY ReaderFields
<1> HIDE DEF sl
<1>5. f \in Reader /\ f.field = 3
  BY <1>2, <1>3, <1>4, FieldNumbers DEF Reader
<1>6. /\ f.line = e.line /\ f.col = e.col
      /\ f.sline = sl /\ f.scol = e.scol /\ f.bad = e.bad /\ f.table = e.table
  BY <1>2, <1>3, <1>4, FieldNumbers DEF Reader
<1> HIDE DEF f
<1>7. p = [line |-> f.sline, col |-> f.scol + m]
  BY <1>6, <1>2 DEF sl
<1>8. r = [f EXCEPT !.field = 4, !.scol = f.scol + m,
                    !.table[Len(f.table)].src = p]
  <2>1. r = [f EXCEPT !.field = 4, !.scol = f.scol + m,
                      !.table[Len(f.table)].src = [line |-> f.sline, col |-> f.scol + m]]
    BY <1>5, FieldCases DEF ReadSrcCol
  <2> HIDE DEF p
  <2> QED
    BY <1>7, <2>1
<1>9. t \in Seq(Entry)
  BY ReaderFields, LastEntry
<1>10. r = [f EXCEPT !.field = 4, !.scol = sc, !.table = t]
  BY <1>8, <1>6, <1>2
<1> HIDE DEF t, sc, r
<1>11. r \in Reader /\ r.field = 4
  BY <1>10, <1>9, <1>5, <1>4, FieldNumbers DEF Reader
<1>12. /\ r.line = f.line /\ r.col = f.col
       /\ r.sline = f.sline /\ r.scol = sc /\ r.bad = f.bad /\ r.table = t
  BY <1>10, <1>9, <1>5, <1>4, FieldNumbers DEF Reader
<1> QED
  BY <1>11, <1>12, <1>6, <1>2 DEF t, sc, r, sl, f, e

(* The fifth field, the name. *)
LEMMA NameEffect ==
  ASSUME NEW d \in Reader, d.field = 4, d.table # <<>>, NEW n \in Int
  PROVE  LET r == ReadField(d, n)
         IN /\ r \in Reader /\ r.field = 5 /\ r.line = d.line /\ r.col = d.col
            /\ r.sline = d.sline /\ r.scol = d.scol /\ r.bad = d.bad
            /\ r.table = [d.table EXCEPT ![Len(d.table)].name = d.sname + n]
<1> DEFINE k == d.sname + n
           t == [d.table EXCEPT ![Len(d.table)].name = k]
           r == ReadField(d, n)
<1>1. r = [d EXCEPT !.field = 5, !.sname = k, !.table = t]
  <2>1. r = ReadName(d, n)
    BY FieldCases
  <2>2. ReadName(d, n) = [d EXCEPT !.field = 5, !.sname = k, !.table = t]
    BY DEF ReadName
  <2> HIDE DEF r, k, t
  <2> QED
    BY <2>1, <2>2
<1>2. k \in Int
  BY ReaderFields
<1> HIDE DEF k
<1>5. t \in Seq(Entry)
  BY <1>2, ReaderFields, LastEntry
<1> HIDE DEF t, r
<1>3. r \in Reader
  BY <1>1, <1>2, <1>5, FieldNumbers DEF Reader
<1>4. /\ r.field = 5 /\ r.line = d.line /\ r.col = d.col
      /\ r.sline = d.sline /\ r.scol = d.scol /\ r.bad = d.bad /\ r.table = t
  BY <1>1, <1>2, <1>5, FieldNumbers DEF Reader
<1> QED
  BY <1>3, <1>4 DEF t, r, k

(* Writing a token: the reader reads it, the rest stays. *)
LEMMA WriteEffect ==
  ASSUME NEW c \in Context, NEW tok \in Token, Read(c.dec, tok) \in Reader
  PROVE  LET w == Write(c, tok)
         IN /\ w \in Context /\ w.names = c.names /\ w.lp_src = c.lp_src
            /\ w.lp_dst = c.lp_dst /\ w.dec = Read(c.dec, tok)
            /\ w.mappings = Append(c.mappings, tok) /\ w.mappings # <<>>
<1> DEFINE m == Append(c.mappings, tok)
           d == Read(c.dec, tok)
           w == Write(c, tok)
<1>1. w = [c EXCEPT !.mappings = m, !.dec = d]
  BY DEF Write
<1>2. m \in Seq(Token) /\ m # <<>>
  <2>1. c.mappings \in Seq(Token)
    BY DEF Context
  <2> QED
    BY <2>1
<1> HIDE DEF m, d, w
<1>3. w \in Context /\ w.mappings = m /\ w.dec = d
  BY <1>1, <1>2 DEF Context, d
<1>4. w.names = c.names /\ w.lp_src = c.lp_src /\ w.lp_dst = c.lp_dst
  BY <1>1, <1>2 DEF Context
<1> QED
  BY <1>2, <1>3, <1>4 DEF m, d, w

----------------------------------------------------------------------------
(* ReaderInStep, of any context. *)
InStep(c) ==
  /\ c.dec.bad = 0 /\ c.dec.field \in {0, 1, 4, 5}
  /\ c.lp_dst = [line |-> c.dec.line, col |-> c.dec.col]
  /\ c.lp_src = [line |-> c.dec.sline, col |-> c.dec.scol]

(* As long as nothing has been written, the reader is at its first field. *)
Begun(c) == c.mappings = <<>> => c.dec.field = 0

(* Position p is not behind position o of the output. *)
NotBehind(p, o) == p.line < o.line \/ (p.line = o.line /\ p.col <= o.col)

LEMMA ContextFields ==
  ASSUME NEW c \in Context
  PROVE  /\ c.names \in Seq(NameSet) /\ c.mappings \in Seq(Token) /\ c.lp_src \in Pos
         /\ c.lp_dst \in Pos /\ c.dec \in Reader
BY DEF Context

LEMMA PosFields ==
  ASSUME NEW p \in Pos
  PROVE  p.line \in Nat /\ p.col \in Nat /\ p = [line |-> p.line, col |-> p.col]
BY DEF Pos

(***************************************************************************)
(* After the separators the reader is at the first field of a segment, in  *)
(* the line of o, and what it still lacks to the column of o is what       *)
(* PosTrackerExtern::update computes.                                      *)
(***************************************************************************)
LEMMA SeparatorEffect ==
  ASSUME NEW c \in Context, InStep(c), Begun(c), NEW o \in Pos, NotBehind(c.lp_dst, o)
  PROVE  LET n   == OffsetLine(c.lp_dst, o)
             sep == IF n > 0 THEN Write(c, Lines(n))
                    ELSE IF c.mappings # <<>> THEN Write(c, Comma) ELSE c
         IN /\ sep \in Context /\ sep.names = c.names /\ sep.lp_src = c.lp_src
            /\ sep.lp_dst = c.lp_dst /\ sep.dec.field = 0 /\ sep.dec.line = o.line
            /\ sep.dec.col + OffsetCol(c.lp_dst, o) = o.col
            /\ sep.dec.sline = c.dec.sline /\ sep.dec.scol = c.dec.scol
            /\ sep.dec.bad = 0 /\ sep.dec.table = c.dec.table
<1> DEFINE n   == OffsetLine(c.lp_dst, o)
           sep == IF n > 0 THEN Write(c, Lines(n))
                  ELSE IF c.mappings # <<>> THEN Write(c, Comma) ELSE c
           e   == EndSegment(c.dec)
<1>1. /\ c.dec \in Reader /\ c.dec.line \in Nat /\ c.dec.col \in Nat
      /\ c.lp_dst.line = c.dec.line /\ c.lp_dst.col = c.dec.col
      /\ o.line \in Nat /\ o.col \in Nat
      /\ c.dec.field \in {0, 1, 4, 5} /\ c.dec.bad = 0
  BY ContextFields, ReaderFields, PosFields DEF InStep
<1>2. /\ e \in Reader /\ e.field = 0 /\ e.line = c.dec.line /\ e.col = c.dec.col
      /\ e.sline = c.dec.sline /\ e.scol = c.dec.scol /\ e.bad = c.dec.bad
      /\ e.table = c.dec.table
  BY <1>1, EndSegmentEffect
<1>3. n \in Nat /\ n = o.line - c.dec.line
  BY <1>1 DEF OffsetLine, NotBehind
<1> HIDE DEF n, e
<1>4. CASE n > 0
  <2> DEFINE l == c.dec.line + n
             r == [e EXCEPT !.line = l, !.col = 0]
  <2>1. Lines(n) \in Token /\ Read(c.dec, Lines(n)) = r
    BY <1>3 DEF Lines, Token, Read, e
  <2>2. l \in Nat /\ l = o.line
    BY <1>1, <1>3
  <2> HIDE DEF l
  <2>3. r \in Reader /\ r.field = 0 /\ r.line = l /\ r.col = 0 /\ r.table = e.table
        /\ r.sline = e.sline /\ r.scol = e.scol /\ r.bad = e.bad
    BY <1>2, <2>2 DEF Reader
  <2> HIDE DEF r
  <2>4. /\ sep \in Context /\ sep.names = c.names /\ sep.lp_src = c.lp_src
        /\ sep.lp_dst = c.lp_dst /\ sep.dec = r
    BY <1>4, <2>1, <2>3, WriteEffect
  <2>5. OffsetCol(c.lp_dst, o) = o.col
    BY <1>1, <1>3, <1>4 DEF OffsetCol
  <2> QED
    BY <1>1, <1>2, <2>2, <2>3, <2>4, <2>5 DEF n
<1>5. CASE n = 0 /\ c.mappings # <<>>
  <2>1. Comma \in Token /\ Read(c.dec, Comma) = e
    BY DEF Comma, Token, Read, e
  <2>2. /\ sep \in Context /\ sep.names = c.names /\ sep.lp_src = c.lp_src
        /\ sep.lp_dst = c.lp_dst /\ sep.dec = e
    BY <1>5, <2>1, <1>2, WriteEffect
  <2>3. OffsetCol(c.lp_dst, o) = o.col - c.dec.col /\ o.line = c.dec.line
    BY <1>1, <1>3, <1>5 DEF OffsetCol
  <2> QED
    BY <1>1, <1>2, <2>2, <2>3 DEF n
<1>6. CASE n = 0 /\ c.mappings = <<>>
  <2>1. OffsetCol(c.lp_dst, o) = o.col - c.dec.col /\ o.line = c.dec.line
    BY <1>1, <1>3, <1>6 DEF OffsetCol
  <2>2. sep = c /\ c.dec.field = 0
    BY <1>6 DEF Begun
  <2> QED
    BY <1>1, <2>1, <2>2 DEF n
<1> QED
  BY <1>3, <1>4, <1>5, <1>6

(* The entry of a segment with one field. *)
Plainly(o) == [dst |-> o, src |-> Unmapped, name |-> -1]

(* The position in the output arrives at the reader. *)
LEMMA WriteDstEffect ==
  ASSUME NEW c \in Context, InStep(c), Begun(c), NEW o \in Pos, NotBehind(c.lp_dst, o)
  PROVE  LET w == WriteDst(c, o)
         IN /\ w \in Context /\ w.names = c.names /\ w.lp_src = c.lp_src
            /\ w.mappings # <<>> /\ w.dec.field = 1
            /\ w.dec.line = o.line /\ w.dec.col = o.col
            /\ w.dec.sline = c.dec.sline /\ w.dec.scol = c.dec.scol /\ w.dec.bad = 0
            /\ Plainly(o) \in Entry /\ w.dec.table = Append(c.dec.table, Plainly(o))
<1> DEFINE n   == OffsetLine(c.lp_dst, o)
           sep == IF n > 0 THEN Write(c, Lines(n))
                  ELSE IF c.mappings # <<>> THEN Write(c, Comma) ELSE c
           m   == OffsetCol(c.lp_dst, o)
           w   == WriteDst(c, o)
           r   == ReadField(sep.dec, m)
<1>1. /\ sep \in Context /\ sep.names = c.names /\ sep.lp_src = c.lp_src
      /\ sep.lp_dst = c.lp_dst /\ sep.dec.field = 0 /\ sep.dec.line = o.line
      /\ sep.dec.col + m = o.col
      /\ sep.dec.sline = c.dec.sline /\ sep.dec.scol = c.dec.scol
      /\ sep.dec.bad = 0 /\ sep.dec.table = c.dec.table
  BY SeparatorEffect
<1>2. w = Write(sep, Vlq(m))
  BY DEF WriteDst
<1> HIDE DEF sep, w
<1>3. m \in Int /\ o.col \in Nat /\ sep.dec \in Reader
  BY <1>1, ContextFields, PosFields DEF OffsetCol
<1> HIDE DEF m
<1>4. /\ r \in Reader /\ r.field = 1 /\ r.line = o.line /\ r.col = o.col
      /\ r.sline = c.dec.sline /\ r.scol = c.dec.scol /\ r.bad = 0
      /\ r.table = Append(c.dec.table, Segment(sep.dec, m))
      /\ Segment(sep.dec, m) \in Entry
  <2>1. sep.dec.col + m \in Nat /\ sep.dec.field = 0
    BY <1>1, <1>3
  <2>2. /\ r \in Reader /\ r.field = 1 /\ r.line = sep.dec.line
        /\ r.col = sep.dec.col + m /\ r.sline = sep.dec.sline
        /\ r.scol = sep.dec.scol /\ r.bad = sep.dec.bad
        /\ r.table = Append(sep.dec.table, Segment(sep.dec, m))
        /\ Segment(sep.dec, m) \in Entry
    BY ONLY <1>3, <2>1, ColEffect
  <2> HIDE DEF r
  <2> QED
    BY <1>1, <2>2
<1>5. Segment(sep.dec, m) = Plainly(o)
  BY <1>1, PosFields DEF Segment, Plainly
<1>6. Vlq(m) \in Token /\ Read(sep.dec, Vlq(m)) = r
  BY <1>3 DEF Vlq, Token, Read
<1> HIDE DEF r
<1>7. /\ w \in Context /\ w.names = c.names /\ w.lp_src = c.lp_src
      /\ w.mappings # <<>> /\ w.dec = r
  BY <1>1, <1>2, <1>4, <1>6, WriteEffect
<1> QED
  BY <1>4, <1>5, <1>7 DEF w

(* The position in the input arrives at the reader. *)
LEMMA WriteSrcEffect ==
  ASSUME NEW c \in Context, c.mappings # <<>>, c.dec.field = 1, c.dec.table # <<>>,
         c.lp_src = [line |-> c.dec.sline, col |-> c.dec.scol],
         NEW src \in Pos, src # c.lp_src
  PROVE  LET w == WriteSrc(c, src)
         IN /\ w \in Context /\ w.names = c.names /\ w.mappings # <<>>
            /\ w.dec.field = 4 /\ w.dec.line = c.dec.line /\ w.dec.col = c.dec.col
            /\ w.dec.sline = src.line /\ w.dec.scol = src.col /\ w.dec.bad = c.dec.bad
            /\ w.dec.table = [c.dec.table EXCEPT ![Len(c.dec.table)].src = src]
<1> DEFINE d == c.dec
           n == src.line - c.lp_src.line
           m == src.col - c.lp_src.col
           p == [line |-> d.sline + n, col |-> d.scol + m]
           r1 == ReadField(d, 0)
           r2 == ReadField(r1, n)
           r3 == ReadField(r2, m)
           w1 == Write(c, Vlq(0))
           w2 == Write(w1, Vlq(n))
           w3 == Write(w2, Vlq(m))
<1>1. /\ d \in Reader /\ d.sline \in Int /\ d.scol \in Int /\ src.line \in Nat
      /\ src.col \in Nat /\ c.lp_src.line = d.sline /\ c.lp_src.col = d.scol
  BY ContextFields, ReaderFields, PosFields
<1>2. n \in Int /\ m \in Int /\ d.sline + n = src.line /\ d.scol + m = src.col /\ p = src
  BY <1>1, PosFields
<1>3. WriteSrc(c, src) = w3
  BY DEF WriteSrc
<1>4. /\ Vlq(0) \in Token /\ Vlq(n) \in Token /\ Vlq(m) \in Token
      /\ Read(d, Vlq(0)) = r1 /\ Read(r1, Vlq(n)) = r2 /\ Read(r2, Vlq(m)) = r3
  BY <1>2 DEF Vlq, Token, Read
<1> HIDE DEF n, m, r1, r2, r3, p
<1>5. r1 \in Reader /\ r2 \in Reader
  <2>1. r1 = [d EXCEPT !.field = 2]
    BY FieldCases DEF ReadFile, r1
  <2>2. r1 \in Reader /\ r1.field = 2 /\ r1.sline = d.sline
    BY <1>1, <2>1, FieldNumbers DEF Reader
  <2>3. r2 = [r1 EXCEPT !.field = 3, !.sline = r1.sline + n]
    BY <2>2, FieldCases DEF ReadSrcLine, r2
  <2>4. r1.sline + n \in Int
    BY <1>1, <1>2, <2>2
  <2> QED
    BY <2>2, <2>3, <2>4, FieldNumbers DEF Reader
<1>6. /\ r3 \in Reader /\ r3.field = 4 /\ r3.line = d.line /\ r3.col = d.col
      /\ r3.sline = d.sline + n /\ r3.scol = d.scol + m /\ r3.bad = d.bad
      /\ r3.table = [d.table EXCEPT ![Len(d.table)].src = p]
  BY <1>1, <1>2, SourceEffect DEF r3, r2, r1, p
<1>7. w1 \in Context /\ w1.names = c.names /\ w1.dec = r1
  BY <1>4, <1>5, WriteEffect
<1> HIDE DEF w1
<1>8. w2 \in Context /\ w2.names = c.names /\ w2.dec = r2
  BY <1>4, <1>5, <1>7, WriteEffect
<1> HIDE DEF w2
<1>9. w3 \in Context /\ w3.names = c.names /\ w3.dec = r3 /\ w3.mappings # <<>>
  BY <1>4, <1>6, <1>8, WriteEffect
<1> QED
  BY <1>2, <1>3, <1>6, <1>9

(* What snapshot_pos adds to the table that is read. *)
NewEntry(c, o, src) ==
  [dst |-> o, src |-> IF src = c.lp_src THEN Unmapped ELSE src, name |-> -1]

Same(c, o, src) == o = c.lp_dst /\ src = c.lp_src

(* The last element of a sequence that was just extended. *)
LEMMA AppendLast ==
  ASSUME NEW S, NEW s \in Seq(S), NEW x \in S
  PROVE  LET a == Append(s, x)
         IN /\ a \in Seq(S) /\ a # <<>> /\ Len(a) = Len(s) + 1 /\ a[Len(a)] = x
            /\ \A j \in 1 .. Len(s) : a[j] = s[j]
OBVIOUS

LEMMA ReplaceLast ==
  ASSUME NEW S, NEW s \in Seq(S), NEW x \in S, NEW y \in S
  PROVE  [Append(s, x) EXCEPT ![Len(Append(s, x))] = y] = Append(s, y)
<1> DEFINE a == Append(s, x)
           b == Append(s, y)
           L == Len(s) + 1
           r == [a EXCEPT ![L] = y]
<1>1. a \in Seq(S) /\ Len(a) = L /\ L \in Nat /\ L \in 1 .. L
  OBVIOUS
<1>2. b \in Seq(S) /\ Len(b) = L /\ b[L] = y
  OBVIOUS
<1>3. \A j \in 1 .. Len(s) : a[j] = s[j] /\ b[j] = s[j]
  OBVIOUS
<1>4. r \in Seq(S) /\ Len(r) = L
  BY <1>1, SeqUpdate
<1> HIDE DEF a, b
<1>5. \A j \in 1 .. L : r[j] = b[j]
  BY <1>1, <1>2, <1>3
<1> HIDE DEF r
<1>6. r = b
  BY <1>2, <1>4, <1>5, SeqEqual
<1> QED
  BY <1>1, <1>6 DEF r, a, b

(***************************************************************************)
(* snapshot_pos as a whole: the reader is in step again, at the new pair   *)
(* of positions, and has one entry more, or none if the pair is the same.  *)
(***************************************************************************)
LEMMA snapshot_pos_effect ==
  ASSUME NEW c \in Context, InStep(c), Begun(c), NEW o \in Pos, NotBehind(c.lp_dst, o),
         NEW src \in Pos
  PROVE  LET w == snapshot_pos(c, o, src)
         IN /\ w \in Context /\ InStep(w) /\ Begun(w) /\ w.names = c.names
            /\ w.lp_dst = o /\ w.lp_src = src
            /\ NewEntry(c, o, src) \in Entry
            /\ w.dec.table = IF Same(c, o, src) THEN c.dec.table
                             ELSE Append(c.dec.table, NewEntry(c, o, src))
            /\ src # c.lp_src => w.dec.field = 4
<1> DEFINE w == snapshot_pos(c, o, src)
           x == WriteDst(c, o)
           y == WriteSrc(x, src)
           t == c.dec.table
<1>0. NewEntry(c, o, src) \in Entry
  BY DEF NewEntry, Entry
<1>1. CASE Same(c, o, src)
  BY <1>0, <1>1 DEF Same, snapshot_pos
<1>2. CASE ~Same(c, o, src)
  <2>1. /\ x \in Context /\ x.names = c.names /\ x.lp_src = c.lp_src
        /\ x.mappings # <<>> /\ x.dec.field = 1
        /\ x.dec.line = o.line /\ x.dec.col = o.col
        /\ x.dec.sline = c.dec.sline /\ x.dec.scol = c.dec.scol /\ x.dec.bad = 0
        /\ Plainly(o) \in Entry /\ x.dec.table = Append(t, Plainly(o))
    BY WriteDstEffect
  <2>2. w = [y EXCEPT !.lp_src = src, !.lp_dst = o]
    BY <1>2 DEF snapshot_pos, Same
  <2> HIDE DEF x, w
  <2>3. t \in Seq(Entry) /\ c.dec \in Reader
    BY ContextFields, ReaderFields
  <2>4. /\ y \in Context /\ y.names = c.names /\ y.mappings # <<>>
        /\ y.dec.field = (IF src = c.lp_src THEN 1 ELSE 4)
        /\ y.dec.line = o.line /\ y.dec.col = o.col
        /\ y.dec.sline = src.line /\ y.dec.scol = src.col /\ y.dec.bad = 0
        /\ y.dec.table = Append(t, NewEntry(c, o, src))
    <3>1. CASE src = c.lp_src
      <4>1. y = x /\ NewEntry(c, o, src) = Plainly(o)
        BY <2>1, <3>1 DEF WriteSrc, NewEntry, Plainly
      <4>2. src.line = c.dec.sline /\ src.col = c.dec.scol
        BY <3>1 DEF InStep
      <4> QED
        BY <2>1, <3>1, <4>1, <4>2
    <3>2. CASE src # c.lp_src
      <4> DEFINE a == Append(t, Plainly(o))
      <4>0. a # <<>> /\ a[Len(a)] = Plainly(o)
        BY <2>1, <2>3, AppendLast
      <4>1. [a EXCEPT ![Len(a)] = NewEntry(c, o, src)] = Append(t, NewEntry(c, o, src))
        <5> DEFINE e == NewEntry(c, o, src)
                   f == Plainly(o)
        <5>1. e \in Entry /\ f \in Entry
          BY <1>0, <2>1
        <5> HIDE DEF e, f, t
        <5>2. [Append(t, f) EXCEPT ![Len(Append(t, f))] = e] = Append(t, e)
          BY <2>3, <5>1, ReplaceLast
        <5> QED
          BY <5>2 DEF e, f
      <4>2. [Plainly(o) EXCEPT !.src = src] = NewEntry(c, o, src)
        BY <3>2 DEF Plainly, NewEntry
      <4> HIDE DEF a
      <4>3. [a EXCEPT ![Len(a)].src = src] = Append(t, NewEntry(c, o, src))
        BY <4>0, <4>1, <4>2
      <4>4. x.lp_src = [line |-> x.dec.sline, col |-> x.dec.scol]
        BY <2>1 DEF InStep
      <4>5. /\ y \in Context /\ y.names = x.names /\ y.mappings # <<>>
            /\ y.dec.field = 4 /\ y.dec.line = x.dec.line /\ y.dec.col = x.dec.col
            /\ y.dec.sline = src.line /\ y.dec.scol = src.col /\ y.dec.bad = x.dec.bad
            /\ y.dec.table = [a EXCEPT ![Len(a)].src = src]
        <5>1. x.dec.table = a /\ x.dec.table # <<>>
          BY <2>1, <4>0 DEF a
        <5>2. src # x.lp_src
          BY <2>1, <3>2
        <5> QED
          BY <2>1, <4>4, <5>1, <5>2, WriteSrcEffect
      <4> QED
        BY <2>1, <3>2, <4>3, <4>5
    <3> QED
      BY <3>1, <3>2
  <2> HIDE DEF y
  <2>5. /\ w \in Context /\ w.names = y.names /\ w.mappings = y.mappings
        /\ w.lp_src = src /\ w.lp_dst = o /\ w.dec = y.dec
    BY <2>2, <2>4 DEF Context
  <2>6. InStep(w) /\ Begun(w)
    BY <2>4, <2>5, PosFields DEF InStep, Begun
  <2> QED
    BY <1>0, <1>2, <2>4, <2>5, <2>6 DEF w
<1> QED
  BY <1>1, <1>2

----------------------------------------------------------------------------
(* The list of names after name has been looked up. *)
WithName(c, name) == IF Known(c, name) THEN c.names ELSE Append(c.names, name)

(* The index is a number, and the list stays a list of names. *)
LEMMA index_effect ==
  ASSUME NEW c \in Context, NEW name \in NameSet
  PROVE  WithName(c, name) \in Seq(NameSet) /\ index(c, name) \in Nat
<1>1. c.names \in Seq(NameSet)
  BY ContextFields
<1>2. CASE Known(c, name)
  <2> DEFINE j == CHOOSE j \in DOMAIN c.names : c.names[j] = name
  <2>1. j \in DOMAIN c.names /\ c.names[j] = name
    BY <1>2 DEF Known
  <2>2. index(c, name) = j - 1 /\ WithName(c, name) = c.names
    BY <1>2 DEF index, WithName
  <2> HIDE DEF j
  <2> QED
    BY <1>1, <2>1, <2>2
<1>3. CASE ~Known(c, name)
  BY <1>1, <1>3 DEF index, WithName
<1> QED
  BY <1>2, <1>3

(* The name field, after a segment with a position in the input. *)
LEMMA AddNameEffect ==
  ASSUME NEW c \in Context, InStep(c), c.dec.field = 4, c.dec.table # <<>>,
         NEW name \in NameSet
  PROVE  LET w == AddName(c, name)
         IN /\ w \in Context /\ InStep(w) /\ Begun(w)
            /\ w.names = WithName(c, name) /\ w.lp_dst = c.lp_dst /\ w.lp_src = c.lp_src
            /\ w.dec.table =
                 [c.dec.table EXCEPT ![Len(c.dec.table)].name = c.dec.sname + index(c, name)]
<1> DEFINE k  == index(c, name)
           ns == WithName(c, name)
           x  == Write(c, Vlq(k))
           r  == ReadField(c.dec, k)
           w  == AddName(c, name)
<1>1. k \in Nat /\ k \in Int /\ ns \in Seq(NameSet)
  BY index_effect
<1>2. w = [x EXCEPT !.names = ns]
  BY DEF AddName, WithName
<1> HIDE DEF k, ns
<1>3. /\ r \in Reader /\ r.field = 5 /\ r.line = c.dec.line /\ r.col = c.dec.col
      /\ r.sline = c.dec.sline /\ r.scol = c.dec.scol /\ r.bad = c.dec.bad
      /\ r.table = [c.dec.table EXCEPT ![Len(c.dec.table)].name = c.dec.sname + k]
  BY <1>1, ContextFields, NameEffect
<1>4. Vlq(k) \in Token /\ Read(c.dec, Vlq(k)) = r
  BY <1>1 DEF Vlq, Token, Read
<1> HIDE DEF r, w
<1>5. /\ x \in Context /\ x.lp_src = c.lp_src /\ x.lp_dst = c.lp_dst
      /\ x.dec = r /\ x.mappings # <<>>
  BY <1>3, <1>4, WriteEffect
<1> HIDE DEF x
<1>6. /\ w \in Context /\ w.names = ns /\ w.lp_src = c.lp_src /\ w.lp_dst = c.lp_dst
      /\ w.dec = r /\ w.mappings # <<>>
  BY <1>1, <1>2, <1>5 DEF Context
<1>7. InStep(w) /\ Begun(w)
  BY <1>3, <1>6 DEF InStep, Begun
<1> QED
  BY <1>3, <1>6, <1>7 DEF w, k, ns

----------------------------------------------------------------------------
(* The positions of a table, without the names. *)
PlainOf(t) == [j \in DOMAIN t |-> [dst |-> t[j].dst, src |-> t[j].src]]

(* Leaving out the names commutes with adding an entry. *)
LEMMA PlainOfAppend ==
  ASSUME NEW t \in Seq(Entry), NEW e \in Entry
  PROVE  /\ PlainOf(t) \in Seq([dst : Pos, src : Pos \cup {Unmapped}])
         /\ PlainOf(Append(t, e)) = Append(PlainOf(t), [dst |-> e.dst, src |-> e.src])
<1> DEFINE P == [dst : Pos, src : Pos \cup {Unmapped}]
           x == [dst |-> e.dst, src |-> e.src]
           a == Append(t, e)
<1>1. \A f \in Entry : [dst |-> f.dst, src |-> f.src] \in P
  BY DEF Entry
<1>2. /\ a \in Seq(Entry) /\ Len(a) = Len(t) + 1 /\ a[Len(t) + 1] = e
      /\ \A j \in 1 .. Len(t) : a[j] = t[j]
  OBVIOUS
<1>3. \A s \in Seq(Entry) : PlainOf(s) \in Seq(P) /\ Len(PlainOf(s)) = Len(s)
  <2> SUFFICES ASSUME NEW s \in Seq(Entry)
               PROVE  PlainOf(s) \in Seq(P) /\ Len(PlainOf(s)) = Len(s)
    OBVIOUS
  <2>1. DOMAIN s = 1 .. Len(s) /\ Len(s) \in Nat
    OBVIOUS
  <2>2. \A j \in 1 .. Len(s) : [dst |-> s[j].dst, src |-> s[j].src] \in P
    BY <1>1
  <2> HIDE DEF P
  <2> QED
    BY <2>1, <2>2 DEF PlainOf
<1>4. x \in P
  BY <1>1
<1> HIDE DEF P, x, a
<1>5. Append(PlainOf(t), x) \in Seq(P) /\ Len(Append(PlainOf(t), x)) = Len(t) + 1
  BY <1>3, <1>4
<1>6. \A j \in 1 .. Len(t) + 1 : PlainOf(a)[j] = Append(PlainOf(t), x)[j]
  <2> SUFFICES ASSUME NEW j \in 1 .. Len(t) + 1
               PROVE  PlainOf(a)[j] = Append(PlainOf(t), x)[j]
    OBVIOUS
  <2>1. PlainOf(a)[j] = [dst |-> a[j].dst, src |-> a[j].src]
    BY <1>2 DEF PlainOf
  <2>2. CASE j = Len(t) + 1
    <3>1. Append(PlainOf(t), x)[j] = x
      BY <1>3, <1>4, <2>2
    <3> QED
      BY <1>2, <2>1, <2>2, <3>1 DEF x
  <2>3. CASE j \in 1 .. Len(t)
    <3>1. Append(PlainOf(t), x)[j] = PlainOf(t)[j]
      BY <1>3, <1>4, <2>3
    <3>2. PlainOf(t)[j] = [dst |-> t[j].dst, src |-> t[j].src]
      BY <2>3 DEF PlainOf
    <3> QED
      BY <1>2, <2>1, <2>3, <3>1, <3>2
  <2>4. j = Len(t) + 1 \/ j \in 1 .. Len(t)
    OBVIOUS
  <2> QED
    BY <2>2, <2>3, <2>4
<1>7. PlainOf(a) \in Seq(P) /\ Len(PlainOf(a)) = Len(t) + 1
  BY <1>2, <1>3
<1>8. PlainOf(a) = Append(PlainOf(t), x)
  BY <1>5, <1>6, <1>7, SeqEqual
<1> QED
  BY <1>3, <1>8 DEF P, x, a

----------------------------------------------------------------------------
(* What every call keeps. *)
Sane(c) == c \in Context /\ InStep(c) /\ Begun(c)

(* The inductive invariant: the output never goes back behind lp_dst. *)
Inv ==
  /\ out \in Pos /\ Sane(ctx) /\ NotBehind(ctx.lp_dst, out)

LEMMA SnapshotSane ==
  ASSUME NEW c, Sane(c), NEW o \in Pos, NotBehind(c.lp_dst, o), NEW src \in Pos
  PROVE  /\ Sane(snapshot_pos(c, o, src))
         /\ snapshot_pos(c, o, src).lp_dst = o /\ snapshot_pos(c, o, src).lp_src = src
BY snapshot_pos_effect DEF Sane

(* The end of an identifier: a segment with its position and its name. *)
LEMMA EndOfIdent ==
  ASSUME NEW c, Sane(c), NEW o \in Pos, NotBehind(c.lp_dst, o), NEW i \in Idents,
         i.to # c.lp_src
  PROVE  LET w == AddName(snapshot_pos(c, o, i.to), i.name)
         IN /\ Sane(w) /\ w.lp_dst = o /\ w.lp_src = i.to
            /\ \E e \in Entry : /\ e.dst = o /\ e.src = i.to
                               /\ w.dec.table = Append(c.dec.table, e)
<1> DEFINE x == snapshot_pos(c, o, i.to)
           k == x.dec.sname + index(x, i.name)
           w == AddName(x, i.name)
           e == [dst |-> o, src |-> i.to, name |-> k]
           n == NewEntry(c, o, i.to)
           t == c.dec.table
<1>1. i.to \in Pos /\ i.name \in NameSet
  BY SourceMapAssumption DEF NameSet
<1>2. /\ Sane(x) /\ x.names = c.names /\ x.lp_dst = o /\ x.lp_src = i.to
      /\ n \in Entry /\ x.dec.table = Append(t, n) /\ x.dec.field = 4
  <2>1. c \in Context /\ InStep(c) /\ Begun(c)
    BY DEF Sane
  <2>2. ~Same(c, o, i.to)
    BY DEF Same
  <2>3. /\ x \in Context /\ InStep(x) /\ Begun(x) /\ x.names = c.names
        /\ x.lp_dst = o /\ x.lp_src = i.to /\ n \in Entry
        /\ x.dec.table = Append(t, n) /\ x.dec.field = 4
    <3> DEFINE src == i.to
    <3>1. src \in Pos
      BY <1>1
    <3> HIDE DEF src
    <3>2. LET w1 == snapshot_pos(c, o, src)
          IN /\ w1 \in Context /\ InStep(w1) /\ Begun(w1) /\ w1.names = c.names
             /\ w1.lp_dst = o /\ w1.lp_src = src
             /\ NewEntry(c, o, src) \in Entry
             /\ w1.dec.table = IF Same(c, o, src) THEN c.dec.table
                             ELSE Append(c.dec.table, NewEntry(c, o, src))
             /\ src # c.lp_src => w1.dec.field = 4
      BY <2>1, <3>1, snapshot_pos_effect
    <3> QED
      BY <2>2, <3>2 DEF src
  <2> QED
    BY <2>3 DEF Sane
<1>3. t \in Seq(Entry)
  BY ContextFields, ReaderFields DEF Sane
<1> HIDE DEF x
<1>5. x.dec.table # <<>>
  BY <1>2, <1>3, AppendLast
<1>6. /\ w \in Context /\ InStep(w) /\ Begun(w) /\ w.lp_dst = o /\ w.lp_src = i.to
      /\ w.dec.table = [x.dec.table EXCEPT ![Len(x.dec.table)].name = k]
  BY <1>1, <1>2, <1>5, AddNameEffect DEF Sane
<1>7. k \in Int
  <2>1. x.dec.sname \in Int
    BY <1>2, ContextFields, ReaderFields DEF Sane
  <2>2. index(x, i.name) \in Nat
    BY <1>1, <1>2, index_effect DEF Sane
  <2> QED
    BY <2>1, <2>2
<1>8. e \in Entry
  BY <1>1, <1>7 DEF Entry
<1>9. w.dec.table = Append(t, e)
  <2>1. [n EXCEPT !.name = k] = e
    BY DEF NewEntry
  <2> HIDE DEF n, e, t, k
  <2>2. Append(t, n)[Len(Append(t, n))] = n
    BY <1>2, <1>3, AppendLast
  <2>3. [Append(t, n) EXCEPT ![Len(Append(t, n))] = e] = Append(t, e)
    BY <1>2, <1>3, <1>8, ReplaceLast
  <2> QED
    BY <1>2, <1>6, <2>1, <2>2, <2>3
<1>10. e.dst = o /\ e.src = i.to
  OBVIOUS
<1> HIDE DEF w, e
<1> QED
  BY <1>6, <1>8, <1>9, <1>10 DEF Sane, w, x

(* Pushing text never takes the output back behind a recorded position. *)
LEMMA MovedAhead ==
  ASSUME NEW p \in Pos, NEW o \in Pos, NotBehind(p, o), NEW c \in Chunks
  PROVE  Moved(o, c) \in Pos /\ NotBehind(p, Moved(o, c))
<1>1. c.lines \in Nat /\ c.cols \in Nat
  BY SourceMapAssumption
<1>2. o.line \in Nat /\ o.col \in Nat /\ p.line \in Nat /\ p.col \in Nat
  BY PosFields
<1>3. Moved(o, c) \in Pos
  BY <1>1, <1>2 DEF Moved, Pos
<1>4. /\ Moved(o, c).line = o.line + c.lines
      /\ c.lines = 0 => Moved(o, c).col = o.col + c.cols
  BY DEF Moved
<1>5. NotBehind(p, Moved(o, c))
  BY <1>1, <1>2, <1>4 DEF NotBehind
<1> QED
  BY <1>3, <1>5

(* The invariant holds at first, and every call keeps it. *)
LEMMA InvInit == Init => Inv
<1> SUFFICES ASSUME Init PROVE Inv
  OBVIOUS
<1>1. Origin \in Pos /\ out \in Pos
  BY SourceMapAssumption DEF Init, Origin, Pos
<1>2. Reader0 \in Reader
  BY FieldNumbers DEF Reader0, Reader
<1>3. ctx \in Context
  BY <1>1, <1>2 DEF Init, Context
<1>4. InStep(ctx) /\ Begun(ctx)
  BY DEF Init, InStep, Begun, Reader0, Origin
<1>5. NotBehind(ctx.lp_dst, out)
  BY SourceMapAssumption DEF Init, NotBehind, Origin
<1> QED
  BY <1>1, <1>3, <1>4, <1>5 DEF Inv, Sane

LEMMA InvStep == Inv /\ [Next]_vars => Inv'
<1> SUFFICES ASSUME Inv, [Next]_vars PROVE Inv'
  OBVIOUS
<1>0. out \in Pos /\ Sane(ctx) /\ NotBehind(ctx.lp_dst, out) /\ ctx.lp_dst \in Pos
  BY ContextFields DEF Inv, Sane
<1>1. ASSUME NEW c \in Chunks, push(c) PROVE Inv'
  BY <1>0, <1>1, MovedAhead DEF push, Inv
<1>2. ASSUME NEW src \in SrcPos, Snapshot(src) PROVE Inv'
  <2>1. src \in Pos
    BY SourceMapAssumption
  <2>2. Sane(ctx') /\ ctx'.lp_dst = out /\ out' = out
    BY <1>0, <1>2, <2>1, SnapshotSane DEF Snapshot
  <2> QED
    BY <1>0, <2>2, PosFields DEF Inv, NotBehind
<1>3. ASSUME NEW i \in Idents, NEW c \in Chunks, snapshot_ident(i, c) PROVE Inv'
  <2> DEFINE x == snapshot_pos(ctx, out, i.from)
  <2>1. i.from \in Pos /\ i.to \in Pos /\ i.to # i.from
    BY SourceMapAssumption
  <2>2. Sane(x) /\ x.lp_dst = out /\ x.lp_src = i.from
    BY <1>0, <2>1, SnapshotSane
  <2>3. out' \in Pos /\ NotBehind(out, out')
    <3>1. NotBehind(out, out)
      BY <1>0, PosFields DEF NotBehind
    <3> QED
      BY <1>0, <1>3, <3>1, MovedAhead DEF snapshot_ident
  <2>4. ctx' = AddName(snapshot_pos(x, out', i.to), i.name)
    BY <1>3 DEF snapshot_ident
  <2> HIDE DEF x
  <2>5. Sane(ctx') /\ ctx'.lp_dst = out'
    BY <2>1, <2>2, <2>3, <2>4, EndOfIdent
  <2> QED
    BY <2>3, <2>5, PosFields DEF Inv, NotBehind
<1>4. CASE UNCHANGED vars
  BY <1>4 DEF vars, Inv, Sane, InStep, Begun, NotBehind
<1> QED
  BY <1>1, <1>2, <1>3, <1>4 DEF Next

(* Inv is an invariant of the source map, whatever is recorded and pushed. *)
THEOREM Invariance == Spec => []Inv
<1> QED
  BY InvInit, InvStep, PTL DEF Spec

(* A reader never comes to a negative line or column, for any input. *)
THEOREM TypeCorrect == Spec => []TypeOK
<1>1. Inv => TypeOK
  BY DEF Inv, Sane, TypeOK, Context, Reader, NameSet, Fields
<1> QED
  BY <1>1, Invariance, PTL

(***************************************************************************)
(* After any sequence of calls of snapshot_pos and snapshot_ident, a       *)
(* reader who adds up the relative numbers stands where the writer         *)
(* believes, and every segment had a legal number of fields.               *)
(***************************************************************************)
THEOREM ReaderKeepsStep == Spec => []ReaderInStep
<1>1. Inv => ReaderInStep
  BY DEF Inv, Sane, InStep, ReaderInStep
<1> QED
  BY <1>1, Invariance, PTL

----------------------------------------------------------------------------
(* Both modules speak of the same positions. *)
LEMMA SamePositions ==
  /\ Plain!Origin = Origin /\ Plain!Unmapped = Unmapped
  /\ \A o, c : Plain!Moved(o, c) = Moved(o, c)
BY DEF Origin, Unmapped, Moved, Plain!Origin, Plain!Unmapped, Plain!Moved

(* One call of snapshot_pos records one pair in the plain table. *)
LEMMA RecordedBySnapshot ==
  ASSUME NEW c, Sane(c), NEW o \in Pos, NotBehind(c.lp_dst, o), NEW src \in Pos
  PROVE  PlainOf(snapshot_pos(c, o, src).dec.table) =
           Plain!Recorded(PlainOf(c.dec.table), Plain!Pair(c.lp_dst, c.lp_src), o, src)
<1> DEFINE w == snapshot_pos(c, o, src)
           e == NewEntry(c, o, src)
           t == c.dec.table
<1>1. /\ e \in Entry
      /\ w.dec.table = IF Same(c, o, src) THEN t ELSE Append(t, e)
  BY snapshot_pos_effect DEF Sane
<1>2. t \in Seq(Entry)
  BY ContextFields, ReaderFields DEF Sane
<1> HIDE DEF w, t
<1>3. PlainOf(Append(t, e)) = Append(PlainOf(t), [dst |-> e.dst, src |-> e.src])
  BY <1>1, <1>2, PlainOfAppend
<1>4. e.dst = o /\ e.src = IF src = c.lp_src THEN Unmapped ELSE src
  BY DEF NewEntry
<1> HIDE DEF e
<1> QED
  BY <1>1, <1>3, <1>4, SamePositions DEF w, t, Plain!Recorded, Plain!Pair, Same

(* The refinement mapping, the initial state, and one step for a step. *)
LEMMA PlainIsTable == PlainTable = PlainOf(ctx.dec.table)
BY DEF PlainTable, PlainOf

LEMMA PlainInit == Init => Plain!Init
<1> SUFFICES ASSUME Init PROVE Plain!Init
  OBVIOUS
<1>1. ctx.dec.table = <<>> /\ ctx.lp_dst = Origin /\ ctx.lp_src = Origin
  BY DEF Init, Reader0
<1>2. PlainTable = <<>>
  BY <1>1 DEF PlainTable
<1> QED
  BY <1>1, <1>2, SamePositions DEF Init, Plain!Init, Plain!Pair

LEMMA PlainStep == Inv /\ [Next]_vars => [Plain!Next]_(Plain!pvars)
<1> SUFFICES ASSUME Inv, [Next]_vars PROVE [Plain!Next]_(Plain!pvars)
  OBVIOUS
<1>0. out \in Pos /\ Sane(ctx) /\ NotBehind(ctx.lp_dst, out) /\ ctx.lp_dst \in Pos
  BY ContextFields DEF Inv, Sane
<1>1. ASSUME NEW c \in Chunks, push(c) PROVE Plain!Push(c)
  BY <1>1, SamePositions DEF push, Plain!Push, PlainTable
<1>2. ASSUME NEW src \in SrcPos, Snapshot(src) PROVE Plain!Record(src)
  <2>1. src \in Pos
    BY SourceMapAssumption
  <2>2. ctx' = snapshot_pos(ctx, out, src) /\ out' = out
    BY <1>2 DEF Snapshot
  <2>3. ctx'.lp_dst = out /\ ctx'.lp_src = src
    BY <1>0, <2>1, <2>2, SnapshotSane
  <2>4. PlainOf(ctx'.dec.table) =
          Plain!Recorded(PlainOf(ctx.dec.table), Plain!Pair(ctx.lp_dst, ctx.lp_src), out, src)
    BY <1>0, <2>1, <2>2, RecordedBySnapshot
  <2>5. PlainTable' = PlainOf(ctx'.dec.table)
    BY DEF PlainTable, PlainOf
  <2> QED
    BY <2>2, <2>3, <2>4, <2>5, PlainIsTable DEF Plain!Record, Plain!Pair
<1>3. ASSUME NEW i \in Idents, NEW c \in Chunks, snapshot_ident(i, c)
      PROVE  Plain!RecordIdent(i, c)
  <2> DEFINE x == snapshot_pos(ctx, out, i.from)
             y == snapshot_pos(x, out', i.to)
             t == PlainOf(ctx.dec.table)
             last == Plain!Pair(ctx.lp_dst, ctx.lp_src)
  <2>1. i.from \in Pos /\ i.to \in Pos /\ i.to # i.from
    BY SourceMapAssumption
  <2>2. /\ Sane(x) /\ x.lp_dst = out /\ x.lp_src = i.from
        /\ PlainOf(x.dec.table) = Plain!Recorded(t, last, out, i.from)
    BY <1>0, <2>1, SnapshotSane, RecordedBySnapshot
  <2>3. out' = Moved(out, c) /\ out' \in Pos /\ NotBehind(out, out')
    <3>1. NotBehind(out, out)
      BY <1>0, PosFields DEF NotBehind
    <3> QED
      BY <1>0, <1>3, <3>1, MovedAhead DEF snapshot_ident
  <2>4. ctx' = AddName(y, i.name)
    BY <1>3 DEF snapshot_ident
  <2> HIDE DEF x
  <2>5. /\ ctx'.lp_dst = out' /\ ctx'.lp_src = i.to
        /\ PlainOf(ctx'.dec.table) = Append(PlainOf(x.dec.table), Plain!Pair(out', i.to))
    <3>1. /\ ctx'.lp_dst = out' /\ ctx'.lp_src = i.to
          /\ \E e \in Entry : /\ e.dst = out' /\ e.src = i.to
                             /\ ctx'.dec.table = Append(x.dec.table, e)
      BY <2>1, <2>2, <2>3, <2>4, EndOfIdent
    <3>2. x.dec.table \in Seq(Entry)
      BY <2>2, ContextFields, ReaderFields DEF Sane
    <3> QED
      BY <3>1, <3>2, PlainOfAppend DEF Plain!Pair
  <2>6. Plain!Recorded(PlainOf(x.dec.table), Plain!Pair(out, i.from), out', i.to)
          = Append(PlainOf(x.dec.table), Plain!Pair(out', i.to))
    BY <2>1 DEF Plain!Recorded, Plain!Pair
  <2>7. PlainTable' = PlainOf(ctx'.dec.table)
    BY DEF PlainTable, PlainOf
  <2> QED
    BY <2>2, <2>3, <2>5, <2>6, <2>7, PlainIsTable, SamePositions
       DEF Plain!RecordIdent, Plain!Pair
<1>4. CASE UNCHANGED vars
  BY <1>4 DEF vars, Plain!pvars, PlainTable
<1> QED
  BY <1>1, <1>2, <1>3, <1>4 DEF Next, Plain!Next

(***************************************************************************)
(* The encoder implements the plain table of recorded positions: every     *)
(* call writes what makes a reader record the same pair of positions.      *)
(***************************************************************************)
THEOREM EncodesPlainMap == Spec => IsPlainMap
<1> QED
  BY PlainInit, PlainStep, Invariance, PTL DEF Spec, IsPlainMap, Plain!Spec
=============================================================================
