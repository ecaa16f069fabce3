-------------------------- MODULE TranslateProofs ---------------------------
(***************************************************************************)
(* Proofs about the translator, for every set of programs.  The inductive  *)
(* invariant Inv says of the work stack what each handler relies on when   *)
(* it regains control: the lengths saved by the callers are nested and lie *)
(* between the builtins and the present length of vars, the depths saved   *)
(* by the open `with's are nested and below with_stack, everything that    *)
(* was registered or counted has a call on the stack that will undo it,    *)
(* and a block is always pushed right after the arrow of a PLazy wrapper.  *)
(* UseInv, in the second part, follows each `use' from the template that   *)
(* contains it to the output.  FlowInv, in the third, reads the output and *)
(* the stack together as one walk through nested brackets, in which every  *)
(* token, and every call still to be made, must be allowed where it        *)
(* stands; from the walk over the output of a finished translation follow  *)
(* the properties of its scopes, its awaits and its early reads.           *)
(***************************************************************************)
EXTENDS TranslateProps, SequenceTheorems, WellFoundedInduction, NaturalsInduction, TLAPS

Arrow == Open("lazy", "")
Block == Open("block", "")

(* What a handler may put on the stack when vars has length m. *)
Plain(m) ==
  {x \in Item : x # Block /\ (x.t = "trunc" => x.len = m)
                /\ x.t \notin {"unwith", "keys"}}

KeysItem == [t : {"keys"}, keys : SUBSET NameSet, categ : IdentCateg]

Piece(m) == Plain(m) \cup {Block} \cup KeysItem

Template(T, m) ==
  /\ T \in Seq(Piece(m))
  /\ \A j \in 1 .. Len(T) : T[j] = Block => j > 1 /\ T[j - 1] = Arrow

(* The stack td, with vars of length m, with_stack w and output a. *)
Truncs(td, m) ==
  /\ \A j \in 1 .. Len(td) :
       td[j].t = "trunc" => Len(DFL_VARS) <= td[j].len /\ td[j].len <= m
  /\ \A i, j \in 1 .. Len(td) :
       i < j /\ td[i].t = "trunc" /\ td[j].t = "trunc" => td[j].len <= td[i].len

Withs(td, w) ==
  /\ \A j \in 1 .. Len(td) : td[j].t = "unwith" => td[j].d < w
  /\ \A i, j \in 1 .. Len(td) :
       i < j /\ td[i].t = "unwith" /\ td[j].t = "unwith" => td[j].d < td[i].d

Blocks(td, a) ==
  \A j \in 1 .. Len(td) :
    td[j] = Block => IF j = 1 THEN a # <<>> /\ a[Len(a)] = Arrow
                     ELSE td[j - 1] = Arrow

(***************************************************************************)
(* What the calls on the stack will undo: vars longer than at the start,   *)
(* or about to grow, will be cut to its first length, and every level of   *)
(* with_stack has a call that will count it down.                          *)
(***************************************************************************)
Cuts(x) == x.t = "trunc" /\ x.len = Len(DFL_VARS)

RestoresVars(td, m) ==
  /\ m > Len(DFL_VARS) => \E j \in 1 .. Len(td) : Cuts(td[j])
  /\ \A i \in 1 .. Len(td) :
       td[i].t = "keys" => \E j \in (i + 1) .. Len(td) : Cuts(td[j])

RestoresWith(td, w) ==
  \A e \in 0 .. (w - 1) :
    \E j \in 1 .. Len(td) : td[j].t = "unwith" /\ td[j].d = e

(* An error returns through all callers at once: nothing is restored. *)
Restores ==
  /\ status # "running" => todo = <<>>
  /\ status \notin {"err", "panic"} =>
       RestoresVars(todo, Len(vars)) /\ RestoresWith(todo, with_stack)

Inv ==
  /\ TypeOK
  /\ BuiltinsKept
  /\ BlockAfterArrow
  /\ Truncs(todo, Len(vars))
  /\ Withs(todo, with_stack)
  /\ Blocks(todo, acc)
  /\ Restores

----------------------------------------------------------------------------
(* Every kind of stack element is an Item, and may occur in a template. *)
LEMMA OpenPlain ==
  ASSUME NEW m, NEW x \in Constructs \ {"block"}, NEW v \in NameSet \cup {""}
  PROVE  Open(x, v) \in Plain(m) /\ Close(x, v) \in Plain(m)
  BY DEF Open, Close, Plain, Item, Token, TokenKinds, Block

LEMMA ClosePlain ==
  ASSUME NEW m, NEW x \in Constructs, NEW v \in NameSet \cup {""}
  PROVE  Close(x, v) \in Plain(m)
  BY DEF Open, Close, Plain, Item, Token, TokenKinds, Block

LEMMA LeafPlain ==
  ASSUME NEW m, NEW x \in Leaves \cup IdentCateg, NEW v \in NameSet \cup {""}
  PROVE  /\ Read(x, v) \in Plain(m)
         /\ Decl(v) \in Plain(m)
         /\ Lit(x, v) \in Plain(m)
<1>1. Read(x, v) \in Plain(m)
  BY DEF Read, Plain, Item, Token, TokenKinds, Block, Open
<1>2. Decl(v) \in Plain(m)
  BY DEF Decl, Plain, Item, Token, TokenKinds, Block, Open
<1>3. Lit(x, v) \in Plain(m)
  BY DEF Lit, Plain, Item, Token, TokenKinds, Block, Open
<1> QED  BY <1>1, <1>2, <1>3

LEMMA SubPlain ==
  ASSUME NEW m, NEW n \in NodeOpt, NEW s \in Ctx
  PROVE  Sub(n, s) \in Plain(m)
  BY DEF Sub, Plain, Item, Block, Open

LEMMA IdentPlain ==
  ASSUME NEW m, NEW i \in NameSet, NEW s \in Ctx
  PROVE  IdentRef(i, s) \in Plain(m)
  BY DEF IdentRef, Plain, Item, Block, Open

LEMMA KeyPlain ==
  ASSUME NEW m, NEW n \in NodeOpt
  PROVE  KeyEl(n) \in Plain(m)
  BY DEF KeyEl, Plain, Item, Block, Open

LEMMA PartPlain ==
  ASSUME NEW m, NEW n \in Node, n.k \in {"Literal", "StrInterpol"}
  PROVE  StrPart(n) \in Plain(m)
  BY DEF StrPart, Plain, Item, Block, Open

LEMMA FormalPlain ==
  ASSUME NEW m, NEW f \in PatEntry
  PROVE  Formal(f) \in Plain(m)
  BY DEF Formal, Plain, Item, Block, Open

LEMMA KvPlain ==
  ASSUME NEW m, NEW e \in Entry, NEW scope \in Scopes,
         scope = NO_SCOPE => /\ e.key # <<>> /\ e.key[1].k = "Ident"
                             /\ e.value # None
  PROVE  Kv(e, scope) \in Plain(m)
  BY DEF Kv, KvItem, Plain, Item, Block, Open

LEMMA InhPlain ==
  ASSUME NEW m, NEW h \in Inherits
  PROVE  Inh(h) \in Plain(m) /\ PropInh(h) \in Plain(m)
  BY DEF Inh, PropInh, Plain, Item, Block, Open

LEMMA InhIdPlain ==
  ASSUME NEW m, NEW i \in NameSet
  PROVE  InhId(i) \in Plain(m) /\ ThenId(i) \in Plain(m)
  BY DEF InhId, ThenId, Plain, Item, Block, Open

LEMMA KeysPiece ==
  ASSUME NEW m, NEW ks \in SUBSET NameSet, NEW c \in IdentCateg
  PROVE  Keys(ks, c) \in Piece(m)
  BY DEF Keys, KeysItem, Piece

LEMMA TruncatePlain ==
  ASSUME NEW m \in Nat
  PROVE  Truncate(m) \in Plain(m)
  BY DEF Truncate, Plain, Item, Block, Open

----------------------------------------------------------------------------
(* Sequences of a given set: tuples, and concatenations. *)
LEMMA Tuple0 == \A X : <<>> \in Seq(X)
  OBVIOUS

LEMMA Tuple1 == ASSUME NEW X, NEW a \in X PROVE <<a>> \in Seq(X)
  OBVIOUS

LEMMA Concat2 ==
  ASSUME NEW X, NEW T \in Seq(X), NEW U \in Seq(X)
  PROVE  T \o U \in Seq(X)
  OBVIOUS

LEMMA ConcatEmpty == ASSUME NEW X, NEW T \in Seq(X) PROVE T \o <<>> = T
  OBVIOUS

(* lazyness_incoming emits wrappers only. *)
LEMMA LazyPlain ==
  ASSUME NEW m, NEW s, NEW at, NEW lt, NEW adj
  PROVE  /\ lazyness_incoming(s, at, lt, adj).pre \in Seq(Plain(m))
         /\ lazyness_incoming(s, at, lt, adj).post \in Seq(Plain(m))
<1> DEFINE P == Plain(m)
<1>1. /\ Open("await", "") \in P /\ Open("lazy", "") \in P
      /\ Close("await", "") \in P /\ Close("lazy", "") \in P
  BY OpenPlain DEF Constructs
<1>2. /\ <<Open("await", "")>> \in Seq(P) /\ <<Open("lazy", "")>> \in Seq(P)
      /\ <<Close("await", "")>> \in Seq(P) /\ <<Close("lazy", "")>> \in Seq(P)
      /\ <<>> \in Seq(P)
  BY <1>1, Tuple0, Tuple1
<1>3. \A X, Y, Z \in Seq(P) : X \o Y \o Z \in Seq(P)
  OBVIOUS
<1> QED  BY <1>2, <1>3 DEF lazyness_incoming

(* A context with a wrapper that defers is never left "Did". *)
LEMMA LazyCtx ==
  ASSUME NEW s \in Ctx, NEW at \in {"Forward", "Flush"},
         NEW lt \in {"Forward", "Flush"}
  PROVE  lazyness_incoming(s, at, lt, "Front").sctx \in Ctx
  BY DEF lazyness_incoming, Ctx, StackCtx, St, merge_sttr, merge_sttr_fires,
         lta, mksctx

(* Force always ends in the arrow of a PLazy wrapper. *)
LEMMA ForceArrow ==
  ASSUME NEW m, NEW s \in Ctx, NEW at \in {"Forward", "Flush"}
  PROVE  \E X \in Seq(Plain(m)) :
           lazyness_incoming(s, at, "Force", "Front").pre = X \o <<Arrow>>
<1> DEFINE X == IF merge_sttr(s.await_st, at).do THEN <<Open("await", "")>>
                ELSE <<>>
<1>1. Open("await", "") \in Plain(m)
  BY OpenPlain DEF Constructs
<1>2. X \in Seq(Plain(m))
  BY <1>1, Tuple0, Tuple1
<1>3. lazyness_incoming(s, at, "Force", "Front").pre = X \o <<Arrow>> \o <<>>
  BY DEF lazyness_incoming, merge_sttr, merge_sttr_fires, lta, Ctx, StackCtx,
         St, Arrow
<1>4. X \o <<Arrow>> \in Seq(Plain(m))
  BY <1>2, OpenPlain, Tuple1, Concat2 DEF Constructs, Arrow
<1>5. X \o <<Arrow>> \o <<>> = X \o <<Arrow>>
  BY <1>4, ConcatEmpty
<1> QED  BY <1>2, <1>3, <1>5

----------------------------------------------------------------------------
(* Templates: closed under concatenation. *)
LEMMA PlainTemplate ==
  ASSUME NEW m, NEW T \in Seq(Plain(m))
  PROVE  Template(T, m)
<1>1. Plain(m) \subseteq Piece(m)
  BY DEF Piece
<1>2. T \in Seq(Piece(m))
  BY <1>1, SeqMonotonic
<1> QED  BY <1>2 DEF Template, Plain

LEMMA KeysTemplate ==
  ASSUME NEW m, NEW ks \in SUBSET NameSet, NEW c \in IdentCateg
  PROVE  Template(<<Keys(ks, c)>>, m)
<1>1. <<Keys(ks, c)>> \in Seq(Piece(m))
  BY KeysPiece, Tuple1
<1>2. Keys(ks, c) # Block
  BY DEF Keys, Block, Open
<1> QED  BY <1>1, <1>2 DEF Template

LEMMA ConcatTemplate ==
  ASSUME NEW m, NEW T, NEW U, Template(T, m), Template(U, m)
  PROVE  Template(T \o U, m)
<1> DEFINE X == Piece(m)
<1>1. T \in Seq(X) /\ U \in Seq(X)
  BY DEF Template
<1>2. T \o U \in Seq(X)
  BY <1>1
<1>3. ASSUME NEW j \in 1 .. Len(T \o U), (T \o U)[j] = Block
      PROVE  j > 1 /\ (T \o U)[j - 1] = Arrow
  <2>1. CASE j <= Len(T)
    BY <1>1, <1>3, <2>1 DEF Template
  <2>2. CASE j > Len(T)
    <3>1. U[j - Len(T)] = Block /\ j - Len(T) \in 1 .. Len(U)
      BY <1>1, <1>3, <2>2
    <3>2. j - Len(T) > 1 /\ U[j - Len(T) - 1] = Arrow
      BY <3>1 DEF Template
    <3> QED  BY <1>1, <3>1, <3>2
  <2> QED  BY <1>1, <2>1, <2>2
<1> QED  BY <1>2, <1>3 DEF Template

LEMMA BlockTemplate ==
  ASSUME NEW m
  PROVE  Template(<<Arrow, Block>>, m)
<1>1. Arrow \in Piece(m) /\ Block \in Piece(m)
  BY OpenPlain DEF Constructs, Arrow, Piece
<1>2. Arrow # Block
  BY DEF Arrow, Block, Open
<1>3. <<Arrow, Block>> \in Seq(Piece(m))
  BY <1>1

<1> QED  BY <1>2, <1>3 DEF Template

----------------------------------------------------------------------------
(* A template that registers names restores vars afterwards. *)
Closed(T) ==
  \A i \in 1 .. Len(T) :
    T[i].t = "keys" => \E j \in (i + 1) .. Len(T) : T[j].t = "trunc"

LEMMA PlainClosed ==
  ASSUME NEW m, NEW T \in Seq(Plain(m))
  PROVE  Closed(T)
  BY DEF Closed, Plain

LEMMA LastClosed ==
  ASSUME NEW X, NEW T \in Seq(X), NEW U \in Seq(X), Len(U) >= 1,
         U[Len(U)].t = "trunc"
  PROVE  Closed(T \o U)
<1> DEFINE V == T \o U
<1>1. /\ Len(V) = Len(T) + Len(U) /\ V[Len(V)] = U[Len(U)]
      /\ Len(T) \in Nat /\ Len(U) \in Nat
  OBVIOUS
<1>2. Len(V) \in Nat /\ V[Len(V)].t = "trunc"
  BY <1>1
<1> HIDE DEF V
<1>3. ASSUME NEW i \in 1 .. Len(V), V[i].t = "keys"
      PROVE  \E j \in (i + 1) .. Len(V) : V[j].t = "trunc"
  <2>1. i # Len(V)
    BY <1>2, <1>3
  <2>2. Len(V) \in (i + 1) .. Len(V)
    BY <1>2, <2>1
  <2> QED  BY <1>2, <2>2
<1>4. Closed(V)
  BY <1>3 DEF Closed
<1> QED  BY <1>4 DEF V

LEMMA ConcatClosed ==
  ASSUME NEW X, NEW T \in Seq(X), NEW U \in Seq(X), Closed(T), Closed(U)
  PROVE  Closed(T \o U)
<1> DEFINE V == T \o U
<1>1. /\ Len(V) = Len(T) + Len(U) /\ Len(T) \in Nat /\ Len(U) \in Nat
      /\ \A i \in 1 .. Len(T) : V[i] = T[i]
      /\ \A i \in 1 .. Len(U) : V[Len(T) + i] = U[i]
  OBVIOUS
<1> HIDE DEF V
<1>2. ASSUME NEW i \in 1 .. Len(V), V[i].t = "keys"
      PROVE  \E j \in (i + 1) .. Len(V) : V[j].t = "trunc"
  <2>1. CASE i <= Len(T)
    <3>1. i \in 1 .. Len(T) /\ T[i].t = "keys"
      BY <1>1, <1>2, <2>1
    <3>2. PICK j \in (i + 1) .. Len(T) : T[j].t = "trunc"
      BY <3>1 DEF Closed
    <3>3. j \in (i + 1) .. Len(V) /\ V[j].t = "trunc"
      BY <1>1, <3>1, <3>2
    <3> QED  BY <3>3
  <2>2. CASE i > Len(T)
    <3> DEFINE k == i - Len(T)
    <3>1. k \in 1 .. Len(U) /\ U[k].t = "keys" /\ i = Len(T) + k
      BY <1>1, <1>2, <2>2
    <3> HIDE DEF k
    <3>2. PICK j \in (k + 1) .. Len(U) : U[j].t = "trunc"
      BY <3>1 DEF Closed
    <3>3. Len(T) + j \in (i + 1) .. Len(V) /\ V[Len(T) + j].t = "trunc"
      BY <1>1, <3>1, <3>2
    <3> QED  BY <3>3
  <2> QED  BY <1>1, <2>1, <2>2
<1>3. Closed(V)
  BY <1>2 DEF Closed
<1> QED  BY <1>3 DEF V

----------------------------------------------------------------------------
(* Replacing a call by its template keeps the stack in order. *)
LEMMA SpliceType ==
  ASSUME NEW td \in Seq(Item), td # <<>>, NEW m, NEW T, Template(T, m)
  PROVE  T \o Tail(td) \in Seq(Item)
<1>a. Block \in Token
  BY DEF Block, Open, Token, TokenKinds, Constructs
<1>b. Plain(m) \subseteq Item /\ Token \subseteq Item
  BY DEF Plain, Item
<1>1. Piece(m) \subseteq Item
  BY <1>a, <1>b DEF Piece, KeysItem, Item
<1>2. T \in Seq(Item)
  BY <1>1, SeqMonotonic DEF Template
<1> QED  BY <1>2

LEMMA SpliceElement ==
  ASSUME NEW td \in Seq(Item), td # <<>>, NEW m, NEW T, Template(T, m),
         NEW j \in 1 .. Len(T \o Tail(td))
  PROVE  \/ j \in 1 .. Len(T) /\ (T \o Tail(td))[j] = T[j]
            /\ T[j] \in Piece(m)
         \/ /\ j > Len(T) /\ j - Len(T) + 1 \in 2 .. Len(td)
            /\ (T \o Tail(td))[j] = td[j - Len(T) + 1]
<1>1. T \in Seq(Piece(m))
  BY DEF Template
<1>2. CASE j <= Len(T)
  BY <1>1, <1>2
<1>3. CASE j > Len(T)
  BY <1>1, <1>3
<1> QED  BY <1>1, <1>2, <1>3

LEMMA PlainKind ==
  ASSUME NEW m, NEW x \in Piece(m)
  PROVE  (x.t = "trunc" => x.len = m) /\ x.t # "unwith"
<1>1. CASE x \in Plain(m)
  BY <1>1 DEF Plain
<1>2. CASE x = Block
  BY <1>2 DEF Block, Open
<1>3. CASE x \in KeysItem
  BY <1>3 DEF KeysItem
<1> QED  BY <1>1, <1>2, <1>3 DEF Piece

LEMMA ItemLen ==
  ASSUME NEW x \in Item
  PROVE  /\ x.t = "trunc" => x.len \in Nat
         /\ x.t = "unwith" => x.d \in Nat
  BY DEF Item, Token, TokenKinds, KvItem

LEMMA SpliceTruncs ==
  ASSUME NEW td \in Seq(Item), td # <<>>, NEW m \in Nat, NEW T, Template(T, m),
         NEW M \in Nat, m <= M, Len(DFL_VARS) <= m, Truncs(td, m)
  PROVE  Truncs(T \o Tail(td), M)
<1> DEFINE U == T \o Tail(td)
<1>0. T \in Seq(Piece(m))
  BY DEF Template
<1>1. \A j \in 1 .. Len(U) :
        U[j].t = "trunc" =>
          \/ j <= Len(T) /\ U[j].len = m
          \/ j > Len(T) /\ j - Len(T) + 1 \in 1 .. Len(td)
             /\ U[j] = td[j - Len(T) + 1]
  BY SpliceElement, PlainKind
<1>2. \A j \in 1 .. Len(td) : td[j].t = "trunc" => td[j].len \in Nat
  BY ItemLen
<1>3. ASSUME NEW j \in 1 .. Len(U), U[j].t = "trunc"
      PROVE  Len(DFL_VARS) <= U[j].len /\ U[j].len <= m /\ U[j].len \in Nat
  BY <1>1, <1>2, <1>3 DEF Truncs
<1>4. ASSUME NEW i \in 1 .. Len(U), NEW j \in 1 .. Len(U), i < j,
             U[i].t = "trunc", U[j].t = "trunc"
      PROVE  U[j].len <= U[i].len
  <2>1. CASE i <= Len(T)
    <3>1. U[i].len = m
      BY <1>1, <1>4, <2>1, <1>0
    <3> QED  BY <3>1, <1>3, <1>4
  <2>2. CASE i > Len(T)
    <3>1. U[i] = td[i - Len(T) + 1] /\ U[j] = td[j - Len(T) + 1]
          /\ i - Len(T) + 1 \in 1 .. Len(td) /\ j - Len(T) + 1 \in 1 .. Len(td)
      BY <1>1, <1>4, <2>2, <1>0, SMTT(20)
    <3>2. i - Len(T) + 1 < j - Len(T) + 1
      BY <1>4, <1>0
    <3> QED  BY <3>1, <3>2, <1>4 DEF Truncs
  <2> QED  BY <2>1, <2>2, <1>0
<1>5. \A j \in 1 .. Len(U) :
        U[j].t = "trunc" => Len(DFL_VARS) <= U[j].len /\ U[j].len <= M
  <2> SUFFICES ASSUME NEW j \in 1 .. Len(U), U[j].t = "trunc"
               PROVE  Len(DFL_VARS) <= U[j].len /\ U[j].len <= M
    OBVIOUS
  <2>1. Len(DFL_VARS) <= U[j].len /\ U[j].len <= m /\ U[j].len \in Nat
    BY <1>3
  <2> HIDE DEF U
  <2> QED  BY <2>1
<1> QED  BY <1>4, <1>5 DEF Truncs

LEMMA SpliceWiths ==
  ASSUME NEW td \in Seq(Item), td # <<>>, NEW m, NEW T, Template(T, m),
         NEW w, Withs(td, w)
  PROVE  Withs(T \o Tail(td), w)
<1> DEFINE U == T \o Tail(td)
<1>0. T \in Seq(Piece(m))
  BY DEF Template
<1>1. \A j \in 1 .. Len(U) :
        U[j].t = "unwith" => /\ j > Len(T) /\ j - Len(T) + 1 \in 1 .. Len(td)
                             /\ U[j] = td[j - Len(T) + 1]
  <2>1. SUFFICES ASSUME NEW j \in 1 .. Len(U), U[j].t = "unwith"
                 PROVE  /\ j > Len(T) /\ j - Len(T) + 1 \in 1 .. Len(td)
                        /\ U[j] = td[j - Len(T) + 1]
    OBVIOUS
  <2>2. ~(U[j] \in Piece(m))
    BY <2>1, PlainKind
  <2> QED  BY <2>1, <2>2, SpliceElement, <1>0
<1>2. \A j \in 1 .. Len(U) : U[j].t = "unwith" => U[j].d < w
  BY <1>1 DEF Withs
<1>3. ASSUME NEW i \in 1 .. Len(U), NEW j \in 1 .. Len(U), i < j,
             U[i].t = "unwith", U[j].t = "unwith"
      PROVE  U[j].d < U[i].d
  <2>1. i - Len(T) + 1 < j - Len(T) + 1
    BY <1>3, <1>0
  <2> QED  BY <1>1, <1>3, <2>1 DEF Withs
<1> QED  BY <1>2, <1>3 DEF Withs

LEMMA SpliceBlocks ==
  ASSUME NEW td \in Seq(Item), td # <<>>, NEW m, NEW T, Template(T, m),
         NEW a, Blocks(td, a), td[1].t \notin TokenKinds
  PROVE  Blocks(T \o Tail(td), a)
<1> DEFINE U == T \o Tail(td)
<1>0. T \in Seq(Piece(m))
  BY DEF Template
<1>1. SUFFICES ASSUME NEW j \in 1 .. Len(U), U[j] = Block
               PROVE  j # 1 /\ U[j - 1] = Arrow
  BY DEF Blocks
<1>2. CASE j <= Len(T)
  <2>1. T[j] = Block
    BY <1>0, <1>1, <1>2
  <2>2. j > 1 /\ T[j - 1] = Arrow
    BY <1>0, <1>2, <2>1 DEF Template
  <2> QED  BY <1>0, <1>2, <2>2
<1>3. CASE j > Len(T)
  <2>1. j - Len(T) + 1 \in 2 .. Len(td) /\ td[j - Len(T) + 1] = Block
    BY <1>1, <1>3, SpliceElement, <1>0
  <2>2. td[j - Len(T)] = Arrow
    BY <2>1, <1>0 DEF Blocks
  <2>3. j - Len(T) # 1
    <3>1. Arrow.t \in TokenKinds
      BY DEF Arrow, Open, TokenKinds
    <3> QED  BY <2>2, <3>1
  <2>4. j - 1 > Len(T) /\ j - 1 \in 1 .. Len(U)
    BY <2>1, <2>3, <1>0, <1>3
  <2>5. U[j - 1] = td[j - Len(T)]
    BY <2>4, <1>0
  <2> QED  BY <2>2, <2>4, <2>5, <1>0
<1> QED  BY <1>0, <1>2, <1>3

(* What lay below the replaced call is still on the stack. *)
LEMMA SpliceBelow ==
  ASSUME NEW td \in Seq(Item), td # <<>>, NEW m, NEW T, Template(T, m)
  PROVE  /\ \A j \in 2 .. Len(td) :
              /\ Len(T) + j - 1 \in 1 .. Len(T \o Tail(td))
              /\ (T \o Tail(td))[Len(T) + j - 1] = td[j]
         /\ \A j \in 1 .. Len(T) : (T \o Tail(td))[j] = T[j]
         /\ Len(T \o Tail(td)) = Len(T) + Len(td) - 1
         /\ Len(T) \in Nat /\ Len(td) \in Nat /\ Len(td) >= 1
<1>1. T \in Seq(Piece(m))
  BY DEF Template
<1> QED  BY <1>1

LEMMA SpliceRestoresWith ==
  ASSUME NEW td \in Seq(Item), td # <<>>, td[1].t # "unwith",
         NEW m, NEW T, Template(T, m), NEW w, RestoresWith(td, w)
  PROVE  RestoresWith(T \o Tail(td), w)
<1> DEFINE U == T \o Tail(td)
<1>1. /\ \A j \in 2 .. Len(td) :
           Len(T) + j - 1 \in 1 .. Len(U) /\ U[Len(T) + j - 1] = td[j]
      /\ \A j \in 1 .. Len(T) : U[j] = T[j]
      /\ Len(U) = Len(T) + Len(td) - 1
      /\ Len(T) \in Nat /\ Len(td) \in Nat /\ Len(td) >= 1
  BY SpliceBelow
<1> HIDE DEF U
<1>2. ASSUME NEW e \in 0 .. (w - 1)
      PROVE  \E j \in 1 .. Len(U) : U[j].t = "unwith" /\ U[j].d = e
  <2>1. PICK j \in 1 .. Len(td) : td[j].t = "unwith" /\ td[j].d = e
    BY <1>2 DEF RestoresWith
  <2>2. j \in 2 .. Len(td)
    BY <1>1, <2>1
  <2> QED  BY <1>1, <2>1, <2>2
<1>3. RestoresWith(U, w)
  BY <1>2 DEF RestoresWith
<1> QED  BY <1>3 DEF U

LEMMA SpliceRestoresVars ==
  ASSUME NEW td \in Seq(Item), td # <<>>, td[1].t # "trunc",
         NEW m \in Nat, Len(DFL_VARS) <= m, NEW M \in Nat,
         NEW T, Template(T, m), RestoresVars(td, m),
         Closed(T) \/ td[1].t = "keys",
         \/ M = m \/ td[1].t = "keys"
         \/ \E j \in 1 .. Len(T) : T[j].t = "trunc"
  PROVE  RestoresVars(T \o Tail(td), M)
<1> DEFINE U == T \o Tail(td)
           L == Len(DFL_VARS)
<1>0. T \in Seq(Piece(m)) /\ L \in Nat
  BY DEF Template, DFL_VARS
<1>1. /\ \A j \in 2 .. Len(td) :
           Len(T) + j - 1 \in 1 .. Len(U) /\ U[Len(T) + j - 1] = td[j]
      /\ \A j \in 1 .. Len(T) : U[j] = T[j]
      /\ Len(U) = Len(T) + Len(td) - 1
      /\ Len(T) \in Nat /\ Len(td) \in Nat /\ Len(td) >= 1
  BY SpliceBelow
<1>2. \A j \in 1 .. Len(T) : T[j].t = "trunc" => T[j].len = m
  BY <1>0, PlainKind
<1> HIDE DEF U, L
<1>3. ASSUME NEW i \in 2 .. Len(td), td[i].t = "keys"
      PROVE  \E j \in (Len(T) + i) .. Len(U) : Cuts(U[j])
  <2>1. PICK j \in (i + 1) .. Len(td) : Cuts(td[j])
    BY <1>1, <1>3 DEF RestoresVars
  <2>2. j \in 2 .. Len(td) /\ Len(T) + j - 1 \in (Len(T) + i) .. Len(U)
    BY <1>1, <1>3, <2>1
  <2> QED  BY <1>1, <2>1, <2>2
<1>4. CASE m > L \/ td[1].t = "keys"
  <2>1. PICK j \in 2 .. Len(td) : Cuts(td[j])
    <3>1. \E j \in 1 .. Len(td) : Cuts(td[j])
      BY <1>1, <1>4 DEF RestoresVars, L
    <3>2. ~Cuts(td[1])
      BY DEF Cuts
    <3> QED  BY <1>1, <3>1, <3>2
  <2> DEFINE k == Len(T) + j - 1
  <2>2. k \in (Len(T) + 1) .. Len(U) /\ Cuts(U[k])
    BY <1>1, <2>1
  <2> HIDE DEF k
  <2>3. ASSUME NEW i \in 1 .. Len(U), U[i].t = "keys"
        PROVE  \E l \in (i + 1) .. Len(U) : Cuts(U[l])
    <3>1. CASE i <= Len(T)
      <4>1. k \in (i + 1) .. Len(U)
        BY <1>1, <2>2, <3>1
      <4> QED  BY <2>2, <4>1
    <3>2. CASE i > Len(T)
      <4> DEFINE h == i - Len(T) + 1
      <4>1. h \in 2 .. Len(td) /\ i = Len(T) + h - 1 /\ i + 1 = Len(T) + h
        BY <1>1, <3>2
      <4> HIDE DEF h
      <4>2. td[h].t = "keys"
        BY <1>1, <2>3, <4>1
      <4> QED  BY <1>3, <4>1, <4>2
    <3> QED  BY <1>1, <3>1, <3>2
  <2>4. k \in 1 .. Len(U)
    BY <1>1, <2>2
  <2> QED  BY <2>2, <2>3, <2>4 DEF RestoresVars, U
<1>5. CASE m = L /\ td[1].t # "keys"
  <2>1. \A j \in 1 .. Len(T) : T[j].t = "trunc" => Cuts(U[j])
    BY <1>1, <1>2, <1>5 DEF Cuts, L
  <2>2. M > L => \E j \in 1 .. Len(U) : Cuts(U[j])
    BY <1>1, <1>5, <2>1
  <2>3. ASSUME NEW i \in 1 .. Len(U), U[i].t = "keys"
        PROVE  \E l \in (i + 1) .. Len(U) : Cuts(U[l])
    <3>1. CASE i <= Len(T)
      <4>1. i \in 1 .. Len(T) /\ T[i].t = "keys"
        BY <1>1, <2>3, <3>1
      <4>2. PICK j \in (i + 1) .. Len(T) : T[j].t = "trunc"
        BY <1>5, <4>1 DEF Closed
      <4>3. j \in 1 .. Len(T) /\ j \in (i + 1) .. Len(U)
        BY <1>1, <4>1, <4>2
      <4> QED  BY <2>1, <4>2, <4>3
    <3>2. CASE i > Len(T)
      <4> DEFINE h == i - Len(T) + 1
      <4>1. h \in 2 .. Len(td) /\ i = Len(T) + h - 1 /\ i + 1 = Len(T) + h
        BY <1>1, <3>2
      <4> HIDE DEF h
      <4>2. td[h].t = "keys"
        BY <1>1, <2>3, <4>1
      <4> QED  BY <1>3, <4>1, <4>2
    <3> QED  BY <1>1, <3>1, <3>2
  <2> QED  BY <2>2, <2>3 DEF RestoresVars, U, L
<1>6. m > L \/ m = L
  BY <1>0 DEF L
<1> QED  BY <1>4, <1>5, <1>6

----------------------------------------------------------------------------
(* The building blocks of the templates. *)
LEMMA Contexts == WN \in Ctx /\ NN \in Ctx /\ NW \in Ctx
  BY DEF WN, NN, NW, Ctx, StackCtx, St, mksctx

LEMMA Tuple2 ==
  ASSUME NEW X, NEW a \in X, NEW b \in X PROVE <<a, b>> \in Seq(X)
  OBVIOUS

LEMMA Tuple3 ==
  ASSUME NEW X, NEW a \in X, NEW b \in X, NEW c \in X PROVE <<a, b, c>> \in Seq(X)
  OBVIOUS

LEMMA Tuple4 ==
  ASSUME NEW X, NEW a \in X, NEW b \in X, NEW c \in X, NEW d \in X
  PROVE  <<a, b, c, d>> \in Seq(X)
  OBVIOUS

LEMMA MapSeq ==
  ASSUME NEW X, NEW D, NEW q \in Seq(D), NEW f \in [DOMAIN q -> X]
  PROVE  f \in Seq(X)
<1>1. Len(q) \in Nat /\ DOMAIN q = 1 .. Len(q)
  OBVIOUS
<1> QED  BY <1>1, SeqDef

LEMMA Element ==
  ASSUME NEW X, NEW q \in Seq(X) PROVE \A j \in DOMAIN q : q[j] \in X
  OBVIOUS

LEMMA OneElement ==
  ASSUME NEW X, NEW q \in Seq(X), Len(q) = 1
  PROVE  q # <<>> /\ q[1] \in X
<1>1. Len(q) >= 1
  OBVIOUS
<1>2. 1 \in 1 .. Len(q)
  BY <1>1, LenProperties
<1>3. q # <<>>
  BY <1>1, EmptySeq
<1> QED  BY <1>2, <1>3, ElementOfSeq

LEMMA ManyElements ==
  ASSUME NEW X, NEW q \in Seq(X), Len(q) > 1
  PROVE  /\ q # <<>> /\ q[1] \in X /\ Len(q) \in Nat /\ Len(q) - 1 \in Nat
         /\ \A j \in 1 .. (Len(q) - 1) : q[j + 1] \in X
  OBVIOUS

LEMMA Pair == ASSUME NEW a, NEW b PROVE <<a>> \o <<b>> = <<a, b>>
<1> DEFINE u == <<a>> \o <<b>>
<1>1. <<a>> \in Seq({a, b}) /\ <<b>> \in Seq({a, b}) /\ <<a, b>> \in Seq({a, b})
  OBVIOUS
<1>2. u \in Seq({a, b}) /\ Len(u) = 2 /\ u[1] = a /\ u[2] = b
  BY <1>1, ConcatProperties
<1>3. \A i \in 1 .. Len(u) : u[i] = <<a, b>>[i]
  BY <1>2
<1>4. Len(<<a, b>>) = 2
  OBVIOUS
<1> HIDE DEF u
<1> QED  BY <1>1, <1>2, <1>3, <1>4, SeqEqual DEF u

LEMMA Tuple7 ==
  ASSUME NEW X, NEW a \in X, NEW b \in X, NEW c \in X, NEW d \in X, NEW e \in X,
         NEW f \in X, NEW g \in X
  PROVE  <<a, b, c, d, e, f, g>> \in Seq(X)
  OBVIOUS

LEMMA UsePlain ==
  ASSUME NEW m, NEW n \in NodeOpt, NEW s \in Ctx
  PROVE  Use(n, s) \in Seq(Plain(m))
<1>1. Open("use", "") \in Plain(m) /\ Close("use", "") \in Plain(m)
  BY OpenPlain DEF Constructs
<1>2. Sub(n, s) \in Plain(m)
  BY SubPlain
<1> QED  BY <1>1, <1>2, Tuple3 DEF Use

LEMMA WrapPlain ==
  ASSUME NEW m, NEW s, NEW at, NEW lt, NEW adj, NEW T \in Seq(Plain(m))
  PROVE  Wrap(lazyness_incoming(s, at, lt, adj), T) \in Seq(Plain(m))
  BY LazyPlain, Concat2 DEF Wrap

LEMMA WrapTemplate ==
  ASSUME NEW m, NEW s, NEW at, NEW lt, NEW adj, NEW T, Template(T, m), Closed(T)
  PROVE  /\ Template(Wrap(lazyness_incoming(s, at, lt, adj), T), m)
         /\ Closed(Wrap(lazyness_incoming(s, at, lt, adj), T))
<1> DEFINE L == lazyness_incoming(s, at, lt, adj)
<1>1. L.pre \in Seq(Plain(m)) /\ L.post \in Seq(Plain(m))
  BY LazyPlain
<1> HIDE DEF L
<1>2. Template(L.pre, m) /\ Template(L.post, m)
  BY <1>1, PlainTemplate
<1>3. Closed(L.pre) /\ Closed(L.post)
  BY <1>1, PlainClosed
<1>4. /\ L.pre \in Seq(Piece(m)) /\ T \in Seq(Piece(m))
      /\ L.post \in Seq(Piece(m)) /\ L.pre \o T \in Seq(Piece(m))
  BY <1>2, Concat2 DEF Template
<1>5. Template(L.pre \o T, m) /\ Closed(L.pre \o T)
  BY <1>2, <1>3, <1>4, ConcatTemplate, ConcatClosed
<1> DEFINE P == L.pre \o T
<1> HIDE DEF P
<1>6. Template(P \o L.post, m) /\ Closed(P \o L.post)
  BY <1>2, <1>3, <1>4, <1>5, ConcatTemplate, ConcatClosed DEF P
<1> QED  BY <1>6 DEF Wrap, L, P

(* A block behind a forced wrapper. *)
LEMMA WrapBlock ==
  ASSUME NEW m, NEW s \in Ctx, NEW at \in {"Forward", "Flush"},
         NEW R, Template(R, m), Closed(R)
  PROVE  /\ Template(Wrap(lazyness_incoming(s, at, "Force", "Front"),
                          <<Block>> \o R), m)
         /\ Closed(Wrap(lazyness_incoming(s, at, "Force", "Front"),
                        <<Block>> \o R))
<1> DEFINE L == lazyness_incoming(s, at, "Force", "Front")
           B == Piece(m)
<1>1. PICK X \in Seq(Plain(m)) : L.pre = X \o <<Arrow>>
  BY ForceArrow
<1>2. L.post \in Seq(Plain(m))
  BY LazyPlain
<1>3. /\ X \in Seq(B) /\ R \in Seq(B) /\ L.post \in Seq(B)
      /\ <<Arrow>> \in Seq(B) /\ <<Block>> \in Seq(B)
  <2>1. Arrow \in B /\ Block \in B
    BY OpenPlain DEF Arrow, Constructs, Piece
  <2>2. Plain(m) \subseteq B
    BY DEF Piece
  <2> QED  BY <1>1, <1>2, <2>1, <2>2, SeqMonotonic, Tuple1 DEF Template
<1> HIDE DEF L
<1>4. (X \o <<Arrow>>) \o (<<Block>> \o R) = (X \o (<<Arrow>> \o <<Block>>)) \o R
  BY <1>3, ConcatAssociative, Concat2, SMTT(20)
<1>5. <<Arrow>> \o <<Block>> = <<Arrow, Block>>
  BY Pair
<1>6. Template(X, m) /\ Template(L.post, m)
  BY <1>1, <1>2, PlainTemplate
<1>7. Template((X \o <<Arrow, Block>>) \o R, m)
  BY <1>6, BlockTemplate, ConcatTemplate
<1>8. Template(((X \o <<Arrow>>) \o (<<Block>> \o R)) \o L.post, m)
  BY <1>4, <1>5, <1>6, <1>7, ConcatTemplate
<1>9. Closed(L.pre) /\ Closed(L.post)
  BY <1>2, LazyPlain, PlainClosed DEF L
<1>10. Closed(<<Block>>)
  <2>1. Len(<<Block>>) = 1 /\ <<Block>>[1] = Block
    OBVIOUS
  <2>2. Block.t # "keys"
    BY DEF Block, Open
  <2> QED  BY <2>1, <2>2 DEF Closed
<1>11. Closed(<<Block>> \o R) /\ <<Block>> \o R \in Seq(B)
  BY <1>3, <1>10, ConcatClosed, Concat2
<1>12. L.pre \in Seq(B)
  BY <1>1, <1>3, Concat2
<1>13. Closed(L.pre \o (<<Block>> \o R)) /\ L.pre \o (<<Block>> \o R) \in Seq(B)
  BY <1>9, <1>11, <1>12, ConcatClosed, Concat2
<1>14. Closed((L.pre \o (<<Block>> \o R)) \o L.post)
  BY <1>3, <1>9, <1>13, ConcatClosed
<1> QED  BY <1>1, <1>8, <1>14 DEF Wrap, L

----------------------------------------------------------------------------
(* What the element at the head of the stack holds. *)
LEMMA HeadItem ==
  ASSUME TypeOK, todo # <<>>
  PROVE  Head(todo) \in Item /\ Head(todo) = todo[1]
  BY DEF TypeOK

LEMMA HeadNode ==
  ASSUME TypeOK, Running("node")
  PROVE  N \in NodeOpt /\ S \in Ctx
<1>1. Head(todo) \in Item /\ Head(todo).t = "node"
  BY HeadItem DEF Running
<1> QED  BY <1>1 DEF Item, Token, TokenKinds, KvItem, N, S

LEMMA VisitNode ==
  ASSUME TypeOK, NEW kind \in {"Apply", "Assert", "AttrSet", "BinOp", "Dynamic",
           "Ident", "IfElse", "Lambda", "LegacyLet", "LetIn", "List",
           "OrDefault", "Paren", "Root", "Select", "Str", "UnaryOp", "Value",
           "With"},
         Visit(kind)
  PROVE  N \in Node /\ N.k = kind /\ NodeShape(N) /\ S \in Ctx
<1>1. N \in NodeOpt /\ S \in Ctx /\ N.k = kind
  BY HeadNode DEF Visit, N
<1>2. N # None
  BY <1>1 DEF None
<1> QED  BY <1>1, <1>2, NodesAssumption DEF NodeOpt

LEMMA HeadFields ==
  ASSUME TypeOK, todo # <<>>
  PROVE  /\ Head(todo).t = "ident" => Head(todo).id \in NameSet /\ S \in Ctx
         /\ Head(todo).t = "key" => N \in NodeOpt
         /\ Head(todo).t = "part" => N \in Node /\ N.k \in {"Literal", "StrInterpol"}
         /\ Head(todo).t = "formal" => Head(todo).formal \in PatEntry
         /\ Head(todo).t = "kv" => Head(todo) \in KvItem
         /\ Head(todo).t \in {"inh", "propinh"} => Head(todo).inh \in Inherits
         /\ Head(todo).t \in {"inhid", "thenid"} => Head(todo).id \in NameSet
         /\ Head(todo).t = "keys" => /\ Head(todo).keys \in SUBSET NameSet
                                    /\ Head(todo).categ \in IdentCateg
         /\ Head(todo).t = "trunc" => Head(todo).len \in Nat
         /\ Head(todo).t = "unwith" => Head(todo).d \in Nat
<1>1. Head(todo) \in Item
  BY HeadItem
<1> QED  BY <1>1 DEF Item, Token, TokenKinds, KvItem, N, S

VarEntry == [n : NameSet \cup {DFL_VARS[j].n : j \in DOMAIN DFL_VARS},
             c : IdentCateg]

(* The elements that are no calls: tokens, and what restores the state. *)
NoCall == TokenKinds \cup {"trunc", "unwith"}

(* A handler that replaces its call by a template preserves Inv, also when *)
(* it registers names: vars only grows, and the template ends in a         *)
(* truncation.                                                             *)
LEMMA RegisterInv ==
  ASSUME Inv, todo # <<>>, Head(todo).t \notin NoCall,
         NEW T, Template(T, Len(vars)), todo' = T \o Tail(todo),
         Closed(T) \/ Head(todo).t = "keys",
         NEW V \in Seq([n : NameSet \cup {DFL_VARS[j].n : j \in DOMAIN DFL_VARS},
                       c : IdentCateg]),
         vars' = vars \o V,
         \/ V = <<>> \/ Head(todo).t = "keys"
         \/ \E j \in 1 .. Len(T) : T[j].t = "trunc",
         UNCHANGED <<prog, status, with_stack, acc>>
  PROVE  Inv'
<1>1. /\ todo \in Seq(Item) /\ Head(todo) = todo[1]
      /\ todo[1].t \notin TokenKinds /\ todo[1].t # "trunc" /\ todo[1].t # "unwith"
  BY HeadItem DEF Inv, TypeOK, NoCall
<1>2. Len(vars) \in Nat /\ Len(DFL_VARS) <= Len(vars) /\ Len(DFL_VARS) \in Nat
  BY DEF Inv, TypeOK, BuiltinsKept, DFL_VARS
<1>3. /\ vars' \in Seq([n : NameSet \cup {DFL_VARS[j].n : j \in DOMAIN DFL_VARS},
                        c : IdentCateg])
      /\ Len(vars') \in Nat /\ Len(vars) <= Len(vars')
      /\ V = <<>> => Len(vars') = Len(vars)
      /\ \A j \in 1 .. Len(vars) : vars'[j] = vars[j]
  BY DEF Inv, TypeOK
<1>4. todo' \in Seq(Item)
  BY <1>1, SpliceType
<1>5. Truncs(todo', Len(vars'))
  BY <1>1, <1>2, <1>3, SpliceTruncs DEF Inv
<1>6. Withs(todo', with_stack)
  BY <1>1, SpliceWiths DEF Inv
<1>7. Blocks(todo', acc)
  BY <1>1, SpliceBlocks DEF Inv
<1>8. BuiltinsKept'
  BY <1>2, <1>3 DEF Inv, BuiltinsKept
<1>9. TypeOK' /\ BlockAfterArrow'
  BY <1>3, <1>4 DEF Inv, TypeOK, BlockAfterArrow
<1>10. Restores'
  <2> DEFINE M == Len(vars')
  <2>1. /\ RestoresVars(todo, Len(vars)) /\ RestoresWith(todo, with_stack)
        /\ status = "running"
    BY DEF Inv, Restores
  <2>2. RestoresWith(T \o Tail(todo), with_stack)
    BY <1>1, <2>1, SpliceRestoresWith
  <2>3. M \in Nat /\ (V = <<>> => M = Len(vars))
    BY <1>3
  <2> HIDE DEF M
  <2>4. \/ M = Len(vars) \/ todo[1].t = "keys"
        \/ \E j \in 1 .. Len(T) : T[j].t = "trunc"
    BY <1>1, <2>3
  <2>5. RestoresVars(T \o Tail(todo), M)
    BY <1>1, <1>2, <2>1, <2>3, <2>4, SpliceRestoresVars
  <2> QED  BY <2>1, <2>2, <2>5 DEF Restores, M
<1> QED  BY <1>5, <1>6, <1>7, <1>8, <1>9, <1>10 DEF Inv

LEMMA ReplaceInv ==
  ASSUME Inv, todo # <<>>, Head(todo).t \notin NoCall,
         NEW T, Template(T, Len(vars)), Closed(T), Replace(T)
  PROVE  Inv'
<1>1. /\ todo' = T \o Tail(todo) /\ vars' = vars
      /\ UNCHANGED <<prog, status, with_stack, acc>>
  BY DEF Replace
<1> DEFINE E == <<>>
<1>2. vars' = vars \o E /\ E \in Seq(VarEntry)
  BY <1>1, Tuple0 DEF Inv, TypeOK, VarEntry
<1>3. E = <<>>
  OBVIOUS
<1> HIDE DEF E
<1> QED  BY <1>1, <1>2, <1>3, RegisterInv DEF VarEntry

----------------------------------------------------------------------------
(* One lemma per handler of translate_node: what it puts in place of its   *)
(* call is a template.                                                     *)
PlainHere == Plain(Len(vars))

LEMMA PlainReplaceInv ==
  ASSUME Inv, NEW t, t \notin NoCall, Running(t),
         NEW T \in Seq(PlainHere), Replace(T)
  PROVE  Inv'
<1>1. Template(T, Len(vars)) /\ Closed(T)
  BY PlainTemplate, PlainClosed DEF PlainHere
<1> QED  BY <1>1, ReplaceInv DEF Running

LEMMA Brackets ==
  ASSUME NEW x \in Constructs \ {"block"}, NEW v \in NameSet \cup {""}
  PROVE  /\ Open(x, v) \in PlainHere /\ Close(x, v) \in PlainHere
         /\ <<Open(x, v)>> \in Seq(PlainHere) /\ <<Close(x, v)>> \in Seq(PlainHere)
  BY OpenPlain, Tuple1 DEF PlainHere

LEMMA ApplyInv == ASSUME Inv, Apply PROVE Inv'
<1>1. NodeShape(N) /\ N.k = "Apply" /\ S \in Ctx
  BY VisitNode DEF Apply, Inv
<1>2. N.lambda \in NodeOpt /\ N.value \in NodeOpt
  BY <1>1 DEF NodeShape
<1>3. /\ Open("call", "") \in PlainHere /\ Close("call", "") \in PlainHere
      /\ <<Open("call", "")>> \in Seq(PlainHere)
  BY Brackets DEF Constructs
<1>4. Use(N.lambda, WN) \in Seq(PlainHere)
  BY <1>2, UsePlain, Contexts DEF PlainHere
<1>5. <<Sub(N.value, NN), Close("call", "")>> \in Seq(PlainHere)
  BY <1>2, <1>3, SubPlain, Contexts, Tuple2 DEF PlainHere
<1> DEFINE U == <<Open("call", "")>> \o Use(N.lambda, WN) \o
                <<Sub(N.value, NN), Close("call", "")>>
<1>6. U \in Seq(PlainHere)
  BY <1>3, <1>4, <1>5, Concat2
<1>7. Wrap(Incoming("Need", "Need"), U) \in Seq(PlainHere)
  BY <1>6, WrapPlain DEF PlainHere, Incoming
<1>8. Running("node") /\ Replace(Wrap(Incoming("Need", "Need"), U))
  BY DEF Apply, Visit
<1> QED  BY <1>7, <1>8, PlainReplaceInv DEF TokenKinds, NoCall

LEMMA AssertInv == ASSUME Inv, Assert PROVE Inv'
<1>1. NodeShape(N) /\ N.k = "Assert" /\ S \in Ctx
  BY VisitNode DEF Assert, Inv
<1>2. N.condition \in NodeOpt /\ N.body \in NodeOpt
  BY <1>1 DEF NodeShape
<1> DEFINE R == <<Open("await", ""), Open("call", ""), Sub(N.condition, NN),
                  Close("call", ""), Close("await", ""), Sub(N.body, WN),
                  Close("block", "")>>
<1>3. /\ Open("await", "") \in PlainHere /\ Open("call", "") \in PlainHere
      /\ Close("await", "") \in PlainHere /\ Close("call", "") \in PlainHere
      /\ Close("block", "") \in PlainHere
  BY OpenPlain, ClosePlain DEF PlainHere, Constructs
<1>4. Sub(N.condition, NN) \in PlainHere /\ Sub(N.body, WN) \in PlainHere
  BY <1>2, SubPlain, Contexts DEF PlainHere
<1>5. R \in Seq(PlainHere)
  BY <1>3, <1>4, Tuple7
<1>a. Template(R, Len(vars)) /\ Closed(R)
  BY <1>5, PlainTemplate, PlainClosed DEF PlainHere
<1> HIDE DEF R
<1>6. /\ Template(Wrap(Incoming("Flush", "Force"), <<Block>> \o R), Len(vars))
      /\ Closed(Wrap(Incoming("Flush", "Force"), <<Block>> \o R))
  BY <1>1, <1>a, WrapBlock DEF Incoming
<1>7. Running("node") /\ Replace(Wrap(Incoming("Flush", "Force"), <<Block>> \o R))
  BY DEF Assert, Visit, Block, R
<1> QED  BY <1>6, <1>7, ReplaceInv DEF Running, TokenKinds, NoCall

LEMMA BinOpInv == ASSUME Inv, BinOp PROVE Inv'
<1>1. NodeShape(N) /\ N.k = "BinOp" /\ S \in Ctx
  BY VisitNode DEF BinOp, Inv
<1>2. N.lhs \in NodeOpt /\ N.rhs \in NodeOpt
  BY <1>1 DEF NodeShape
<1> DEFINE U == <<Open("call", ""), Sub(N.lhs, NN), Sub(N.rhs, NN), Close("call", "")>>
<1>3. U \in Seq(PlainHere)
  BY <1>2, Brackets, SubPlain, Contexts, Tuple4 DEF PlainHere, Constructs
<1>4. Wrap(Incoming("Need", "Flush"), U) \in Seq(PlainHere)
  BY <1>3, WrapPlain DEF PlainHere, Incoming
<1>5. Running("node") /\ Replace(Wrap(Incoming("Need", "Flush"), U))
  BY DEF BinOp, Visit
<1> QED  BY <1>4, <1>5, PlainReplaceInv DEF TokenKinds, NoCall

LEMMA IsSetInv == ASSUME Inv, IsSet PROVE Inv'
<1>1. NodeShape(N) /\ N.k = "BinOp" /\ S \in Ctx
  BY VisitNode DEF IsSet, Inv
<1>2. N.lhs \in NodeOpt /\ N.rhs \in NodeOpt
  BY <1>1 DEF NodeShape
<1> DEFINE A == <<Open("isset", "")>>
           B == <<KeyEl(N.rhs), Close("isset", "")>>
<1>3. A \in Seq(PlainHere) /\ Use(N.lhs, WN) \in Seq(PlainHere)
  BY <1>2, Brackets, UsePlain, Contexts DEF PlainHere, Constructs
<1>4. B \in Seq(PlainHere)
  BY <1>2, Brackets, KeyPlain, Tuple2 DEF PlainHere, Constructs
<1>5. A \o Use(N.lhs, WN) \o B \in Seq(PlainHere)
  BY <1>3, <1>4, Concat2
<1>6. Running("node") /\ Replace(A \o Use(N.lhs, WN) \o B)
  BY DEF IsSet, Visit
<1> QED  BY <1>5, <1>6, PlainReplaceInv DEF TokenKinds, NoCall

LEMMA TransparentInv == ASSUME Inv, Transparent PROVE Inv'
<1>1. NodeShape(N) /\ N.k \in {"Dynamic", "Paren", "Root"} /\ S \in Ctx
  BY VisitNode DEF Transparent, Inv
<1>2. N.inner \in NodeOpt
  BY <1>1 DEF NodeShape
<1>3. <<Sub(N.inner, S)>> \in Seq(PlainHere)
  BY <1>1, <1>2, SubPlain, Tuple1 DEF PlainHere
<1>4. Running("node") /\ Replace(<<Sub(N.inner, S)>>)
  BY DEF Transparent, Visit
<1> QED  BY <1>3, <1>4, PlainReplaceInv DEF TokenKinds, NoCall

LEMMA IdentInv == ASSUME Inv, Ident PROVE Inv'
<1>1. NodeShape(N) /\ N.k = "Ident" /\ S \in Ctx
  BY VisitNode DEF Ident, Inv
<1>2. N.id \in NameSet
  BY <1>1 DEF NodeShape
<1>3. <<IdentRef(N.id, S)>> \in Seq(PlainHere)
  BY <1>1, <1>2, IdentPlain, Tuple1 DEF PlainHere
<1>4. Running("node") /\ Replace(<<IdentRef(N.id, S)>>)
  BY DEF Ident, Visit
<1> QED  BY <1>3, <1>4, PlainReplaceInv DEF TokenKinds, NoCall

LEMMA IfElseInv == ASSUME Inv, IfElse PROVE Inv'
<1>1. NodeShape(N) /\ N.k = "IfElse" /\ S \in Ctx
  BY VisitNode DEF IfElse, Inv
<1>2. N.condition \in NodeOpt /\ N.body \in NodeOpt /\ N.else_body \in NodeOpt
  BY <1>1 DEF NodeShape
<1> DEFINE L == Incoming("Flush", "Flush")
           A == <<Open("if", "")>>
           B == <<Sub(N.body, L.sctx), Sub(N.else_body, L.sctx), Close("if", "")>>
<1>3. L.sctx \in Ctx
  BY <1>1, LazyCtx DEF Incoming
<1>4. A \in Seq(PlainHere) /\ Use(N.condition, WN) \in Seq(PlainHere)
  BY <1>2, Brackets, UsePlain, Contexts DEF PlainHere, Constructs
<1>5. Close("if", "") \in PlainHere
  BY Brackets DEF Constructs
<1>6. Sub(N.body, L.sctx) \in PlainHere /\ Sub(N.else_body, L.sctx) \in PlainHere
  BY <1>2, <1>3, SubPlain DEF PlainHere
<1>7. B \in Seq(PlainHere)
  BY <1>5, <1>6, Tuple3
<1>8. A \o Use(N.condition, WN) \o B \in Seq(PlainHere)
  BY <1>4, <1>7, Concat2
<1>9. Wrap(L, A \o Use(N.condition, WN) \o B) \in Seq(PlainHere)
  BY <1>8, WrapPlain DEF PlainHere, Incoming
<1>10. Running("node") /\ Replace(Wrap(L, A \o Use(N.condition, WN) \o B))
  BY DEF IfElse, Visit
<1> QED  BY <1>9, <1>10, PlainReplaceInv DEF TokenKinds, NoCall

LEMMA Tuple5 ==
  ASSUME NEW X, NEW a \in X, NEW b \in X, NEW c \in X, NEW d \in X, NEW e \in X
  PROVE  <<a, b, c, d, e>> \in Seq(X)
  OBVIOUS

LEMMA LambdaIdentInv == ASSUME Inv, LambdaIdent PROVE Inv'
<1>1. N \in Node /\ NodeShape(N) /\ N.k = "Lambda" /\ S \in Ctx
  BY VisitNode DEF LambdaIdent, Inv
<1>2. N.arg \in NodeOpt /\ N.body \in NodeOpt /\ N.arg.k = "Ident"
  BY <1>1 DEF NodeShape, LambdaIdent
<1>3. N.arg \in Node
  BY <1>2 DEF NodeOpt, None
<1>4. N.arg.id \in NameSet
  BY <1>2, <1>3, NodesAssumption DEF NodeShape
<1> DEFINE T == <<Open("lambda", ""), Decl(N.arg.id), Sub(N.body, WN),
                  Truncate(Len(vars)), Close("lambda", "")>>
           V == <<LambdaArg(N.arg.id)>>
<1>5. Len(vars) \in Nat /\ vars \in Seq(VarEntry)
  BY DEF Inv, TypeOK, VarEntry
<1>6. Open("lambda", "") \in PlainHere /\ Close("lambda", "") \in PlainHere
  BY Brackets DEF Constructs
<1>7. Decl(N.arg.id) \in PlainHere
  BY <1>4, LeafPlain DEF PlainHere, Leaves
<1>8. Sub(N.body, WN) \in PlainHere /\ Truncate(Len(vars)) \in PlainHere
  BY <1>2, <1>5, SubPlain, TruncatePlain, Contexts DEF PlainHere
<1>9. T \in Seq(PlainHere)
  BY <1>6, <1>7, <1>8, Tuple5
<1>10. /\ Template(T, Len(vars)) /\ Closed(T)
       /\ \E j \in 1 .. Len(T) : T[j].t = "trunc"
  <2>1. Len(T) = 5 /\ T[4].t = "trunc"
    BY DEF Truncate
  <2> HIDE DEF T
  <2> QED  BY <1>9, <2>1, PlainTemplate, PlainClosed DEF PlainHere
<1>11. LambdaArg(N.arg.id) \in VarEntry
  BY <1>4 DEF LambdaArg, VarEntry, IdentCateg
<1>12. V \in Seq(VarEntry) /\ vars' = vars \o V
  BY <1>5, <1>11, AppendIsConcat, Tuple1 DEF LambdaIdent
<1>13. /\ todo # <<>> /\ Head(todo).t \notin NoCall /\ todo' = T \o Tail(todo)
       /\ UNCHANGED <<prog, status, with_stack, acc>>
  BY DEF LambdaIdent, Visit, Running, TokenKinds, NoCall
<1> HIDE DEF T, V
<1> QED  BY <1>10, <1>12, <1>13, RegisterInv DEF VarEntry

LEMMA LambdaPatternInv == ASSUME Inv, LambdaPattern PROVE Inv'
<1> DEFINE p == N.arg
           at == IF p.at = "" THEN <<>> ELSE <<p.at>>
           A == [j \in DOMAIN at |-> LambdaArg(at[j])]
           B == [j \in DOMAIN p.formals |-> LambdaArg(p.formals[j].name)]
           T1 == <<Open("lambda", "")>>
           T2 == [j \in DOMAIN at |-> Decl(at[j])]
           T3 == <<Open("await", ""), Close("await", "")>>
           T4 == [j \in DOMAIN p.formals |-> Formal(p.formals[j])]
           T5 == <<Sub(N.body, WN), Truncate(Len(vars)), Close("lambda", "")>>
           T == T1 \o T2 \o T3 \o T4 \o T5
<1>1. N \in Node /\ NodeShape(N) /\ N.k = "Lambda" /\ S \in Ctx
  BY VisitNode DEF LambdaPattern, Inv
<1>2. p \in NodeOpt /\ N.body \in NodeOpt /\ p.k = "Pattern" /\ ~BadArg(p)
  BY <1>1 DEF NodeShape, LambdaPattern, Visit, Malformed, N
<1>3. p \in Node
  BY <1>2 DEF NodeOpt, None
<1>4. p.at \in NameSet \cup {""} /\ p.formals \in Seq(PatEntry)
  BY <1>2, <1>3, NodesAssumption DEF NodeShape
<1>5. \A j \in DOMAIN p.formals :
        p.formals[j] \in PatEntry /\ p.formals[j].name \in NameSet
  <2>1. \A j \in DOMAIN p.formals : p.formals[j] \in PatEntry
    BY <1>4, Element
  <2> QED  BY <1>2, <2>1 DEF BadArg, PatEntry
<1>6. at \in Seq(NameSet)
  BY <1>4, Tuple0, Tuple1
<1>7. Len(vars) \in Nat /\ vars \in Seq(VarEntry)
  BY DEF Inv, TypeOK, VarEntry
<1>8. \A i \in NameSet : LambdaArg(i) \in VarEntry
  BY DEF LambdaArg, VarEntry, IdentCateg
<1>9. \A i \in NameSet : Decl(i) \in PlainHere
  BY LeafPlain DEF PlainHere, Leaves
<1>10. \A j \in DOMAIN at : at[j] \in NameSet
  <2> HIDE DEF at
  <2> QED  BY <1>6, Element
<1>11. A \in [DOMAIN at -> VarEntry] /\ T2 \in [DOMAIN at -> PlainHere]
  BY <1>8, <1>9, <1>10
<1>12. A \in Seq(VarEntry) /\ T2 \in Seq(PlainHere)
  <2> HIDE DEF at, A, T2
  <2> QED  BY <1>6, <1>11, MapSeq
<1>13. B \in [DOMAIN p.formals -> VarEntry] /\ T4 \in [DOMAIN p.formals -> PlainHere]
  BY <1>5, <1>8, FormalPlain DEF PlainHere
<1>14. B \in Seq(VarEntry) /\ T4 \in Seq(PlainHere)
  <2> HIDE DEF B, T4
  <2> QED  BY <1>4, <1>13, MapSeq
<1>15. T1 \in Seq(PlainHere) /\ T3 \in Seq(PlainHere)
  BY Brackets, Tuple2 DEF Constructs
<1>16. T5 \in Seq(PlainHere)
  <2>1. Sub(N.body, WN) \in PlainHere /\ Truncate(Len(vars)) \in PlainHere
    BY <1>2, <1>7, SubPlain, TruncatePlain, Contexts DEF PlainHere
  <2> QED  BY <2>1, Brackets, Tuple3 DEF Constructs
<1>a. Len(T5) = 3 /\ T5[2].t = "trunc"
  BY DEF Truncate
<1> HIDE DEF A, B, T1, T2, T3, T4, T5
<1>b. T1 \o T2 \o T3 \o T4 \in Seq(PlainHere)
  BY <1>12, <1>14, <1>15, Concat2
<1>17. T \in Seq(PlainHere)
  BY <1>b, <1>16, Concat2
<1>18. /\ Template(T, Len(vars)) /\ Closed(T)
       /\ \E j \in 1 .. Len(T) : T[j].t = "trunc"
  <2> DEFINE P == T1 \o T2 \o T3 \o T4
  <2>1. P \in Seq(PlainHere) /\ T = P \o T5
    BY <1>b
  <2> HIDE DEF P, T
  <2>2. /\ Len(T) = Len(P) + Len(T5) /\ Len(P) \in Nat
        /\ T[Len(P) + 2] = T5[2]
    <3>1. /\ Len(P \o T5) = Len(P) + Len(T5)
          /\ \A i \in 1 .. (Len(P) + Len(T5)) :
               (P \o T5)[i] = IF i <= Len(P) THEN P[i] ELSE T5[i - Len(P)]
      BY <1>16, <2>1, ConcatProperties
    <3>2. Len(P) \in Nat /\ Len(T5) = 3
      BY <1>a, <2>1
    <3>3. Len(P) + 2 \in 1 .. (Len(P) + Len(T5)) /\ ~(Len(P) + 2 <= Len(P))
          /\ Len(P) + 2 - Len(P) = 2
      BY <3>2
    <3> QED  BY <2>1, <3>1, <3>2, <3>3
  <2>3. Len(P) + 2 \in 1 .. Len(T)
    BY <1>a, <2>2
  <2> QED  BY <1>17, <1>a, <2>2, <2>3, PlainTemplate, PlainClosed DEF PlainHere
<1>19. A \o B \in Seq(VarEntry)
  BY <1>12, <1>14, Concat2
<1>20. vars' = (vars \o A) \o B
  BY DEF LambdaPattern, A, B
<1>21. vars' = vars \o (A \o B)
  <2>1. (vars \o A) \o B = vars \o (A \o B)
    BY <1>7, <1>12, <1>14, ConcatAssociative, SMTT(20)
  <2> QED  BY <1>20, <2>1
<1>22. /\ todo # <<>> /\ Head(todo).t \notin NoCall
       /\ UNCHANGED <<prog, status, with_stack, acc>>
  BY DEF LambdaPattern, Visit, Running, TokenKinds, NoCall
<1>23. todo' = T \o Tail(todo)
  BY DEF LambdaPattern, T1, T2, T3, T4, T5
<1> HIDE DEF T
<1> QED  BY <1>18, <1>19, <1>21, <1>22, <1>23, RegisterInv DEF VarEntry

LEMMA PatternFormalInv == ASSUME Inv, PatternFormal PROVE Inv'
<1> DEFINE f == Head(todo).formal
           A == <<Decl(f.name), Open("set", f.name)>>
           B == IF f.default = None THEN <<>> ELSE <<Sub(f.default, NW)>>
           C == <<Close("set", f.name)>>
<1>1. f \in PatEntry
  BY HeadFields DEF PatternFormal, Running, Inv
<1>2. f.name \in NameSet \cup {""} /\ f.default \in NodeOpt
  BY <1>1 DEF PatEntry
<1>3. Decl(f.name) \in PlainHere
  BY <1>2, LeafPlain DEF PlainHere, Leaves
<1>4. A \in Seq(PlainHere) /\ C \in Seq(PlainHere)
  BY <1>2, <1>3, Brackets, Tuple2 DEF Constructs
<1>5. Sub(f.default, NW) \in PlainHere
  BY <1>2, SubPlain, Contexts DEF PlainHere
<1>6. B \in Seq(PlainHere)
  BY <1>5, Tuple0, Tuple1
<1>7. A \o B \o C \in Seq(PlainHere)
  BY <1>4, <1>6, Concat2
<1>8. Running("formal") /\ Replace(A \o B \o C)
  BY DEF PatternFormal
<1> QED  BY <1>7, <1>8, PlainReplaceInv DEF TokenKinds, NoCall

----------------------------------------------------------------------------
(* translate_let: each of its four forms is a template. *)
LEMMA EntryFields ==
  ASSUME NEW e \in Entry
  PROVE  e.key \in Seq(Node) /\ e.value \in NodeOpt
  BY DEF Entry

LEMMA InhsPlain ==
  ASSUME NEW m, NEW q \in Seq(Inherits)
  PROVE  /\ [j \in DOMAIN q |-> Inh(q[j])] \in Seq(Plain(m))
         /\ [j \in DOMAIN q |-> PropInh(q[j])] \in Seq(Plain(m))
<1> DEFINE f == [j \in DOMAIN q |-> Inh(q[j])]
           g == [j \in DOMAIN q |-> PropInh(q[j])]
<1>1. \A j \in DOMAIN q : Inh(q[j]) \in Plain(m) /\ PropInh(q[j]) \in Plain(m)
  BY Element, InhPlain
<1>2. f \in [DOMAIN q -> Plain(m)] /\ g \in [DOMAIN q -> Plain(m)]
  BY <1>1
<1> HIDE DEF f, g
<1>3. f \in Seq(Plain(m)) /\ g \in Seq(Plain(m))
  BY <1>2, MapSeq
<1> QED  BY <1>3 DEF f, g

LEMMA KvsPlain ==
  ASSUME NEW m, NEW q \in Seq(Entry), NEW scope \in Scopes,
         scope = NO_SCOPE => \A j \in DOMAIN q :
           q[j].value # None /\ q[j].key # <<>> /\ q[j].key[1].k = "Ident"
  PROVE  [j \in DOMAIN q |-> Kv(q[j], scope)] \in Seq(Plain(m))
<1> DEFINE f == [j \in DOMAIN q |-> Kv(q[j], scope)]
<1>1. \A j \in DOMAIN q : q[j] \in Entry
  BY Element
<1>2. \A j \in DOMAIN q : Kv(q[j], scope) \in Plain(m)
  BY <1>1, KvPlain
<1>3. f \in [DOMAIN q -> Plain(m)]
  BY <1>2
<1> HIDE DEF f
<1>4. f \in Seq(Plain(m))
  BY <1>3, MapSeq
<1> QED  BY <1>4 DEF f

LEMMA LetLiteralPlain ==
  ASSUME NEW m, NEW n, n.entries \in Seq(Entry), n.inherits \in Seq(Inherits),
         NEW s
  PROVE  LetLiteral(n, s) \in Seq(Plain(m))
<1> DEFINE A == <<Open("obj", "")>>
           B == [j \in DOMAIN n.entries |-> Sub(n.entries[j].value, NW)]
           C == [j \in DOMAIN n.inherits |-> PropInh(n.inherits[j])]
           D == <<Close("obj", "")>>
<1>1. A \in Seq(Plain(m)) /\ D \in Seq(Plain(m))
  BY OpenPlain, Tuple1 DEF Constructs
<1>2. \A j \in DOMAIN n.entries : n.entries[j].value \in NodeOpt
  BY Element, EntryFields
<1>3. B \in [DOMAIN n.entries -> Plain(m)]
  BY <1>2, SubPlain, Contexts
<1>4. C \in Seq(Plain(m))
  BY InhsPlain
<1> HIDE DEF A, B, C, D
<1>5. B \in Seq(Plain(m))
  BY <1>3, MapSeq
<1>6. A \o B \o C \o D \in Seq(Plain(m))
  BY <1>1, <1>4, <1>5, Concat2
<1> QED  BY <1>6, WrapPlain DEF LetLiteral, A, B, C, D

LEMMA LetVariablesTemplate ==
  ASSUME NEW m \in Nat, NEW n, n.entries \in Seq(Entry),
         n.inherits \in Seq(Inherits), NEW s \in Ctx, NEW body \in NodeOpt,
         NEW scope, IsLetVars(n, body, scope)
  PROVE  /\ Template(LetVariables(n, body, s, m), m)
         /\ Closed(LetVariables(n, body, s, m))
<1> DEFINE A == <<Keys(getkeys(n), "LetLetVar")>>
           B == [j \in DOMAIN n.entries |-> Kv(n.entries[j], NO_SCOPE)]
           C == [j \in DOMAIN n.inherits |-> Inh(n.inherits[j])]
           D == <<Sub(body, WN), Close("block", ""), Truncate(m)>>
<1>1. getkeys(n) \in SUBSET NameSet
  BY DEF getkeys
<1>3. Template(A, m)
  BY <1>1, KeysTemplate DEF IdentCateg
<1>4. B \in Seq(Plain(m))
  BY KvsPlain DEF IsLetVars, Scopes
<1>5. C \in Seq(Plain(m))
  BY InhsPlain
<1>6. D \in Seq(Plain(m))
  BY SubPlain, ClosePlain, TruncatePlain, Contexts, Tuple3 DEF Constructs
<1>7. Len(D) >= 1 /\ D[Len(D)].t = "trunc"
  BY DEF Truncate
<1> HIDE DEF A, B, C, D
<1>8. Template(B, m) /\ Template(C, m) /\ Template(D, m)
  BY <1>4, <1>5, <1>6, PlainTemplate
<1>9. Template(A \o B \o C, m)
  BY <1>3, <1>8, ConcatTemplate
<1>10. Template(A \o B \o C \o D, m) /\ Closed(A \o B \o C \o D)
  BY <1>7, <1>8, <1>9, ConcatTemplate, LastClosed DEF Template
<1> DEFINE R == A \o B \o C \o D
<1> HIDE DEF R
<1>11. /\ Template(Wrap(lazyness_incoming(s, "Forward", "Force", "Front"),
                        <<Block>> \o R), m)
       /\ Closed(Wrap(lazyness_incoming(s, "Forward", "Force", "Front"),
                      <<Block>> \o R))
  BY <1>10, WrapBlock DEF R
<1> QED  BY <1>11 DEF LetVariables, Block, A, B, C, D, R

LEMMA LetScopeTemplate ==
  ASSUME NEW m \in Nat, NEW n, n.entries \in Seq(Entry),
         n.inherits \in Seq(Inherits), NEW s,
         NEW body \in NodeOpt \cup {ExtractScope},
         NEW scope \in {NIX_IN_SCOPE, ATTRS_SCOPE}
  PROVE  /\ Template(LetScope(n, body, scope, s, m), m)
         /\ Closed(LetScope(n, body, scope, s, m))
<1> DEFINE A == <<Open(scope, "")>>
           K == IF scope = NIX_IN_SCOPE
                THEN <<Keys(getkeys(n), "LetInScopeVar")>> ELSE <<>>
           B == [j \in DOMAIN n.entries |-> Kv(n.entries[j], scope)]
           C == [j \in DOMAIN n.inherits |-> Inh(n.inherits[j])]
           E == IF body = ExtractScope THEN <<Lit("extract", "")>>
                ELSE <<Sub(body, WN)>>
           D == <<Close(scope, ""), Truncate(m)>>
<1>0. scope \in Constructs \ {"block"} /\ scope \in Scopes /\ scope # NO_SCOPE
  BY DEF Constructs, Scopes, NIX_IN_SCOPE, ATTRS_SCOPE, NO_SCOPE
<1>1. getkeys(n) \in SUBSET NameSet
  BY DEF getkeys
<1>2. Template(<<>>, m)
  BY PlainTemplate, Tuple0
<1>3. Template(K, m)
  BY <1>1, <1>2, KeysTemplate DEF IdentCateg
<1>4. B \in Seq(Plain(m))
  BY <1>0, KvsPlain
<1>5. C \in Seq(Plain(m))
  BY InhsPlain
<1>6. Open(scope, "") \in Plain(m) /\ Close(scope, "") \in Plain(m)
  BY <1>0, OpenPlain
<1>7. A \in Seq(Plain(m)) /\ D \in Seq(Plain(m))
  BY <1>6, TruncatePlain, Tuple1, Tuple2
<1>8. Lit("extract", "") \in Plain(m) /\ (body # ExtractScope => Sub(body, WN) \in Plain(m))
  BY LeafPlain, SubPlain, Contexts DEF Leaves
<1>9. E \in Seq(Plain(m))
  BY <1>8, Tuple1
<1>a. Len(D) >= 1 /\ D[Len(D)].t = "trunc"
  BY DEF Truncate
<1> HIDE DEF A, K, B, C, E, D
<1>10. /\ Template(A, m) /\ Template(B, m) /\ Template(C, m)
       /\ Template(E, m) /\ Template(D, m)
  BY <1>4, <1>5, <1>7, <1>9, PlainTemplate
<1>11. Template(A \o K \o B \o C \o E, m)
  BY <1>3, <1>10, ConcatTemplate
<1> DEFINE R == A \o K \o B \o C \o E \o D
<1>12. Template(R, m) /\ Closed(R)
  BY <1>10, <1>11, <1>a, ConcatTemplate, LastClosed DEF Template
<1> HIDE DEF R
<1>13. /\ Template(Wrap(lazyness_incoming(s, "Need", "Forward", "Front"), R), m)
       /\ Closed(Wrap(lazyness_incoming(s, "Need", "Forward", "Front"), R))
  BY <1>12, WrapTemplate
<1> QED  BY <1>13 DEF LetScope, A, K, B, C, E, D, R

LEMMA LetTemplate ==
  ASSUME NEW m \in Nat, NEW n, n.entries \in Seq(Entry),
         n.inherits \in Seq(Inherits), NEW s \in Ctx,
         NEW body \in NodeOpt \cup {ExtractScope},
         NEW scope \in {NIX_IN_SCOPE, ATTRS_SCOPE}
  PROVE  /\ Template(translate_let(n, body, scope, s, m), m)
         /\ Closed(translate_let(n, body, scope, s, m))
<1> DEFINE Good(T) == Template(T, m) /\ Closed(T)
<1>0. \A T \in Seq(Plain(m)) : Good(T)
  BY PlainTemplate, PlainClosed
<1>1. Good(<<Lit("empty", "")>>)
  BY <1>0, LeafPlain, Tuple1 DEF Leaves
<1>2. body # ExtractScope => Good(<<Sub(body, s)>>)
  BY <1>0, SubPlain, Tuple1
<1>3. Good(LetLiteral(n, s))
  BY <1>0, LetLiteralPlain
<1>4. IsLetVars(n, body, scope) => Good(LetVariables(n, body, s, m))
  BY LetVariablesTemplate DEF IsLetVars
<1>5. Good(LetScope(n, body, scope, s, m))
  BY LetScopeTemplate
<1> HIDE DEF Good
<1>6. Good(translate_let(n, body, scope, s, m))
  BY <1>1, <1>2, <1>3, <1>4, <1>5 DEF translate_let
<1> QED  BY <1>6 DEF Good

LEMMA LetInv ==
  ASSUME Inv, Running("node"), NEW n, n.entries \in Seq(Entry),
         n.inherits \in Seq(Inherits), NEW s \in Ctx,
         NEW body \in NodeOpt \cup {ExtractScope},
         NEW scope \in {NIX_IN_SCOPE, ATTRS_SCOPE},
         Replace(translate_let(n, body, scope, s, Len(vars)))
  PROVE  Inv'
<1>1. Len(vars) \in Nat
  BY DEF Inv, TypeOK
<1>2. /\ Template(translate_let(n, body, scope, s, Len(vars)), Len(vars))
      /\ Closed(translate_let(n, body, scope, s, Len(vars)))
  BY <1>1, LetTemplate
<1> QED  BY <1>2, ReplaceInv DEF Running, TokenKinds, NoCall

LEMMA AttrSetInv == ASSUME Inv, AttrSet PROVE Inv'
<1>1. NodeShape(N) /\ N.k = "AttrSet" /\ S \in Ctx
  BY VisitNode DEF AttrSet, Inv
<1>2. N.entries \in Seq(Entry) /\ N.inherits \in Seq(Inherits)
  BY <1>1 DEF NodeShape
<1> DEFINE scope == IF N.recursive THEN NIX_IN_SCOPE ELSE ATTRS_SCOPE
<1>3. Running("node") /\ Replace(translate_let(N, ExtractScope, scope, S, Len(vars)))
  BY DEF AttrSet, Visit
<1>4. scope \in {NIX_IN_SCOPE, ATTRS_SCOPE}
  OBVIOUS
<1> HIDE DEF scope
<1> QED  BY <1>1, <1>2, <1>3, <1>4, LetInv

LEMMA LetInInv == ASSUME Inv, LetIn PROVE Inv'
<1>1. NodeShape(N) /\ N.k = "LetIn" /\ S \in Ctx
  BY VisitNode DEF LetIn, Inv
<1>2. N.entries \in Seq(Entry) /\ N.inherits \in Seq(Inherits) /\ N.body \in NodeOpt
  BY <1>1 DEF NodeShape
<1>3. Running("node") /\ Replace(translate_let(N, N.body, NIX_IN_SCOPE, S, Len(vars)))
  BY DEF LetIn, Visit
<1> QED  BY <1>1, <1>2, <1>3, LetInv

LEMMA LegacyLetInv == ASSUME Inv, LegacyLet PROVE Inv'
<1>1. NodeShape(N) /\ N.k = "LegacyLet" /\ S \in Ctx
  BY VisitNode DEF LegacyLet, Inv
<1>2. N.entries \in Seq(Entry) /\ N.inherits \in Seq(Inherits)
  BY <1>1 DEF NodeShape
<1>3. PICK j \in DOMAIN N.entries :
        Replace(translate_let(N, N.entries[j].value, NIX_IN_SCOPE, S, Len(vars)))
  BY DEF LegacyLet
<1>4. N.entries[j].value \in NodeOpt
  BY <1>2, Element, EntryFields
<1>5. Running("node")
  BY DEF LegacyLet, Visit
<1> QED  BY <1>1, <1>2, <1>3, <1>4, <1>5, LetInv

----------------------------------------------------------------------------
(* The calls that translate_let leaves on the stack. *)
LEMMA AbortInv ==
  ASSUME Inv, NEW s \in {"err", "panic"}, Abort(s)
  PROVE  Inv'
<1>1. /\ todo' = <<>> /\ status' = s
      /\ prog' = prog /\ vars' = vars /\ with_stack' = with_stack /\ acc' = acc
  BY DEF Abort
<1>2. TypeOK' /\ BuiltinsKept' /\ BlockAfterArrow'
  BY <1>1, Tuple0 DEF Inv, TypeOK, BuiltinsKept, BlockAfterArrow
<1>3. Len(todo') = 0
  BY <1>1
<1>4. Truncs(todo', Len(vars')) /\ Withs(todo', with_stack') /\ Blocks(todo', acc')
  BY <1>3 DEF Truncs, Withs, Blocks
<1>5. Restores'
  BY <1>1 DEF Restores
<1> QED  BY <1>2, <1>4, <1>5 DEF Inv

LEMMA RegisterKeyInv == ASSUME Inv, RegisterKey PROVE Inv'
<1> DEFINE ks == Head(todo).keys
           c  == Head(todo).categ
<1>1. /\ Running("keys") /\ todo # <<>> /\ Head(todo).t = "keys"
      /\ Head(todo).t \notin NoCall
  BY DEF RegisterKey, Running, TokenKinds, NoCall
<1>2. ks \in SUBSET NameSet /\ c \in IdentCateg
  BY <1>1, HeadFields DEF Running, Inv
<1>3. CASE Replace(<<>>)
  BY <1>1, <1>3, Tuple0, PlainReplaceInv DEF TokenKinds, NoCall
<1>4. ASSUME NEW j \in DOMAIN Names,
             vars' = Append(vars, [n |-> Names[j], c |-> c]),
             todo' = (IF c = "LetLetVar" THEN <<Decl(Names[j])>> ELSE <<>>)
                        \o <<Keys(ks \ {Names[j]}, c)>> \o Tail(todo),
             UNCHANGED <<prog, status, with_stack, acc>>
      PROVE  Inv'
  <2> DEFINE A == IF c = "LetLetVar" THEN <<Decl(Names[j])>> ELSE <<>>
             B == <<Keys(ks \ {Names[j]}, c)>>
             v == [n |-> Names[j], c |-> c]
  <2>1. Names[j] \in NameSet
    BY <1>4 DEF NameSet
  <2>2. Decl(Names[j]) \in PlainHere
    BY <2>1, LeafPlain DEF PlainHere, Leaves
  <2>3. ks \ {Names[j]} \in SUBSET NameSet
    BY <1>2
  <2>4. A \in Seq(PlainHere)
    BY <2>2, Tuple0, Tuple1
  <2>5. Template(A, Len(vars)) /\ Template(B, Len(vars))
    BY <1>2, <2>3, <2>4, KeysTemplate, PlainTemplate DEF PlainHere
  <2>6. v \in VarEntry
    BY <1>2, <2>1 DEF VarEntry
  <2> HIDE DEF A, B, v
  <2>7. Template(A \o B, Len(vars))
    BY <2>5, ConcatTemplate
  <2>8. vars \in Seq(VarEntry)
    BY DEF Inv, TypeOK, VarEntry
  <2>9. <<v>> \in Seq(VarEntry) /\ vars' = vars \o <<v>>
    BY <1>4, <2>6, <2>8, AppendIsConcat, Tuple1 DEF v
  <2>10. todo' = (A \o B) \o Tail(todo)
    BY <1>4 DEF A, B
  <2> QED  BY <1>1, <1>4, <2>7, <2>9, <2>10, RegisterInv DEF VarEntry
<1> QED  BY <1>3, <1>4 DEF RegisterKey

(* Taking the head off the stack, be it a token, a truncation or the end   *)
(* of a `with'.                                                            *)
LEMMA TailRestores ==
  ASSUME NEW td \in Seq(Item), td # <<>>, NEW m \in Nat, NEW w \in Nat,
         RestoresVars(td, m), RestoresWith(td, w),
         NEW M \in Nat, M <= m, td[1].t = "trunc" => td[1].len = M,
         NEW W \in Nat, W <= w, td[1].t = "unwith" => td[1].d = W
  PROVE  RestoresVars(Tail(td), M) /\ RestoresWith(Tail(td), W)
<1> DEFINE U == Tail(td)
           L == Len(DFL_VARS)
<1>1. /\ Len(U) = Len(td) - 1 /\ Len(td) \in Nat /\ Len(td) >= 1
      /\ \A j \in 2 .. Len(td) : j - 1 \in 1 .. Len(U) /\ U[j - 1] = td[j]
      /\ \A j \in 1 .. Len(U) : j + 1 \in 2 .. Len(td) /\ U[j] = td[j + 1]
  BY HeadTailProperties, EmptySeq
<1>2. L \in Nat
  BY DEF DFL_VARS
<1> HIDE DEF U, L
<1>3. ASSUME M > L
      PROVE  \E j \in 1 .. Len(U) : Cuts(U[j])
  <2>1. PICK j \in 1 .. Len(td) : Cuts(td[j])
    BY <1>2, <1>3 DEF RestoresVars, L
  <2>2. ~Cuts(td[1])
    BY <1>2, <1>3 DEF Cuts, L
  <2>3. j \in 2 .. Len(td)
    BY <1>1, <2>1, <2>2
  <2> QED  BY <1>1, <2>1, <2>3
<1>4. ASSUME NEW i \in 1 .. Len(U), U[i].t = "keys"
      PROVE  \E j \in (i + 1) .. Len(U) : Cuts(U[j])
  <2>1. i + 1 \in 1 .. Len(td) /\ td[i + 1].t = "keys"
    BY <1>1, <1>4
  <2>2. PICK j \in (i + 1 + 1) .. Len(td) : Cuts(td[j])
    BY <2>1 DEF RestoresVars
  <2>3. j \in 2 .. Len(td) /\ j - 1 \in (i + 1) .. Len(U)
    BY <1>1, <2>1, <2>2
  <2> QED  BY <1>1, <2>2, <2>3
<1>5. ASSUME NEW e \in 0 .. (W - 1)
      PROVE  \E j \in 1 .. Len(U) : U[j].t = "unwith" /\ U[j].d = e
  <2>1. PICK j \in 1 .. Len(td) : td[j].t = "unwith" /\ td[j].d = e
    BY DEF RestoresWith
  <2>2. j # 1
    BY <2>1
  <2>3. j \in 2 .. Len(td)
    BY <1>1, <2>1, <2>2
  <2> QED  BY <1>1, <2>1, <2>3
<1> QED  BY <1>3, <1>4, <1>5 DEF RestoresVars, RestoresWith, U, L

LEMMA TruncateVarsInv == ASSUME Inv, TruncateVars PROVE Inv'
<1> DEFINE m == Head(todo).len
<1>1. /\ todo \in Seq(Item) /\ todo # <<>> /\ Head(todo) = todo[1]
      /\ todo[1].t = "trunc" /\ 1 \in 1 .. Len(todo) /\ vars \in Seq(VarEntry)
  BY DEF TruncateVars, Running, Inv, TypeOK, VarEntry
<1>2. m \in Nat /\ Len(DFL_VARS) <= m /\ m <= Len(vars)
  BY <1>1, ItemLen DEF Inv, Truncs
<1>3. /\ vars' = SubSeq(vars, 1, m) /\ status' = status /\ todo' = Tail(todo)
      /\ prog' = prog /\ with_stack' = with_stack /\ acc' = acc
  BY <1>2 DEF TruncateVars
<1>4. /\ vars' \in Seq(VarEntry) /\ Len(vars') = m
      /\ \A j \in 1 .. m : vars'[j] = vars[j]
  <2>1. \A j \in 1 .. m : vars[j] \in VarEntry
    BY <1>1, <1>2
  <2> QED  BY <1>2, <1>3, <2>1, SubSeqProperties
<1>5. /\ todo' \in Seq(Item) /\ Len(todo') = Len(todo) - 1
      /\ \A j \in 1 .. Len(todo') : todo'[j] = todo[j + 1]
  BY <1>1, <1>3, HeadTailProperties
<1>6. Truncs(todo', m)
  <2>1. \A j \in 1 .. Len(todo') : todo'[j].t = "trunc" =>
          Len(DFL_VARS) <= todo'[j].len /\ todo'[j].len <= m
    <3> SUFFICES ASSUME NEW j \in 1 .. Len(todo'), todo'[j].t = "trunc"
                 PROVE  Len(DFL_VARS) <= todo'[j].len /\ todo'[j].len <= m
      OBVIOUS
    <3>1. j + 1 \in 1 .. Len(todo) /\ 1 < j + 1 /\ todo'[j] = todo[j + 1]
      BY <1>1, <1>5
    <3>2. todo[j + 1].len <= todo[1].len /\ Len(DFL_VARS) <= todo[j + 1].len
      BY <1>1, <3>1 DEF Inv, Truncs
    <3> QED  BY <1>1, <3>1, <3>2
  <2>2. ASSUME NEW i \in 1 .. Len(todo'), NEW j \in 1 .. Len(todo'), i < j,
               todo'[i].t = "trunc", todo'[j].t = "trunc"
        PROVE  todo'[j].len <= todo'[i].len
    <3>1. i + 1 \in 1 .. Len(todo) /\ j + 1 \in 1 .. Len(todo) /\ i + 1 < j + 1
      BY <1>1, <1>5, <2>2
    <3> QED  BY <1>5, <2>2, <3>1 DEF Inv, Truncs
  <2> QED  BY <2>1, <2>2 DEF Truncs
<1>7. Withs(todo', with_stack)
  <2>1. \A j \in 1 .. Len(todo') : todo'[j].t = "unwith" => todo'[j].d < with_stack
    <3> SUFFICES ASSUME NEW j \in 1 .. Len(todo'), todo'[j].t = "unwith"
                 PROVE  todo'[j].d < with_stack
      OBVIOUS
    <3>1. j + 1 \in 1 .. Len(todo) /\ todo'[j] = todo[j + 1]
      BY <1>1, <1>5
    <3> QED  BY <3>1 DEF Inv, Withs
  <2>2. ASSUME NEW i \in 1 .. Len(todo'), NEW j \in 1 .. Len(todo'), i < j,
               todo'[i].t = "unwith", todo'[j].t = "unwith"
        PROVE  todo'[j].d < todo'[i].d
    <3>1. i + 1 \in 1 .. Len(todo) /\ j + 1 \in 1 .. Len(todo) /\ i + 1 < j + 1
      BY <1>1, <1>5, <2>2
    <3> QED  BY <1>5, <2>2, <3>1 DEF Inv, Withs
  <2> QED  BY <2>1, <2>2 DEF Withs
<1>8. Blocks(todo', acc)
  <2>1. SUFFICES ASSUME NEW j \in 1 .. Len(todo'), todo'[j] = Block
                 PROVE  j # 1 /\ todo'[j - 1] = Arrow
    BY DEF Blocks
  <2>2. j + 1 \in 1 .. Len(todo) /\ todo[j + 1] = Block
    BY <1>1, <1>5, <2>1
  <2>3. todo[j] = Arrow
    BY <2>2 DEF Inv, Blocks
  <2>4. j # 1
    <3>1. Arrow.t = "open"
      BY DEF Arrow, Open
    <3> QED  BY <1>1, <2>3, <3>1
  <2>5. j - 1 \in 1 .. Len(todo')
    BY <1>1, <1>5, <2>1, <2>4
  <2> QED  BY <1>5, <2>3, <2>4, <2>5
<1>9. BuiltinsKept'
  <2>1. \A j \in 1 .. Len(DFL_VARS) : vars[j] = DFL_VARS[j]
    BY DEF Inv, BuiltinsKept
  <2>2. Len(DFL_VARS) \in Nat
    BY DEF DFL_VARS
  <2> QED  BY <1>2, <1>4, <2>1, <2>2 DEF BuiltinsKept
<1>10. TypeOK' /\ BlockAfterArrow'
  BY <1>3, <1>4, <1>5 DEF Inv, TypeOK, BlockAfterArrow, VarEntry
<1>11. Restores'
  <2>1. /\ status = "running" /\ with_stack \in Nat /\ Len(vars) \in Nat
        /\ todo[1].t = "trunc" => todo[1].len = m
    BY <1>1 DEF TruncateVars, Running, Inv, TypeOK
  <2>2. RestoresVars(todo, Len(vars)) /\ RestoresWith(todo, with_stack)
    BY <2>1 DEF Inv, Restores
  <2> HIDE DEF m
  <2>3. RestoresVars(Tail(todo), m) /\ RestoresWith(Tail(todo), with_stack)
    BY <1>1, <1>2, <2>1, <2>2, TailRestores
  <2> QED  BY <1>3, <1>4, <2>1, <2>3 DEF Restores
<1> QED  BY <1>3, <1>4, <1>6, <1>7, <1>8, <1>9, <1>10, <1>11 DEF Inv

LEMMA KeyValueInv == ASSUME Inv, KeyValue PROVE Inv'
<1> DEFINE e == Head(todo).entry
           scope == Head(todo).scope
           k1 == e.key[1]
           v == KeyName(k1)
<1>1. Running("kv") /\ Head(todo) \in KvItem
  BY HeadFields DEF KeyValue, Running, Inv
<1>2. /\ e.key \in Seq(Node) /\ e.value \in NodeOpt
      /\ scope = NO_SCOPE => e.key # <<>> /\ k1.k = "Ident"
  BY <1>1, EntryFields DEF KvItem
<1>3. CASE Abort("err")
  BY <1>3, AbortInv
<1>4. ASSUME e.key # <<>>
      PROVE  k1 \in Node /\ v \in NameSet \cup {""}
  <2>1. k1 \in Node
    BY <1>2, <1>4
  <2> QED  BY <2>1, NodesAssumption DEF KeyName, NodeShape
<1>5. \A x \in NodeOpt : KeyEl(x) \in PlainHere
  BY KeyPlain DEF PlainHere
<1>6. Sub(e.value, NW) \in PlainHere
  BY <1>2, SubPlain, Contexts DEF PlainHere
<1>7. ASSUME Len(e.key) = 1,
             Replace(<<KeyEl(k1), Open("set", v), Sub(e.value, NW), Close("set", v)>>)
      PROVE  Inv'
  <2>0. Len(e.key) = 1
    BY <1>7, Zenon
  <2>1. k1 \in NodeOpt /\ v \in NameSet \cup {""}
    BY <1>2, <1>4, <2>0, OneElement DEF NodeOpt
  <2>2. Open("set", v) \in PlainHere /\ Close("set", v) \in PlainHere
    BY <2>1, Brackets DEF Constructs
  <2>3. <<KeyEl(k1), Open("set", v), Sub(e.value, NW), Close("set", v)>> \in Seq(PlainHere)
    BY <1>5, <1>6, <2>1, <2>2, Tuple4
  <2> QED  BY <1>1, <1>7, <2>3, PlainReplaceInv DEF TokenKinds, NoCall
<1> DEFINE create == <<KeyEl(k1), KeyEl(k1), Open("set", v), Close("set", v)>>
           A == IF scope = NO_SCOPE THEN <<>> ELSE create
           target == IF scope = NO_SCOPE
                     THEN IdentRef(k1.id, mksctx("Did", "Nothing")) ELSE KeyEl(k1)
           B == <<Open("await", ""), Open("merge", ""), target, Sub(e.value, NW)>>
           C == [j \in 1 .. (Len(e.key) - 1) |-> KeyEl(e.key[j + 1])]
           D == <<Close("merge", ""), Close("await", "")>>
<1>8. ASSUME Len(e.key) > 1, Replace(A \o B \o C \o D)
      PROVE  Inv'
  <2>0. Len(e.key) > 1
    BY <1>8, Zenon
  <2>1. k1 \in Node /\ k1 \in NodeOpt /\ v \in NameSet \cup {""} /\ Len(e.key) \in Nat
    <3>1. Len(e.key) \in Nat /\ e.key # <<>>
      BY <1>2, <2>0, ManyElements
    <3> QED  BY <3>1, <1>4 DEF NodeOpt
  <2>2. Open("set", v) \in PlainHere /\ Close("set", v) \in PlainHere
    BY <2>1, Brackets DEF Constructs
  <2>3. A \in Seq(PlainHere)
    BY <1>5, <2>1, <2>2, Tuple0, Tuple4
  <2>4. mksctx("Did", "Nothing") \in Ctx
    BY DEF mksctx, Ctx, StackCtx, St
  <2>5. scope = NO_SCOPE => k1.id \in NameSet
    BY <1>2, <2>1, NodesAssumption DEF NodeShape
  <2>6. target \in PlainHere
    BY <1>5, <2>1, <2>4, <2>5, IdentPlain DEF PlainHere
  <2>7. /\ Open("await", "") \in PlainHere /\ Open("merge", "") \in PlainHere
        /\ Close("await", "") \in PlainHere /\ Close("merge", "") \in PlainHere
    BY Brackets DEF Constructs
  <2>8. B \in Seq(PlainHere) /\ D \in Seq(PlainHere)
    <3> HIDE DEF target
    <3> QED  BY <1>6, <2>6, <2>7, Tuple2, Tuple4
  <2>9. \A j \in 1 .. (Len(e.key) - 1) : e.key[j + 1] \in NodeOpt
    BY <1>2, <2>0, ManyElements DEF NodeOpt
  <2>10. C \in [1 .. (Len(e.key) - 1) -> PlainHere] /\ Len(e.key) - 1 \in Nat
    <3>1. Len(e.key) - 1 \in Nat
      BY <1>2, <2>0, ManyElements
    <3> QED  BY <1>5, <2>9, <3>1
  <2> HIDE DEF A, B, C, D
  <2>11. C \in Seq(PlainHere)
    BY <2>10, SeqDef
  <2>12. A \o B \o C \o D \in Seq(PlainHere)
    BY <2>3, <2>8, <2>11, Concat2
  <2> QED  BY <1>1, <1>8, <2>12, PlainReplaceInv DEF TokenKinds, NoCall
<1> QED  BY <1>3, <1>7, <1>8 DEF KeyValue

LEMMA KeyElementInv == ASSUME Inv, KeyElement PROVE Inv'
<1> DEFINE T == IF N.k = "Ident" THEN <<>> ELSE Use(N, WN)
<1>1. Running("key") /\ N \in NodeOpt /\ Replace(T)
  BY HeadFields DEF KeyElement, Running, Inv
<1>2. T \in Seq(PlainHere)
  BY <1>1, UsePlain, Contexts, Tuple0 DEF PlainHere
<1> QED  BY <1>1, <1>2, PlainReplaceInv DEF TokenKinds, NoCall

LEMMA SelectedPlain ==
  ASSUME NEW h \in Inherits, h.from # None
  PROVE  Selected(h) \in Seq(PlainHere) /\ h.from.inner \in NodeOpt
<1>1. h.from.inner \in NodeOpt
  BY DEF Inherits
<1>2. /\ <<Open("sel", "")>> \in Seq(PlainHere)
      /\ <<Close("sel", "")>> \in Seq(PlainHere)
  BY Brackets DEF Constructs
<1>3. Use(h.from.inner, WN) \in Seq(PlainHere)
  BY <1>1, UsePlain, Contexts DEF PlainHere
<1> QED  BY <1>1, <1>2, <1>3, Concat2 DEF Selected

LEMMA InheritInv == ASSUME Inv, Inherit PROVE Inv'
<1> DEFINE h == Head(todo).inh
           one == lazyness_incoming(NW, "Forward", "Need", "Front")
           many == lazyness_incoming(NW, "Forward", "Flush", "Front")
<1>1. Running("inh") /\ h \in Inherits
  BY HeadFields DEF Inherit, Running, Inv
<1>2. h.ids \in Seq(NameSet)
  BY <1>1 DEF Inherits
<1>3. \A j \in DOMAIN h.ids :
        InhId(h.ids[j]) \in PlainHere /\ ThenId(h.ids[j]) \in PlainHere
  BY <1>2, Element, InhIdPlain DEF PlainHere
<1> DEFINE A == [j \in DOMAIN h.ids |-> InhId(h.ids[j])]
           B == [j \in DOMAIN h.ids |-> ThenId(h.ids[j])]
<1>4. A \in [DOMAIN h.ids -> PlainHere] /\ B \in [DOMAIN h.ids -> PlainHere]
  BY <1>3
<1>5. A \in Seq(PlainHere) /\ B \in Seq(PlainHere)
  <2> HIDE DEF A, B
  <2> QED  BY <1>2, <1>4, MapSeq
<1>6. CASE Replace(A)
  <2> HIDE DEF A
  <2> QED  BY <1>1, <1>5, <1>6, PlainReplaceInv DEF TokenKinds, NoCall
<1>7. ASSUME h.from # None, Len(h.ids) = 1,
             Replace(<<Open("set", h.ids[1])>> \o Wrap(one, Selected(h)) \o
                     <<Close("set", h.ids[1])>>)
      PROVE  Inv'
  <2>0. Len(h.ids) = 1
    BY <1>7, Zenon
  <2>1. h.ids[1] \in NameSet \cup {""}
    BY <1>2, <2>0, OneElement
  <2>2. /\ <<Open("set", h.ids[1])>> \in Seq(PlainHere)
        /\ <<Close("set", h.ids[1])>> \in Seq(PlainHere)
    BY <2>1, Brackets DEF Constructs
  <2>3. Wrap(one, Selected(h)) \in Seq(PlainHere)
    BY <1>1, <1>7, SelectedPlain, WrapPlain DEF PlainHere
  <2>4. <<Open("set", h.ids[1])>> \o Wrap(one, Selected(h)) \o
        <<Close("set", h.ids[1])>> \in Seq(PlainHere)
    BY <2>2, <2>3, Concat2
  <2> QED  BY <1>1, <1>7, <2>4, PlainReplaceInv DEF TokenKinds, NoCall
<1>8. ASSUME h.from # None,
             Replace(<<Open("const", "")>> \o
                     Wrap(many, <<Sub(h.from.inner, many.sctx)>>) \o
                     <<Close("const", "")>> \o B)
      PROVE  Inv'
  <2>1. many.sctx \in Ctx
    BY LazyCtx, Contexts
  <2>2. <<Sub(h.from.inner, many.sctx)>> \in Seq(PlainHere)
    BY <1>1, <1>8, <2>1, SelectedPlain, SubPlain, Tuple1 DEF PlainHere
  <2>3. Wrap(many, <<Sub(h.from.inner, many.sctx)>>) \in Seq(PlainHere)
    BY <2>2, WrapPlain DEF PlainHere
  <2>4. /\ <<Open("const", "")>> \in Seq(PlainHere)
        /\ <<Close("const", "")>> \in Seq(PlainHere)
    BY Brackets DEF Constructs
  <2> DEFINE T == <<Open("const", "")>> \o
                  Wrap(many, <<Sub(h.from.inner, many.sctx)>>) \o
                  <<Close("const", "")>> \o B
  <2>5. T \in Seq(PlainHere)
    <3> HIDE DEF B, many
    <3> QED  BY <1>5, <2>3, <2>4, Concat2
  <2>6. Replace(T)
    BY <1>8
  <2> HIDE DEF T
  <2> QED  BY <1>1, <2>5, <2>6, PlainReplaceInv DEF TokenKinds, NoCall
<1> QED  BY <1>6, <1>7, <1>8 DEF Inherit

LEMMA InheritIdentInv == ASSUME Inv, InheritIdent PROVE Inv'
<1> DEFINE i == Head(todo).id
<1>1. Running("inhid") \/ Running("thenid")
  BY DEF InheritIdent
<1>2. i \in NameSet
  BY <1>1, HeadFields DEF Running, Inv
<1>3. Open("set", i) \in PlainHere /\ Close("set", i) \in PlainHere
  BY <1>2, Brackets DEF Constructs
<1>4. IdentRef(i, NW) \in PlainHere /\ Lit("then", "") \in PlainHere
  BY <1>2, IdentPlain, LeafPlain, Contexts DEF PlainHere, Leaves
<1>5. /\ <<Open("set", i), IdentRef(i, NW), Close("set", i)>> \in Seq(PlainHere)
      /\ <<Open("set", i), Lit("then", ""), Close("set", i)>> \in Seq(PlainHere)
  BY <1>3, <1>4, Tuple3
<1> QED  BY <1>5, PlainReplaceInv DEF InheritIdent, TokenKinds, NoCall

LEMMA PropInheritInv == ASSUME Inv, PropInherit PROVE Inv'
<1> DEFINE h == Head(todo).inh
           A == [j \in DOMAIN h.ids |-> IdentRef(h.ids[j], NW)]
           T == Wrap(lazyness_incoming(NW, "Flush", "Flush", "Front"), Selected(h))
<1>1. Running("propinh") /\ h \in Inherits
  BY HeadFields DEF PropInherit, Running, Inv
<1>2. h.ids \in Seq(NameSet)
  BY <1>1 DEF Inherits
<1>3. A \in [DOMAIN h.ids -> PlainHere]
  BY <1>2, Element, IdentPlain, Contexts DEF PlainHere
<1>4. A \in Seq(PlainHere)
  <2> HIDE DEF A
  <2> QED  BY <1>2, <1>3, MapSeq
<1>5. h.from # None => T \in Seq(PlainHere)
  BY <1>1, SelectedPlain, WrapPlain DEF PlainHere
<1>6. Replace(A) \/ (h.from # None /\ Replace(T))
  BY DEF PropInherit
<1> HIDE DEF A, T
<1> QED  BY <1>1, <1>4, <1>5, <1>6, PlainReplaceInv DEF TokenKinds, NoCall

----------------------------------------------------------------------------
(* The remaining handlers. *)
LEMMA IdentRawInv == ASSUME Inv, IdentRaw PROVE Inv'
<1> DEFINE i == Head(todo).id
<1>1. Running("ident")
  BY DEF IdentRaw
<1>2. i \in NameSet
  BY <1>1, HeadFields DEF Running, Inv
<1>3. <<Lit("builtin", i)>> \in Seq(PlainHere)
  BY <1>2, LeafPlain, Tuple1 DEF PlainHere, Leaves
<1>4. ASSUME NEW c \in IdentCateg
      PROVE  Wrap(lazyness_incoming(S, "Flush", "Flush", "Back"), <<Read(c, i)>>)
               \in Seq(PlainHere)
  <2>1. <<Read(c, i)>> \in Seq(PlainHere)
    BY <1>2, LeafPlain, Tuple1 DEF PlainHere
  <2> QED  BY <2>1, WrapPlain DEF PlainHere
<1> QED  BY <1>1, <1>3, <1>4, PlainReplaceInv DEF IdentRaw, TokenKinds, NoCall

LEMMA ListInv == ASSUME Inv, List PROVE Inv'
<1> DEFINE A == <<Open("list", "")>>
           B == [j \in DOMAIN N.items |-> Sub(N.items[j], NN)]
           C == <<Close("list", "")>>
           T == Wrap(Incoming("Forward", "Flush"), A \o B \o C)
<1>1. NodeShape(N) /\ N.k = "List" /\ S \in Ctx
  BY VisitNode DEF List, Inv
<1>2. N.items \in Seq(Node)
  BY <1>1 DEF NodeShape
<1>3. \A j \in DOMAIN N.items : N.items[j] \in NodeOpt
  BY <1>2, Element DEF NodeOpt
<1>4. B \in [DOMAIN N.items -> PlainHere]
  BY <1>3, SubPlain, Contexts DEF PlainHere
<1>5. A \in Seq(PlainHere) /\ C \in Seq(PlainHere)
  BY Brackets DEF Constructs
<1>6. Running("node") /\ Replace(T)
  BY DEF List, Visit
<1> HIDE DEF A, B, C
<1>7. B \in Seq(PlainHere)
  BY <1>2, <1>4, MapSeq
<1>8. T \in Seq(PlainHere)
  BY <1>5, <1>7, Concat2, WrapPlain DEF PlainHere, Incoming
<1> QED  BY <1>6, <1>8, PlainReplaceInv DEF TokenKinds, NoCall

LEMMA OrDefaultInv == ASSUME Inv, OrDefault PROVE Inv'
<1> DEFINE U == <<Open("call", ""), Sub(N.index, NW), Sub(N.default, NW),
                  Close("call", "")>>
<1>1. NodeShape(N) /\ N.k = "OrDefault" /\ S \in Ctx
  BY VisitNode DEF OrDefault, Inv
<1>2. N.index \in NodeOpt /\ N.default \in NodeOpt
  BY <1>1 DEF NodeShape
<1>3. Sub(N.index, NW) \in PlainHere /\ Sub(N.default, NW) \in PlainHere
  BY <1>2, SubPlain, Contexts DEF PlainHere
<1>4. U \in Seq(PlainHere)
  BY <1>3, Brackets, Tuple4 DEF Constructs
<1>5. Wrap(Incoming("Need", "Need"), U) \in Seq(PlainHere)
  BY <1>4, WrapPlain DEF PlainHere, Incoming
<1>6. Running("node") /\ Replace(Wrap(Incoming("Need", "Need"), U))
  BY DEF OrDefault, Visit
<1> QED  BY <1>5, <1>6, PlainReplaceInv DEF TokenKinds, NoCall

LEMMA SelectInv == ASSUME Inv, Select PROVE Inv'
<1> DEFINE A == <<Open("bsel", "")>> \o Use(N.set, NN) \o
                <<KeyEl(N.index), Close("bsel", "")>>
           B == <<Open("sel", "")>> \o Use(N.set, WN) \o
                <<KeyEl(N.index), Close("sel", "")>>
<1>1. NodeShape(N) /\ N.k = "Select" /\ S \in Ctx
  BY VisitNode DEF Select, Inv
<1>2. N.set \in NodeOpt /\ N.index \in NodeOpt
  BY <1>1 DEF NodeShape
<1>3. /\ <<Open("bsel", "")>> \in Seq(PlainHere) /\ Close("bsel", "") \in PlainHere
      /\ <<Open("sel", "")>> \in Seq(PlainHere) /\ Close("sel", "") \in PlainHere
  BY Brackets DEF Constructs
<1>4. KeyEl(N.index) \in PlainHere
  BY <1>2, KeyPlain DEF PlainHere
<1>5. Use(N.set, NN) \in Seq(PlainHere) /\ Use(N.set, WN) \in Seq(PlainHere)
  BY <1>2, UsePlain, Contexts DEF PlainHere
<1>6. /\ <<KeyEl(N.index), Close("bsel", "")>> \in Seq(PlainHere)
      /\ <<KeyEl(N.index), Close("sel", "")>> \in Seq(PlainHere)
  BY <1>3, <1>4, Tuple2
<1>7. A \in Seq(PlainHere) /\ B \in Seq(PlainHere)
  BY <1>3, <1>5, <1>6, Concat2
<1>8. \/ Replace(Wrap(Incoming("Forward", "Forward"), A))
      \/ Replace(Wrap(Incoming("Need", "Need"), B))
  BY DEF Select
<1>9. Running("node")
  BY DEF Select, Visit
<1> HIDE DEF A, B
<1>10. /\ Wrap(Incoming("Forward", "Forward"), A) \in Seq(PlainHere)
       /\ Wrap(Incoming("Need", "Need"), B) \in Seq(PlainHere)
  BY <1>7, WrapPlain DEF PlainHere, Incoming
<1> QED  BY <1>8, <1>9, <1>10, PlainReplaceInv DEF TokenKinds, NoCall

LEMMA StrInv == ASSUME Inv, Str PROVE Inv'
<1> DEFINE D == {p \in Node : p.k \in {"Literal", "StrInterpol"}}
           A == <<Open("str", "")>>
           B == [j \in DOMAIN N.parts |-> StrPart(N.parts[j])]
           C == <<Close("str", "")>>
           T == Wrap(Incoming("Forward", "Need"), A \o B \o C)
<1>1. NodeShape(N) /\ N.k = "Str" /\ S \in Ctx
  BY VisitNode DEF Str, Inv
<1>2. N.parts \in Seq(D)
  BY <1>1 DEF NodeShape
<1>3. \A j \in DOMAIN N.parts : N.parts[j] \in D
  BY <1>2, Element
<1>4. B \in [DOMAIN N.parts -> PlainHere]
  BY <1>3, PartPlain DEF PlainHere
<1>5. A \in Seq(PlainHere) /\ C \in Seq(PlainHere)
  BY Brackets DEF Constructs
<1>6. <<Lit("str", "")>> \in Seq(PlainHere)
  BY LeafPlain, Tuple1 DEF PlainHere, Leaves
<1>7. Running("node") /\ (Replace(T) \/ Replace(<<Lit("str", "")>>))
  BY DEF Str, Visit
<1> HIDE DEF A, B, C, D
<1>8. B \in Seq(PlainHere)
  BY <1>2, <1>4, MapSeq
<1>9. T \in Seq(PlainHere)
  BY <1>5, <1>8, Concat2, WrapPlain DEF PlainHere, Incoming
<1> QED  BY <1>6, <1>7, <1>9, PlainReplaceInv DEF TokenKinds, NoCall

LEMMA StringPartInv == ASSUME Inv, StringPart PROVE Inv'
<1> DEFINE T == IF N.k = "Literal" THEN <<Lit("str", "")>> ELSE Use(N.inner, WN)
<1>1. Running("part") /\ N \in Node /\ N.k \in {"Literal", "StrInterpol"}
  BY HeadFields DEF StringPart, Running, Inv
<1>2. N.k = "StrInterpol" => N.inner \in NodeOpt
  BY <1>1, NodesAssumption DEF NodeShape
<1>3. <<Lit("str", "")>> \in Seq(PlainHere)
  BY LeafPlain, Tuple1 DEF PlainHere, Leaves
<1>4. N.k = "StrInterpol" => Use(N.inner, WN) \in Seq(PlainHere)
  BY <1>2, UsePlain, Contexts DEF PlainHere
<1>5. T \in Seq(PlainHere) /\ Replace(T)
  BY <1>1, <1>3, <1>4 DEF StringPart
<1> HIDE DEF T
<1> QED  BY <1>1, <1>5, PlainReplaceInv DEF TokenKinds, NoCall

LEMMA UnaryOpInv == ASSUME Inv, UnaryOp PROVE Inv'
<1> DEFINE T == <<Open("unop", ""), Sub(N.value, NN), Close("unop", "")>>
<1>1. NodeShape(N) /\ N.k = "UnaryOp" /\ S \in Ctx
  BY VisitNode DEF UnaryOp, Inv
<1>2. Sub(N.value, NN) \in PlainHere
  BY <1>1, SubPlain, Contexts DEF NodeShape, PlainHere
<1>3. T \in Seq(PlainHere)
  BY <1>2, Brackets, Tuple3 DEF Constructs
<1>4. Running("node") /\ Replace(T)
  BY DEF UnaryOp, Visit
<1> QED  BY <1>3, <1>4, PlainReplaceInv DEF TokenKinds, NoCall

LEMMA ValueInv == ASSUME Inv, Value PROVE Inv'
<1>1. /\ <<Lit("export", "")>> \in Seq(PlainHere)
      /\ <<Lit("number", "")>> \in Seq(PlainHere)
  BY LeafPlain, Tuple1 DEF PlainHere, Leaves
<1>2. /\ Running("node")
      /\ Replace(<<Lit("export", "")>>) \/ Replace(<<Lit("number", "")>>)
  BY DEF Value, Visit
<1> QED  BY <1>1, <1>2, PlainReplaceInv DEF TokenKinds, NoCall

----------------------------------------------------------------------------
(* With: the saved depth goes on the stack above those saved before. *)
LEMMA PushItem ==
  ASSUME NEW td \in Seq(Item), Len(td) >= 1, td[1] # Block,
         NEW w \in Nat, Withs(td, w), NEW W \in Nat, w <= W,
         NEW m, Truncs(td, m), NEW a, Blocks(td, a),
         NEW x \in Item, x.t # "trunc", x # Block,
         x.t = "unwith" => x.d = w /\ w < W
  PROVE  /\ <<x>> \o td \in Seq(Item) /\ Len(<<x>> \o td) >= 1
         /\ (<<x>> \o td)[1] # Block /\ Truncs(<<x>> \o td, m)
         /\ Withs(<<x>> \o td, W) /\ Blocks(<<x>> \o td, a)
<1> DEFINE U == <<x>> \o td
<1>2. <<x>> \in Seq(Item)
  BY Tuple1
<1>3. /\ U \in Seq(Item) /\ Len(U) = Len(td) + 1 /\ U[1] = x
      /\ \A j \in 2 .. Len(U) : U[j] = td[j - 1] /\ j - 1 \in 1 .. Len(td)
      /\ Len(td) \in Nat /\ 1 \in 1 .. Len(U)
  <2>1. /\ U \in Seq(Item) /\ Len(U) = Len(<<x>>) + Len(td)
        /\ \A j \in 1 .. Len(<<x>>) + Len(td) :
             U[j] = IF j <= Len(<<x>>) THEN <<x>>[j]
                    ELSE td[j - Len(<<x>>)]
    BY <1>2, ConcatProperties
  <2>2. Len(<<x>>) = 1 /\ <<x>>[1] = x /\ Len(td) \in Nat
    OBVIOUS
  <2> HIDE DEF U
  <2> QED  BY <2>1, <2>2
<1> HIDE DEF U
<1>4. Truncs(U, m)
  <2>1. \A j \in 1 .. Len(U) : U[j].t = "trunc" => j \in 2 .. Len(U)
    BY <1>3
  <2>2. \A j \in 1 .. Len(U) :
          U[j].t = "trunc" => Len(DFL_VARS) <= U[j].len /\ U[j].len <= m
    BY <1>3, <2>1 DEF Truncs
  <2>3. ASSUME NEW i \in 1 .. Len(U), NEW j \in 1 .. Len(U), i < j,
               U[i].t = "trunc", U[j].t = "trunc"
        PROVE  U[j].len <= U[i].len
    <3>1. /\ U[i] = td[i - 1] /\ U[j] = td[j - 1] /\ i - 1 < j - 1
          /\ i - 1 \in 1 .. Len(td) /\ j - 1 \in 1 .. Len(td)
      BY <1>3, <2>1, <2>3
    <3> QED  BY <2>3, <3>1 DEF Truncs
  <2> QED  BY <2>2, <2>3 DEF Truncs
<1>5. Withs(U, W)
  <2>1. ASSUME NEW j \in 2 .. Len(U), U[j].t = "unwith"
        PROVE  U[j].d < w /\ U[j].d \in Nat /\ U[j].d < W
    <3>1. td[j - 1].d \in Nat
      BY <1>3, <2>1, ItemLen
    <3> QED  BY <1>3, <2>1, <3>1 DEF Withs
  <2>2. \A j \in 1 .. Len(U) : U[j].t = "unwith" => U[j].d < W
    BY <1>3, <2>1
  <2>3. ASSUME NEW i \in 1 .. Len(U), NEW j \in 1 .. Len(U), i < j,
               U[i].t = "unwith", U[j].t = "unwith"
        PROVE  U[j].d < U[i].d
    <3>1. CASE i = 1
      BY <1>3, <2>1, <2>3, <3>1
    <3>2. CASE i # 1
      <4>1. /\ U[i] = td[i - 1] /\ U[j] = td[j - 1] /\ i - 1 < j - 1
            /\ i - 1 \in 1 .. Len(td) /\ j - 1 \in 1 .. Len(td)
        BY <1>3, <2>3, <3>2
      <4> QED  BY <2>3, <4>1 DEF Withs
    <3> QED  BY <3>1, <3>2
  <2> QED  BY <2>2, <2>3 DEF Withs
<1>6. Blocks(U, a)
  <2>1. SUFFICES ASSUME NEW j \in 1 .. Len(U), U[j] = Block
                 PROVE  j # 1 /\ U[j - 1] = Arrow
    BY DEF Blocks
  <2>3. j \in 2 .. Len(U)
    BY <1>3, <2>1
  <2>4. td[j - 1] = Block /\ j - 1 \in 1 .. Len(td) /\ j - 1 # 1
    BY <1>3, <2>1, <2>3
  <2>5. td[j - 2] = Arrow
    BY <2>4 DEF Blocks
  <2>6. U[j - 1] = td[j - 2]
    BY <1>3, <2>3, <2>4
  <2> QED  BY <2>3, <2>5, <2>6
<1> QED  BY <1>3, <1>4, <1>5, <1>6 DEF U

LEMMA PushRestores ==
  ASSUME NEW td \in Seq(Item), NEW m, NEW w \in Nat,
         RestoresVars(td, m), RestoresWith(td, w),
         NEW x \in Item, x.t # "keys", NEW W \in Nat,
         W = w \/ (x.t = "unwith" /\ x.d = w /\ W = w + 1)
  PROVE  RestoresVars(<<x>> \o td, m) /\ RestoresWith(<<x>> \o td, W)
<1> DEFINE U == <<x>> \o td
<1>1. /\ Len(U) = Len(td) + 1 /\ Len(td) \in Nat /\ U[1] = x
      /\ \A j \in 1 .. Len(td) : j + 1 \in 1 .. Len(U) /\ U[j + 1] = td[j]
  OBVIOUS
<1> HIDE DEF U
<1>2. ASSUME m > Len(DFL_VARS)
      PROVE  \E j \in 1 .. Len(U) : Cuts(U[j])
  BY <1>1, <1>2 DEF RestoresVars
<1>3. ASSUME NEW i \in 1 .. Len(U), U[i].t = "keys"
      PROVE  \E j \in (i + 1) .. Len(U) : Cuts(U[j])
  <2>1. i # 1
    BY <1>1, <1>3
  <2> DEFINE k == i - 1
  <2>2. k \in 1 .. Len(td) /\ i = k + 1
    BY <1>1, <2>1
  <2> HIDE DEF k
  <2>3. td[k].t = "keys"
    BY <1>1, <1>3, <2>2
  <2>4. PICK j \in (k + 1) .. Len(td) : Cuts(td[j])
    BY <2>2, <2>3 DEF RestoresVars
  <2>5. j \in 1 .. Len(td) /\ j + 1 \in (i + 1) .. Len(U)
    BY <1>1, <2>2, <2>4
  <2> QED  BY <1>1, <2>4, <2>5
<1>4. ASSUME NEW e \in 0 .. (W - 1)
      PROVE  \E j \in 1 .. Len(U) : U[j].t = "unwith" /\ U[j].d = e
  <2>1. CASE e \in 0 .. (w - 1)
    BY <1>1, <2>1 DEF RestoresWith
  <2>2. CASE e \notin 0 .. (w - 1)
    <3>1. x.t = "unwith" /\ x.d = e /\ 1 \in 1 .. Len(U)
      BY <1>1, <2>2
    <3> QED  BY <1>1, <3>1
  <2> QED  BY <2>1, <2>2
<1> QED  BY <1>2, <1>3, <1>4 DEF RestoresVars, RestoresWith, U

LEMMA WithInv == ASSUME Inv, With PROVE Inv'
<1> DEFINE w == with_stack
           A == <<Close("with", ""), Open("ns", "")>>
           U == Use(N.namespace, WN)
           C == <<Close("ns", "")>>
           R == (A \o U) \o C
           x1 == Open("with", "")
           x2 == Sub(N.body, WN)
           x3 == Unwith(w)
           td1 == R \o Tail(todo)
           td2 == <<x3>> \o td1
           td3 == <<x2>> \o td2
           td4 == <<x1>> \o td3
<1>1. NodeShape(N) /\ N.k = "With" /\ S \in Ctx
  BY VisitNode DEF With, Inv
<1>2. N.body \in NodeOpt /\ N.namespace \in NodeOpt
  BY <1>1 DEF NodeShape
<1>3. /\ todo \in Seq(Item) /\ todo # <<>> /\ todo[1].t \notin TokenKinds
      /\ Len(vars) \in Nat /\ w \in Nat
  <2>1. todo # <<>> /\ Head(todo).t = "node"
    BY DEF With, Visit, Running
  <2>2. todo \in Seq(Item) /\ Len(vars) \in Nat /\ w \in Nat
    BY DEF Inv, TypeOK
  <2>3. Head(todo) = todo[1]
    BY <2>1, HeadItem DEF Inv
  <2> QED  BY <2>1, <2>2, <2>3 DEF TokenKinds
<1>4. /\ Close("with", "") \in PlainHere /\ Open("ns", "") \in PlainHere
      /\ Open("with", "") \in PlainHere /\ C \in Seq(PlainHere)
  BY Brackets DEF Constructs
<1>5. A \in Seq(PlainHere)
  BY <1>4, Tuple2
<1>6. U \in Seq(PlainHere)
  BY <1>2, UsePlain, Contexts DEF PlainHere
<1>7. R \in Seq(PlainHere)
  <2> HIDE DEF A, U, C
  <2> QED  BY <1>4, <1>5, <1>6, Concat2
<1>8. Len(R) >= 1
  <2>1. Len(A) = 2
    OBVIOUS
  <2> HIDE DEF A, U, C
  <2>2. /\ A \o U \in Seq(PlainHere) /\ Len(A \o U) = Len(A) + Len(U)
        /\ Len(U) \in Nat /\ Len(C) \in Nat
    BY <1>4, <1>5, <1>6, ConcatProperties, LenProperties
  <2>3. Len(R) = Len(A \o U) + Len(C)
    BY <1>4, <2>2, ConcatProperties
  <2> QED  BY <2>1, <2>2, <2>3
<1>9. todo' = <<x1, x2>> \o td2 /\ with_stack' = w + 1
      /\ UNCHANGED <<prog, status, vars, acc>>
  BY DEF With
<1> HIDE DEF R
<1>10. Template(R, Len(vars))
  BY <1>7, PlainTemplate DEF PlainHere
<1>11. Len(DFL_VARS) <= Len(vars)
  BY DEF Inv, BuiltinsKept, DFL_VARS
<1>12. td1 \in Seq(Item) /\ Withs(td1, w) /\ Blocks(td1, acc)
  BY <1>3, <1>10, SpliceType, SpliceWiths, SpliceBlocks DEF Inv
<1>13. Truncs(td1, Len(vars))
  BY <1>3, <1>10, <1>11, SpliceTruncs DEF Inv
<1>b. /\ RestoresVars(td1, Len(vars)) /\ RestoresWith(td1, w)
      /\ status = "running"
  <2>1. status = "running" /\ Head(todo).t = "node" /\ Head(todo) = todo[1]
    BY <1>3, HeadItem DEF With, Visit, Running, Inv
  <2>2. RestoresVars(todo, Len(vars)) /\ RestoresWith(todo, w)
    BY <2>1 DEF Inv, Restores
  <2>3. todo[1].t # "trunc" /\ todo[1].t # "unwith"
    BY <2>1
  <2>4. Closed(R)
    BY <1>7, PlainClosed DEF PlainHere
  <2>5. RestoresWith(td1, w)
    BY <1>3, <1>10, <2>2, <2>3, SpliceRestoresWith
  <2>6. RestoresVars(td1, Len(vars))
    BY <1>3, <1>10, <1>11, <2>2, <2>3, <2>4, SpliceRestoresVars
  <2> QED  BY <2>1, <2>5, <2>6
<1>14. Len(td1) >= 1 /\ td1[1] # Block
  <2>1. Tail(todo) \in Seq(Item)
    BY <1>3
  <2>2. R \in Seq(Item)
    BY <1>7, SeqMonotonic DEF PlainHere, Plain
  <2>3. Len(td1) = Len(R) + Len(Tail(todo)) /\ td1[1] = R[1]
    BY <1>8, <2>1, <2>2
  <2>4. R[1] \in PlainHere
    BY <1>7, <1>8
  <2>5. R[1] # Block
    BY <2>4 DEF PlainHere, Plain
  <2> QED  BY <1>8, <2>1, <2>2, <2>3, <2>5
<1> HIDE DEF td1
<1>15. x3 \in Item /\ x3.t = "unwith" /\ x3.d = w /\ x3 # Block
  BY <1>3 DEF Unwith, Item, Block, Open
<1>16. /\ x1 \in PlainHere /\ x2 \in PlainHere
       /\ x1.t = "open" /\ x2.t = "node"
  BY <1>2, <1>4, SubPlain, Contexts DEF PlainHere, Open, Sub
<1>17. x1 \in Item /\ x1 # Block /\ x2 \in Item /\ x2 # Block
  BY <1>16 DEF PlainHere, Plain
<1> HIDE DEF x1, x2, x3
<1>18. /\ td2 \in Seq(Item) /\ Len(td2) >= 1 /\ td2[1] # Block
       /\ Truncs(td2, Len(vars)) /\ Withs(td2, w + 1) /\ Blocks(td2, acc)
  BY <1>3, <1>12, <1>13, <1>14, <1>15, PushItem
<1>c. RestoresVars(td2, Len(vars)) /\ RestoresWith(td2, w + 1) /\ w + 1 \in Nat
  <2>1. w + 1 \in Nat
    BY <1>3
  <2> QED  BY <1>3, <1>12, <1>15, <1>b, <2>1, PushRestores
<1> HIDE DEF td2
<1>19. /\ td3 \in Seq(Item) /\ Len(td3) >= 1 /\ td3[1] # Block
       /\ Truncs(td3, Len(vars)) /\ Withs(td3, w + 1) /\ Blocks(td3, acc)
  BY <1>3, <1>16, <1>17, <1>18, PushItem
<1>d. RestoresVars(td3, Len(vars)) /\ RestoresWith(td3, w + 1)
  BY <1>16, <1>17, <1>18, <1>c, PushRestores
<1> HIDE DEF td3
<1>20. /\ td4 \in Seq(Item)
       /\ Truncs(td4, Len(vars)) /\ Withs(td4, w + 1) /\ Blocks(td4, acc)
  BY <1>3, <1>16, <1>17, <1>19, PushItem
<1>e. RestoresVars(td4, Len(vars)) /\ RestoresWith(td4, w + 1)
  BY <1>16, <1>17, <1>19, <1>c, <1>d, PushRestores
<1>21. todo' = td4
  <2>1. <<x1>> \in Seq(Item) /\ <<x2>> \in Seq(Item)
    BY <1>17, Tuple1
  <2>2. (<<x1>> \o <<x2>>) \o td2 = <<x1>> \o (<<x2>> \o td2)
    BY <1>18, <2>1, ConcatAssociative
  <2>3. <<x1>> \o <<x2>> = <<x1, x2>>
    BY Pair
  <2> QED  BY <1>9, <2>2, <2>3 DEF td3
<1> HIDE DEF td4
<1>22. BuiltinsKept' /\ BlockAfterArrow'
  BY <1>9 DEF Inv, BuiltinsKept, BlockAfterArrow
<1>23. TypeOK'
  <2>1. w + 1 \in Nat
    BY <1>3
  <2>2. with_stack' = w + 1
    BY <1>9, Zenon
  <2>3. todo' \in Seq(Item)
    BY <1>20, <1>21
  <2> QED  BY <1>9, <2>1, <2>2, <2>3 DEF Inv, TypeOK
<1>24. Restores'
  BY <1>9, <1>21, <1>b, <1>e DEF Restores
<1> QED  BY <1>9, <1>20, <1>21, <1>22, <1>23, <1>24 DEF Inv

(* The steps that only take the head off the stack. *)
LEMMA TailOrder ==
  ASSUME Inv, todo # <<>>, todo' = Tail(todo)
  PROVE  /\ todo' \in Seq(Item) /\ Len(todo') = Len(todo) - 1
         /\ \A j \in 1 .. Len(todo') : todo'[j] = todo[j + 1] /\ j + 1 \in 1 .. Len(todo)
         /\ todo \in Seq(Item) /\ Len(todo) \in Nat /\ 1 \in 1 .. Len(todo)
         /\ Truncs(todo', Len(vars)) /\ Withs(todo', with_stack)
<1>1. todo \in Seq(Item)
  BY DEF Inv, TypeOK
<1>2. /\ todo' \in Seq(Item) /\ Len(todo') = Len(todo) - 1
      /\ Len(todo) \in Nat /\ Len(todo) >= 1
      /\ \A j \in 1 .. Len(todo') : todo'[j] = todo[j + 1]
  BY <1>1, HeadTailProperties, EmptySeq
<1> DEFINE E == <<>>
<1>3. E \o Tail(todo) = Tail(todo) /\ Template(E, Len(vars))
  BY <1>1, <1>2, ConcatEmptySeq, Tuple0, PlainTemplate
<1> HIDE DEF E
<1>4. Len(vars) \in Nat /\ Len(DFL_VARS) <= Len(vars) /\ Len(DFL_VARS) \in Nat
  BY DEF Inv, TypeOK, BuiltinsKept, DFL_VARS
<1>5. Truncs(todo', Len(vars)) /\ Withs(todo', with_stack)
  <2>1. Truncs(E \o Tail(todo), Len(vars))
    BY <1>1, <1>3, <1>4, SpliceTruncs DEF Inv
  <2>2. Withs(E \o Tail(todo), with_stack)
    BY <1>1, <1>3, SpliceWiths DEF Inv
  <2> QED  BY <1>3, <2>1, <2>2, Zenon
<1> QED  BY <1>1, <1>2, <1>5

(* The innermost open `with' saved the depth that its end restores. *)
LEMMA InnermostWith ==
  ASSUME NEW td \in Seq(Item), NEW w \in Nat, Withs(td, w), RestoresWith(td, w),
         NEW j \in 1 .. Len(td), td[j].t = "unwith",
         \A i \in 1 .. (j - 1) : td[i].t # "unwith"
  PROVE  w = td[j].d + 1
<1>1. td[j].d \in Nat /\ td[j].d < w
  BY ItemLen DEF Withs
<1>2. PICK k \in 1 .. Len(td) : td[k].t = "unwith" /\ td[k].d = w - 1
  <2>1. w - 1 \in 0 .. (w - 1)
    BY <1>1
  <2> QED  BY <2>1 DEF RestoresWith
<1>3. Len(td) \in Nat
  OBVIOUS
<1>4. k = j \/ j < k
  <2>1. CASE k < j
    <3>1. k \in 1 .. (j - 1)
      BY <1>3, <2>1
    <3> QED  BY <1>2, <3>1
  <2> QED  BY <1>3, <2>1
<1>5. j < k => td[k].d < td[j].d
  BY <1>2 DEF Withs
<1> QED  BY <1>1, <1>2, <1>4, <1>5

LEMMA WithEndInv == ASSUME Inv, WithEnd PROVE Inv'
<1> DEFINE w == with_stack
<1>1. /\ todo # <<>> /\ todo[1].t = "unwith" /\ todo' = Tail(todo)
      /\ with_stack' = w - 1 /\ UNCHANGED <<prog, status, vars, acc>>
  BY HeadItem DEF WithEnd, Running, Inv
<1>2. /\ todo' \in Seq(Item) /\ Len(todo') = Len(todo) - 1
      /\ \A j \in 1 .. Len(todo') : todo'[j] = todo[j + 1] /\ j + 1 \in 1 .. Len(todo)
      /\ todo \in Seq(Item) /\ Len(todo) \in Nat /\ 1 \in 1 .. Len(todo)
      /\ Truncs(todo', Len(vars)) /\ Withs(todo', w)
  BY <1>1, TailOrder
<1>3. w \in Nat /\ todo[1].d \in Nat /\ todo[1].d < w
  <2>1. todo[1].d \in Nat
    BY <1>1, <1>2, ItemLen
  <2> QED  BY <1>1, <1>2, <2>1 DEF Inv, TypeOK, Withs
<1>4. w - 1 \in Nat
  BY <1>3
<1>5. ASSUME NEW j \in 1 .. Len(todo'), todo'[j].t = "unwith"
      PROVE  todo'[j].d < w - 1
  <2>1. j + 1 \in 1 .. Len(todo) /\ todo[j + 1].t = "unwith" /\ 1 < j + 1
    BY <1>2, <1>5
  <2>2. todo[j + 1].d < todo[1].d
    BY <1>1, <1>2, <2>1 DEF Inv, Withs
  <2>3. todo[j + 1].d \in Nat
    BY <1>2, <2>1, ItemLen
  <2> QED  BY <1>2, <1>3, <2>2, <2>3
<1>6. Withs(todo', w - 1)
  BY <1>2, <1>5 DEF Withs
<1>7. Blocks(todo', acc)
  <2>1. SUFFICES ASSUME NEW j \in 1 .. Len(todo'), todo'[j] = Block
                 PROVE  j # 1 /\ todo'[j - 1] = Arrow
    BY DEF Blocks
  <2>2. j + 1 \in 1 .. Len(todo) /\ todo[j + 1] = Block
    BY <1>2, <2>1
  <2>3. todo[j] = Arrow
    BY <2>2 DEF Inv, Blocks
  <2>4. Arrow.t = "open"
    BY DEF Arrow, Open
  <2>5. j # 1
    BY <1>1, <2>3, <2>4
  <2>6. j - 1 \in 1 .. Len(todo')
    BY <1>2, <2>1, <2>5
  <2> QED  BY <1>2, <2>3, <2>5, <2>6
<1>8. TypeOK' /\ BuiltinsKept' /\ BlockAfterArrow'
  BY <1>1, <1>2, <1>4 DEF Inv, TypeOK, BuiltinsKept, BlockAfterArrow
<1>9. Restores'
  <2>1. status = "running" /\ Len(vars) \in Nat
    BY DEF WithEnd, Running, Inv, TypeOK
  <2>2. RestoresVars(todo, Len(vars)) /\ RestoresWith(todo, w) /\ Withs(todo, w)
    BY <2>1 DEF Inv, Restores
  <2>3. w = todo[1].d + 1
    <3>1. \A i \in 1 .. (1 - 1) : todo[i].t # "unwith"
      OBVIOUS
    <3> QED  BY <1>1, <1>2, <1>3, <2>2, <3>1, InnermostWith
  <2> DEFINE W == w - 1
  <2>4. W \in Nat /\ W <= w /\ todo[1].d = W
    BY <1>3, <2>3
  <2>5. with_stack' = W
    BY <1>1
  <2> HIDE DEF W
  <2>6. RestoresVars(Tail(todo), Len(vars)) /\ RestoresWith(Tail(todo), W)
    BY <1>1, <1>2, <1>3, <2>1, <2>2, <2>4, TailRestores
  <2> QED  BY <1>1, <2>1, <2>5, <2>6 DEF Restores
<1> QED  BY <1>1, <1>2, <1>6, <1>7, <1>8, <1>9 DEF Inv

LEMMA BlocksByLen ==
  ASSUME NEW a \in Seq(Token)
  PROVE  (\A j \in DOMAIN a :
            a[j] = Open("block", "") => j > 1 /\ a[j - 1] = Open("lazy", ""))
         <=> (\A j \in 1 .. Len(a) : a[j] = Block => j > 1 /\ a[j - 1] = Arrow)
<1>1. DOMAIN a = 1 .. Len(a)
  OBVIOUS
<1> QED  BY <1>1 DEF Block, Arrow

LEMMA PushInv == ASSUME Inv, Push PROVE Inv'
<1>1. /\ todo # <<>> /\ todo[1].t \in TokenKinds /\ todo[1] \in Item
      /\ todo' = Tail(todo) /\ acc' = Append(acc, todo[1])
      /\ UNCHANGED <<prog, status, vars, with_stack>>
  BY HeadItem DEF Push, Inv
<1>2. /\ todo' \in Seq(Item) /\ Len(todo') = Len(todo) - 1
      /\ \A j \in 1 .. Len(todo') : todo'[j] = todo[j + 1] /\ j + 1 \in 1 .. Len(todo)
      /\ todo \in Seq(Item) /\ Len(todo) \in Nat /\ 1 \in 1 .. Len(todo)
      /\ Truncs(todo', Len(vars)) /\ Withs(todo', with_stack)
  BY <1>1, TailOrder
<1>3. todo[1] \in Token
  BY <1>1 DEF Item, KvItem, TokenKinds
<1>4. /\ acc \in Seq(Token) /\ acc' \in Seq(Token) /\ Len(acc) \in Nat
      /\ Len(acc') = Len(acc) + 1 /\ acc'[Len(acc')] = todo[1] /\ acc' # <<>>
      /\ \A j \in 1 .. Len(acc) : acc'[j] = acc[j]
  <2>1. acc \in Seq(Token)
    BY DEF Inv, TypeOK
  <2> QED  BY <1>1, <1>3, <2>1, AppendProperties
<1>5. Blocks(todo', acc')
  <2>1. SUFFICES ASSUME NEW j \in 1 .. Len(todo'), todo'[j] = Block
                 PROVE  IF j = 1 THEN acc' # <<>> /\ acc'[Len(acc')] = Arrow
                        ELSE todo'[j - 1] = Arrow
    BY DEF Blocks
  <2>2. j + 1 \in 1 .. Len(todo) /\ todo[j + 1] = Block
    BY <1>2, <2>1
  <2>3. todo[j] = Arrow
    BY <2>2 DEF Inv, Blocks
  <2>4. CASE j = 1
    BY <1>4, <2>3, <2>4
  <2>5. CASE j # 1
    <3>1. j - 1 \in 1 .. Len(todo')
      BY <1>2, <2>1, <2>5
    <3> QED  BY <1>2, <2>3, <2>5, <3>1
  <2> QED  BY <2>4, <2>5
<1>6. BlockAfterArrow'
  <2>1. SUFFICES ASSUME NEW j \in 1 .. Len(acc'), acc'[j] = Block
                 PROVE  j > 1 /\ acc'[j - 1] = Arrow
    BY <1>4, BlocksByLen DEF BlockAfterArrow
  <2>2. CASE j <= Len(acc)
    <3>1. j \in 1 .. Len(acc) /\ acc[j] = Block
      BY <1>4, <2>1, <2>2
    <3>2. j > 1 /\ acc[j - 1] = Arrow
      BY <1>4, <3>1, BlocksByLen DEF Inv, BlockAfterArrow
    <3> QED  BY <1>4, <3>1, <3>2
  <2>3. CASE j > Len(acc)
    <3>1. j = Len(acc) + 1 /\ todo[1] = Block
      BY <1>4, <2>1, <2>3
    <3>2. acc # <<>> /\ acc[Len(acc)] = Arrow
      BY <1>2, <3>1 DEF Inv, Blocks
    <3>3. Len(acc) \in 1 .. Len(acc)
      BY <1>4, <3>2
    <3> QED  BY <1>4, <3>1, <3>2, <3>3
  <2> QED  BY <1>4, <2>2, <2>3
<1>7. TypeOK' /\ BuiltinsKept'
  BY <1>1, <1>2, <1>4 DEF Inv, TypeOK, BuiltinsKept
<1>8. Restores'
  <2>1. status = "running" /\ Len(vars) \in Nat /\ with_stack \in Nat
    BY DEF Push, Inv, TypeOK
  <2>2. RestoresVars(todo, Len(vars)) /\ RestoresWith(todo, with_stack)
    BY <2>1 DEF Inv, Restores
  <2>3. todo[1].t # "trunc" /\ todo[1].t # "unwith"
    BY <1>1 DEF TokenKinds
  <2>4. RestoresVars(Tail(todo), Len(vars)) /\ RestoresWith(Tail(todo), with_stack)
    BY <1>1, <1>2, <2>1, <2>2, <2>3, TailRestores
  <2> QED  BY <1>1, <2>1, <2>4 DEF Restores
<1> QED  BY <1>1, <1>2, <1>5, <1>6, <1>7, <1>8 DEF Inv

LEMMA StartInv == ASSUME Inv, Start PROVE Inv'
<1>1. UNCHANGED <<prog, vars, with_stack, acc>>
  BY DEF Start
<1>2. \/ status' = "err" /\ todo' = <<>>
      \/ status' = "running" /\ todo' = <<Sub(prog, NW)>>
  BY DEF Start
<1>3. prog \in NodeOpt
  BY NodesAssumption DEF Inv, TypeOK, NodeOpt
<1>4. Sub(prog, NW) \in Item /\ Sub(prog, NW).t = "node"
  BY <1>3, Contexts DEF Item, Sub
<1>5. <<Sub(prog, NW)>> \in Seq(Item) /\ <<>> \in Seq(Item)
  BY <1>4, Tuple0, Tuple1
<1>6. todo' \in Seq(Item) /\ \A j \in 1 .. Len(todo') : todo'[j].t = "node"
  <2>1. CASE todo' = <<>>
    BY <1>5, <2>1
  <2>2. CASE todo' = <<Sub(prog, NW)>>
    <3>1. Len(todo') = 1 /\ todo'[1] = Sub(prog, NW)
      BY <2>2
    <3> QED  BY <1>4, <1>5, <2>2, <3>1
  <2> QED  BY <1>2, <2>1, <2>2
<1>7. Block.t = "open"
  BY DEF Block, Open
<1>8. Truncs(todo', Len(vars)) /\ Withs(todo', with_stack) /\ Blocks(todo', acc)
  BY <1>6, <1>7 DEF Truncs, Withs, Blocks
<1>9. TypeOK' /\ BuiltinsKept' /\ BlockAfterArrow'
  BY <1>1, <1>2, <1>6 DEF Inv, TypeOK, BuiltinsKept, BlockAfterArrow
<1>10. Restores'
  <2>1. status = "parsed" /\ todo = <<>>
    BY DEF Start, Inv, Restores
  <2>2. RestoresVars(todo, Len(vars)) /\ RestoresWith(todo, with_stack)
    BY <2>1 DEF Inv, Restores
  <2>3. Len(todo) = 0
    BY <2>1
  <2>4. RestoresVars(todo', Len(vars)) /\ RestoresWith(todo', with_stack)
    BY <1>6, <2>2, <2>3 DEF RestoresVars, RestoresWith
  <2> QED  BY <1>1, <1>2, <2>4 DEF Restores
<1> QED  BY <1>1, <1>8, <1>9, <1>10 DEF Inv

----------------------------------------------------------------------------
LEMMA InitInv == ASSUME Init PROVE Inv
<1>1. vars = DFL_VARS /\ todo = <<>> /\ acc = <<>> /\ with_stack = 0
      /\ status = "parsed" /\ prog \in Programs
  BY DEF Init
<1>2. vars \in Seq(VarEntry) /\ BuiltinsKept
  BY <1>1 DEF DFL_VARS, VarEntry, IdentCateg, BuiltinsKept
<1>3. TypeOK
  BY <1>1, <1>2, Tuple0 DEF TypeOK, VarEntry
<1>4. Len(todo) = 0 /\ Len(acc) = 0 /\ DOMAIN acc = {}
  BY <1>1
<1>5. Truncs(todo, Len(vars)) /\ Withs(todo, with_stack) /\ Blocks(todo, acc)
      /\ BlockAfterArrow
  BY <1>4 DEF Truncs, Withs, Blocks, BlockAfterArrow
<1>6. Restores
  BY <1>1, <1>4 DEF Restores, RestoresVars, RestoresWith
<1> QED  BY <1>2, <1>3, <1>5, <1>6 DEF Inv

LEMMA StutterInv == ASSUME Inv, UNCHANGED allvars PROVE Inv'
<1>1. /\ prog' = prog /\ status' = status /\ todo' = todo /\ vars' = vars
      /\ with_stack' = with_stack /\ acc' = acc
  BY DEF allvars
<1> QED  BY <1>1 DEF Inv, TypeOK, BuiltinsKept, BlockAfterArrow, Restores

LEMMA FinishInv == ASSUME Inv, Finish PROVE Inv'
<1>1. /\ prog' = prog /\ status' = "done" /\ todo' = todo /\ vars' = vars
      /\ with_stack' = with_stack /\ acc' = acc
  BY DEF Finish
<1>2. Restores'
  BY <1>1 DEF Finish, Inv, Restores
<1> QED  BY <1>1, <1>2 DEF Inv, TypeOK, BuiltinsKept, BlockAfterArrow

(* Every step preserves Inv, one case per action. *)
LEMMA NextInv == ASSUME Inv, [Next]_allvars PROVE Inv'
<1>1. CASE Expression
  BY <1>1, ApplyInv, AssertInv, AttrSetInv, BinOpInv, IsSetInv, TransparentInv,
     IdentInv, IfElseInv, LambdaIdentInv, LambdaPatternInv, LegacyLetInv,
     LetInInv, ListInv, OrDefaultInv, SelectInv, StrInv, UnaryOpInv, ValueInv,
     WithInv DEF Expression
<1>2. CASE Continuation
  BY <1>2, PushInv, PatternFormalInv, RegisterKeyInv, TruncateVarsInv,
     KeyValueInv, KeyElementInv, InheritInv, InheritIdentInv, PropInheritInv,
     IdentRawInv, StringPartInv, WithEndInv DEF Continuation
<1>3. CASE Fail
  BY <1>3, AbortInv DEF Fail
<1>4. CASE Panic
  BY <1>4, AbortInv DEF Panic
<1>5. CASE Start
  BY <1>5, StartInv
<1>6. CASE Finish
  BY <1>6, FinishInv
<1>7. CASE Terminated \/ UNCHANGED allvars
  BY <1>7, StutterInv DEF Terminated
<1> QED  BY <1>1, <1>2, <1>3, <1>4, <1>5, <1>6, <1>7 DEF Next

(* The inductive invariant holds throughout: whatever nodes are visited,   *)
(* the stack of running calls is consistent with vars, with_stack and acc. *)
THEOREM Invariance == Spec => []Inv
<1>1. Init => Inv
  BY InitInv
<1>2. Inv /\ [Next]_allvars => Inv'
  BY NextInv
<1> QED  BY <1>1, <1>2, PTL DEF Spec

(* Types: in particular no call is ever made with laziness already "Did",  *)
(* and every element of the stack has the fields its handler reads.        *)
THEOREM TypeCorrect == Spec => []TypeOK
<1>1. Inv => TypeOK
  BY DEF Inv
<1> QED  BY <1>1, Invariance, PTL

(* The assert!(vars.len() >= orig_vstkl) of Lambda and translate_let never *)
(* fires, and the lengths saved by the calls on the stack are nested.      *)
THEOREM AssertsNeverFire == Spec => []AssertsHold
<1>1. Inv => AssertsHold
  <2>1. SUFFICES ASSUME Inv PROVE AssertsHold
    OBVIOUS
  <2>2. DOMAIN todo = 1 .. Len(todo)
    BY <2>1 DEF Inv, TypeOK
  <2> QED  BY <2>1, <2>2 DEF Inv, Truncs, AssertsHold, IsTrunc
<1> QED  BY <1>1, Invariance, PTL

(* No sequence of registrations and truncations touches the entries that   *)
(* translate() starts with.                                                *)
THEOREM BuiltinsStay == Spec => []BuiltinsKept
<1>1. Inv => BuiltinsKept
  BY DEF Inv
<1> QED  BY <1>1, Invariance, PTL

(* Every block that Assert or translate_let emits is the body of an arrow  *)
(* function, whatever context the node was called with.                    *)
THEOREM BlocksAreBodies == Spec => []BlockAfterArrow
<1>1. Inv => BlockAfterArrow
  BY DEF Inv
<1> QED  BY <1>1, Invariance, PTL

(* with_stack counts the `with's that are open: what the innermost saved,  *)
(* plus one, and 0 outside any.  No identifier is taken for a variable of  *)
(* a `with' that has been left, and the count never drops below zero.      *)
THEOREM WithsCounted == Spec => []WithNested
<1>1. Inv => WithNested
  <2> SUFFICES ASSUME Inv, status = "running"
               PROVE  /\ (\A j \in DOMAIN todo : ~IsUnwith(j)) => with_stack = 0
                      /\ \A j \in DOMAIN todo :
                           IsUnwith(j) /\ (\A i \in 1 .. (j - 1) : ~IsUnwith(i))
                             => with_stack = todo[j].d + 1
    BY DEF WithNested
  <2>1. /\ todo \in Seq(Item) /\ DOMAIN todo = 1 .. Len(todo)
        /\ with_stack \in Nat
    BY DEF Inv, TypeOK
  <2>2. Withs(todo, with_stack) /\ RestoresWith(todo, with_stack)
    BY DEF Inv, Restores
  <2>3. ASSUME \A j \in DOMAIN todo : ~IsUnwith(j)
        PROVE  with_stack = 0
    <3>1. 0 \notin 0 .. (with_stack - 1)
      BY <2>1, <2>2, <2>3 DEF RestoresWith, IsUnwith
    <3> QED  BY <2>1, <3>1
  <2>4. ASSUME NEW j \in DOMAIN todo, IsUnwith(j),
               \A i \in 1 .. (j - 1) : ~IsUnwith(i)
        PROVE  with_stack = todo[j].d + 1
    BY <2>1, <2>2, <2>4, InnermostWith DEF IsUnwith
  <2> QED  BY <2>3, <2>4
<1> QED  BY <1>1, Invariance, PTL

(* A translation that returns leaves vars and with_stack as translate()    *)
(* found them, whichever handlers ran: the saved lengths and depths stand  *)
(* in for the guard that the FIXME asks for.                               *)
THEOREM ReturnsAsItCame == Spec => []FramesRestored
<1>1. Inv => FramesRestored
  <2> SUFFICES ASSUME Inv, status = "done"
               PROVE  vars = DFL_VARS /\ with_stack = 0
    BY DEF FramesRestored
  <2>1. /\ todo = <<>> /\ RestoresVars(todo, Len(vars))
        /\ RestoresWith(todo, with_stack)
    BY DEF Inv, Restores
  <2>2. Len(todo) = 0
    BY <2>1
  <2>3. vars \in Seq(VarEntry) /\ with_stack \in Nat
    BY DEF Inv, TypeOK, VarEntry
  <2>4. with_stack = 0
    <3>1. 0 \notin 0 .. (with_stack - 1)
      BY <2>1, <2>2 DEF RestoresWith
    <3> QED  BY <2>3, <3>1
  <2> DEFINE D == DFL_VARS
  <2>5. D \in Seq(VarEntry) /\ Len(D) \in Nat
    BY DEF DFL_VARS, VarEntry, IdentCateg
  <2>6. Len(vars) >= Len(D) /\ \A j \in 1 .. Len(D) : vars[j] = D[j]
    BY DEF Inv, BuiltinsKept
  <2>7. ~(Len(vars) > Len(D))
    BY <2>1, <2>2 DEF RestoresVars
  <2> HIDE DEF D
  <2>8. Len(vars) = Len(D)
    BY <2>3, <2>5, <2>6, <2>7
  <2>9. vars = D
    BY <2>3, <2>5, <2>6, <2>8, SeqEqual
  <2> QED  BY <2>4, <2>9 DEF D
<1> QED  BY <1>1, Invariance, PTL

----------------------------------------------------------------------------
(***************************************************************************)
(* Uses.  The property is about a token and its predecessor in the output; *)
(* the invariant follows every `use' from the template that contains it,   *)
(* where the call that comes next wants its value awaited or is a builtin  *)
(* (UsesAhead), through the moment when it ends the output and the call    *)
(* is being expanded (LastUse), to its place in the output (UsesBehind).   *)
(***************************************************************************)
UseTok == Open("use", "")

(* What an expression that is used may begin with. *)
Settled(x) ==
  \/ x.t = "open" /\ x.x \in NeverPromise \cup IgnoreContext
  \/ x.t = "lit"

(* A call that wants its value awaited. *)
Waits(x) == x.t \in {"node", "ident"} /\ x.sctx = WN

Starts(T) ==
  /\ Len(T) >= 1
  /\ \/ Waits(T[1]) \/ Settled(T[1])
     \/ T[1] = Arrow /\ Len(T) >= 2 /\ T[2] = Block

(* A call for one of the names K. *)
CallOf(x, K) ==
  \/ x.t = "node" /\ x.node.k = "Ident" /\ x.node.id \in K
  \/ x.t = "ident" /\ x.id \in K

(* The names that mean builtins at present. *)
BuiltinNames == {i \in NameSet : resolve_ident(i) \in {"Literal", "AlBuiltin"}}

(***************************************************************************)
(* Select calls a builtin without wanting it awaited, and knows that it is *)
(* one because only tokens are pushed before the call is made.             *)
(***************************************************************************)
UsesAhead(td, K) ==
  \A j \in 1 .. Len(td) :
    td[j] = UseTok =>
      /\ j + 1 <= Len(td)
      /\ \/ Waits(td[j + 1])
         \/ CallOf(td[j + 1], K) /\ \A i \in 1 .. j : td[i].t \in TokenKinds

LastUse(a, td, K) ==
  /\ Len(a) >= 1 /\ a[Len(a)] = UseTok =>
       Starts(td) \/ (Len(td) >= 1 /\ CallOf(td[1], K))
  /\ Len(a) >= 2 /\ a[Len(a) - 1] = UseTok =>
       Settled(a[Len(a)]) \/ (a[Len(a)] = Arrow /\ Len(td) >= 1 /\ td[1] = Block)

UsesBehind(a) ==
  \A j \in 1 .. Len(a) :
    j > 1 /\ j < Len(a) /\ a[j - 1] = UseTok =>
      Settled(a[j]) \/ (a[j] = Arrow /\ a[j + 1] = Block)

UseInv ==
  /\ UsesBehind(acc)
  /\ UsesAhead(todo, BuiltinNames)
  /\ status = "running" => LastUse(acc, todo, BuiltinNames)
  /\ status = "parsed" => acc = <<>>

(* A template all of whose uses are of the first kind. *)
Awaiting(T) ==
  /\ T \in Seq(Item)
  /\ \A j \in 1 .. Len(T) : T[j] = UseTok => j + 1 <= Len(T) /\ Waits(T[j + 1])

Calm == {x \in Item : x # UseTok}

----------------------------------------------------------------------------
(* Elements of the stack other than a `use'. *)
LEMMA OpenCalm ==
  ASSUME NEW x \in Constructs \ {"use"}, NEW v \in NameSet \cup {""}
  PROVE  Open(x, v) \in Calm
  BY DEF Open, Calm, Item, Token, TokenKinds, UseTok

LEMMA CloseCalm ==
  ASSUME NEW x \in Constructs, NEW v \in NameSet \cup {""}
  PROVE  Close(x, v) \in Calm
  BY DEF Open, Close, Calm, Item, Token, TokenKinds, UseTok

LEMMA PlainCalm ==
  ASSUME NEW m, NEW x \in Plain(m), x.t # "open"
  PROVE  x \in Calm
<1>1. x \in Item
  BY DEF Plain
<1>2. UseTok.t = "open"
  BY DEF UseTok, Open
<1>3. x # UseTok
  BY <1>2
<1> QED  BY <1>1, <1>3 DEF Calm

LEMMA LeafCalm ==
  ASSUME NEW x \in Leaves \cup IdentCateg, NEW v \in NameSet \cup {""}
  PROVE  Read(x, v) \in Calm /\ Decl(v) \in Calm /\ Lit(x, v) \in Calm
<1>1. Read(x, v) \in Plain(0) /\ Decl(v) \in Plain(0) /\ Lit(x, v) \in Plain(0)
  BY LeafPlain
<1>2. Read(x, v).t # "open" /\ Decl(v).t # "open" /\ Lit(x, v).t # "open"
  BY DEF Read, Decl, Lit
<1> QED  BY <1>1, <1>2, PlainCalm

LEMMA SubCalm ==
  ASSUME NEW n \in NodeOpt, NEW s \in Ctx
  PROVE  Sub(n, s) \in Calm
<1>1. Sub(n, s) \in Plain(0) /\ Sub(n, s).t # "open"
  BY SubPlain DEF Sub
<1> QED  BY <1>1, PlainCalm

LEMMA IdentCalm ==
  ASSUME NEW i \in NameSet, NEW s \in Ctx
  PROVE  IdentRef(i, s) \in Calm
<1>1. IdentRef(i, s) \in Plain(0) /\ IdentRef(i, s).t # "open"
  BY IdentPlain DEF IdentRef
<1> QED  BY <1>1, PlainCalm

LEMMA KeyCalm ==
  ASSUME NEW n \in NodeOpt
  PROVE  KeyEl(n) \in Calm
<1>1. KeyEl(n) \in Plain(0) /\ KeyEl(n).t # "open"
  BY KeyPlain DEF KeyEl
<1> QED  BY <1>1, PlainCalm

LEMMA TruncateCalm ==
  ASSUME NEW m \in Nat
  PROVE  Truncate(m) \in Calm
<1>1. Truncate(m) \in Plain(m) /\ Truncate(m).t # "open"
  BY TruncatePlain DEF Truncate
<1> QED  BY <1>1, PlainCalm

LEMMA KeysCalm ==
  ASSUME NEW ks \in SUBSET NameSet, NEW c \in IdentCateg
  PROVE  Keys(ks, c) \in Calm
  BY DEF Keys, Calm, Item, UseTok, Open

LEMMA CalmAwaiting ==
  ASSUME NEW T \in Seq(Calm)
  PROVE  Awaiting(T)
<1>1. T \in Seq(Item)
  BY SeqMonotonic DEF Calm
<1>2. \A j \in 1 .. Len(T) : T[j] # UseTok
  BY DEF Calm
<1> QED  BY <1>1, <1>2 DEF Awaiting

(* A sequence without opening brackets, such as the entries of a set. *)
LEMMA NoOpenAwaiting ==
  ASSUME NEW m, NEW T \in Seq(Plain(m)), \A j \in DOMAIN T : T[j].t # "open"
  PROVE  Awaiting(T)
<1>1. \A j \in DOMAIN T : T[j] \in Calm
  BY Element, PlainCalm
<1>2. T \in Seq(Calm)
  BY <1>1
<1> QED  BY <1>2, CalmAwaiting

LEMMA UseAwaiting ==
  ASSUME NEW n \in NodeOpt
  PROVE  Awaiting(Use(n, WN))
<1> DEFINE U == Use(n, WN)
           y == Sub(n, WN)
           z == Close("use", "")
<1>1. y \in Calm /\ z \in Calm /\ Waits(y)
  BY SubCalm, CloseCalm, Contexts DEF Constructs, Waits, Sub
<1>2. UseTok \in Item
  BY DEF UseTok, Open, Item, Token, TokenKinds, Constructs
<1>3. U = <<UseTok, y, z>>
  BY DEF Use, UseTok
<1> HIDE DEF U, y, z
<1>4. U \in Seq(Item) /\ Len(U) = 3 /\ U[2] = y /\ U[3] = z
  BY <1>1, <1>2, <1>3 DEF Calm
<1>5. ASSUME NEW j \in 1 .. Len(U), U[j] = UseTok
      PROVE  j + 1 <= Len(U) /\ Waits(U[j + 1])
  <2>1. j # 2 /\ j # 3
    BY <1>1, <1>4, <1>5 DEF Calm
  <2>2. j = 1
    BY <1>4, <2>1
  <2> QED  BY <1>1, <1>4, <2>2
<1>6. Awaiting(U)
  BY <1>4, <1>5 DEF Awaiting
<1> QED  BY <1>6 DEF U

LEMMA ConcatAwaiting ==
  ASSUME NEW T, NEW U, Awaiting(T), Awaiting(U)
  PROVE  Awaiting(T \o U)
<1> DEFINE V == T \o U
<1>1. T \in Seq(Item) /\ U \in Seq(Item)
  BY DEF Awaiting
<1>2. /\ V \in Seq(Item)
      /\ Len(V) = Len(T) + Len(U) /\ Len(T) \in Nat /\ Len(U) \in Nat
      /\ \A i \in 1 .. Len(T) : V[i] = T[i]
      /\ \A i \in 1 .. Len(U) : V[Len(T) + i] = U[i]
  BY <1>1
<1> HIDE DEF V
<1>3. ASSUME NEW j \in 1 .. Len(V), V[j] = UseTok
      PROVE  j + 1 <= Len(V) /\ Waits(V[j + 1])
  <2>1. CASE j <= Len(T)
    <3>1. j \in 1 .. Len(T) /\ T[j] = UseTok
      BY <1>2, <1>3, <2>1
    <3>2. j + 1 <= Len(T) /\ Waits(T[j + 1])
      BY <3>1 DEF Awaiting
    <3>3. j + 1 \in 1 .. Len(T) /\ j + 1 <= Len(V)
      BY <1>2, <3>1, <3>2
    <3> QED  BY <1>2, <3>2, <3>3
  <2>2. CASE j > Len(T)
    <3>1. PICK k \in 1 .. Len(U) : j = Len(T) + k
      <4>1. j - Len(T) \in 1 .. Len(U) /\ j = Len(T) + (j - Len(T))
        BY <1>2, <2>2
      <4> QED  BY <4>1
    <3>2. U[k] = UseTok
      BY <1>2, <1>3, <3>1
    <3>3. k + 1 <= Len(U) /\ Waits(U[k + 1])
      BY <3>1, <3>2 DEF Awaiting
    <3>4. k + 1 \in 1 .. Len(U) /\ j + 1 = Len(T) + (k + 1) /\ j + 1 <= Len(V)
      BY <1>2, <3>1, <3>3
    <3> QED  BY <1>2, <3>3, <3>4
  <2> QED  BY <1>2, <2>1, <2>2
<1>4. Awaiting(V)
  BY <1>2, <1>3 DEF Awaiting
<1> QED  BY <1>4 DEF V

(* The wrappers contain no use. *)
LEMMA LazyCalm ==
  ASSUME NEW s, NEW at, NEW lt, NEW adj
  PROVE  /\ lazyness_incoming(s, at, lt, adj).pre \in Seq(Calm)
         /\ lazyness_incoming(s, at, lt, adj).post \in Seq(Calm)
<1> DEFINE P == Calm
<1>1. /\ Open("await", "") \in P /\ Open("lazy", "") \in P
      /\ Close("await", "") \in P /\ Close("lazy", "") \in P
  BY OpenCalm, CloseCalm DEF Constructs
<1>2. /\ <<Open("await", "")>> \in Seq(P) /\ <<Open("lazy", "")>> \in Seq(P)
      /\ <<Close("await", "")>> \in Seq(P) /\ <<Close("lazy", "")>> \in Seq(P)
      /\ <<>> \in Seq(P)
  BY <1>1, Tuple0, Tuple1
<1> HIDE DEF P
<1>3. \A X, Y, Z \in Seq(P) : X \o Y \o Z \in Seq(P)
  OBVIOUS
<1> QED  BY <1>2, <1>3 DEF lazyness_incoming, P

LEMMA WrapAwaiting ==
  ASSUME NEW s, NEW at, NEW lt, NEW adj, NEW T, Awaiting(T)
  PROVE  Awaiting(Wrap(lazyness_incoming(s, at, lt, adj), T))
<1> DEFINE L == lazyness_incoming(s, at, lt, adj)
<1>1. L.pre \in Seq(Calm) /\ L.post \in Seq(Calm)
  BY LazyCalm
<1> HIDE DEF L
<1>2. Awaiting(L.pre) /\ Awaiting(L.post)
  BY <1>1, CalmAwaiting
<1>3. Awaiting(L.pre \o T)
  BY <1>2, ConcatAwaiting
<1>4. Awaiting((L.pre \o T) \o L.post)
  BY <1>2, <1>3, ConcatAwaiting
<1> QED  BY <1>4 DEF Wrap, L

----------------------------------------------------------------------------
(* What a template begins with. *)
LEMMA StartsConcat ==
  ASSUME NEW T \in Seq(Item), NEW U \in Seq(Item), Starts(T)
  PROVE  Starts(T \o U)
<1> DEFINE V == T \o U
<1>1. /\ Len(V) = Len(T) + Len(U) /\ Len(T) \in Nat /\ Len(U) \in Nat
      /\ \A i \in 1 .. Len(T) : V[i] = T[i]
  OBVIOUS
<1> HIDE DEF V
<1>2. Len(V) >= 1 /\ V[1] = T[1]
  BY <1>1 DEF Starts
<1>3. Len(T) >= 2 => Len(V) >= 2 /\ V[2] = T[2]
  BY <1>1
<1>4. Starts(V)
  BY <1>2, <1>3 DEF Starts
<1> QED  BY <1>4 DEF V

LEMMA StartsOne ==
  ASSUME NEW x, Waits(x) \/ Settled(x)
  PROVE  Starts(<<x>>)
<1>1. Len(<<x>>) = 1 /\ <<x>>[1] = x
  OBVIOUS
<1> QED  BY <1>1 DEF Starts

LEMMA StartsOpen ==
  ASSUME NEW x \in NeverPromise \cup IgnoreContext, NEW R \in Seq(Item)
  PROVE  Starts(<<Open(x, "")>> \o R)
<1>1. Settled(Open(x, ""))
  BY DEF Settled, Open
<1>2. <<Open(x, "")>> \in Seq(Item)
  <2>1. Open(x, "") \in Item
    BY DEF NeverPromise, IgnoreContext, Open, Item, Token, TokenKinds, Constructs
  <2> QED  BY <2>1, Tuple1
<1> QED  BY <1>1, <1>2, StartsOne, StartsConcat

(* A value that is wanted awaited: Need and Flush emit the `await' here.   *)
LEMMA StartsAwait ==
  ASSUME NEW at \in {"Need", "Flush"}, NEW lt, NEW adj, NEW T \in Seq(Item)
  PROVE  Starts(Wrap(lazyness_incoming(WN, at, lt, adj), T))
<1> DEFINE L == lazyness_incoming(WN, at, lt, adj)
           A == <<Open("await", "")>>
<1>1. L.pre \in Seq(Item) /\ L.post \in Seq(Item)
  BY LazyCalm, SeqMonotonic DEF Calm
<1>2. \E X \in Seq(Item), Y \in Seq(Item) : L.pre = A \o X \o Y
  <2> DEFINE a == merge_sttr(WN.await_st, at)
             l == merge_sttr(WN.lazy_st, lt)
             wrap == l.do /\ ((~a.do /\ adj # "Back") \/ lta(at, adj))
             again == wrap /\ ~lta(at, adj)
             X == IF wrap THEN <<Open("lazy", "")>> ELSE <<>>
             Y == IF again THEN <<Open("await", "")>> ELSE <<>>
  <2>1. a.do
    BY DEF merge_sttr, merge_sttr_fires, WN, mksctx
  <2>2. Open("lazy", "") \in Item /\ Open("await", "") \in Item
    BY OpenCalm DEF Calm, Constructs
  <2>3. X \in Seq(Item) /\ Y \in Seq(Item)
    BY <2>2, Tuple0, Tuple1
  <2>4. L.pre = (IF a.do THEN A ELSE <<>>) \o X \o Y
    BY DEF lazyness_incoming
  <2>5. L.pre = A \o X \o Y
    BY <2>1, <2>4
  <2> QED  BY <2>3, <2>5
<1> HIDE DEF L
<1>3. PICK X \in Seq(Item), Y \in Seq(Item) : L.pre = A \o X \o Y
  BY <1>2
<1>4. Starts(A) /\ A \in Seq(Item)
  <2>1. Settled(Open("await", "")) /\ Open("await", "") \in Item
    BY OpenCalm DEF Settled, Open, NeverPromise, Calm, Constructs
  <2> QED  BY <2>1, StartsOne, Tuple1
<1> HIDE DEF A
<1>5. A \o X \in Seq(Item) /\ Starts(A \o X)
  BY <1>4, StartsConcat, Concat2
<1>6. Starts(L.pre)
  BY <1>3, <1>5, StartsConcat
<1>7. L.pre \o T \in Seq(Item) /\ Starts(L.pre \o T)
  BY <1>1, <1>6, StartsConcat, Concat2
<1>8. Starts((L.pre \o T) \o L.post)
  BY <1>1, <1>7, StartsConcat
<1> QED  BY <1>8 DEF Wrap, L

(* Forward passes the wish on, and nothing is deferred: no wrapper. *)
LEMMA StartsThrough ==
  ASSUME NEW lt \in {"Forward", "Flush", "Need"}, NEW T \in Seq(Item), Starts(T)
  PROVE  Starts(Wrap(lazyness_incoming(WN, "Forward", lt, "Front"), T))
<1> DEFINE L == lazyness_incoming(WN, "Forward", lt, "Front")
<1>1. L.pre \in Seq(Item) /\ L.post \in Seq(Item)
  BY LazyCalm, SeqMonotonic DEF Calm
<1>2. L.pre = <<>> \o <<>> \o <<>>
  BY DEF lazyness_incoming, merge_sttr, merge_sttr_fires, WN, mksctx, lta
<1>3. L.pre = <<>>
  BY <1>2
<1> HIDE DEF L
<1>4. L.pre \o T = T
  BY <1>3
<1>5. Starts(T \o L.post)
  BY <1>1, StartsConcat
<1> QED  BY <1>4, <1>5 DEF Wrap, L

(* Let-variables: the wrapper is not awaited, the gap the property names. *)
LEMMA StartsForce ==
  ASSUME NEW R \in Seq(Item)
  PROVE  Starts(Wrap(lazyness_incoming(WN, "Forward", "Force", "Front"), <<Block>> \o R))
<1> DEFINE L == lazyness_incoming(WN, "Forward", "Force", "Front")
           T == <<Block>> \o R
<1>1. L.post \in Seq(Item)
  BY LazyCalm, SeqMonotonic DEF Calm
<1>2. L.pre = <<>> \o <<Arrow>> \o <<>>
  BY DEF lazyness_incoming, merge_sttr, merge_sttr_fires, WN, mksctx, lta, Arrow
<1>3. Arrow \in Item /\ Block \in Item
  BY OpenCalm DEF Calm, Constructs, Arrow, Block
<1>4. <<Arrow>> \in Seq(Item) /\ <<Block>> \in Seq(Item)
  BY <1>3
<1>5. L.pre = <<Arrow>>
  BY <1>2, <1>4
<1> HIDE DEF L
<1>6. T \in Seq(Item) /\ Len(T) >= 1 /\ T[1] = Block
  BY <1>4
<1> HIDE DEF T
<1> DEFINE V == <<Arrow>> \o T
<1>7. V \in Seq(Item) /\ Len(V) >= 2 /\ V[1] = Arrow /\ V[2] = Block
  BY <1>4, <1>6
<1> HIDE DEF V
<1>8. Starts(V)
  BY <1>7 DEF Starts
<1>9. Starts(V \o L.post)
  BY <1>1, <1>7, <1>8, StartsConcat
<1> QED  BY <1>5, <1>9 DEF Wrap, L, T, V

----------------------------------------------------------------------------
(* A call is replaced by what it expands to. *)
LEMMA AwaitingAhead ==
  ASSUME NEW T, Awaiting(T), NEW K
  PROVE  UsesAhead(T, K)
  BY DEF Awaiting, UsesAhead

LEMMA SpliceIndex ==
  ASSUME NEW td \in Seq(Item), td # <<>>, NEW T \in Seq(Item)
  PROVE  /\ T \o Tail(td) \in Seq(Item)
         /\ \A j \in 2 .. Len(td) : (T \o Tail(td))[Len(T) + j - 1] = td[j]
         /\ \A j \in 1 .. Len(T) : (T \o Tail(td))[j] = T[j]
         /\ Len(T \o Tail(td)) = Len(T) + Len(td) - 1
         /\ Len(T) \in Nat /\ Len(td) \in Nat /\ Len(td) >= 1
  OBVIOUS

LEMMA SpliceAhead ==
  ASSUME NEW td \in Seq(Item), td # <<>>, td[1].t \notin TokenKinds,
         NEW T \in Seq(Item), NEW K, NEW M, UsesAhead(td, K), UsesAhead(T, M)
  PROVE  UsesAhead(T \o Tail(td), M)
<1> DEFINE V == T \o Tail(td)
<1>1. /\ \A j \in 2 .. Len(td) : V[Len(T) + j - 1] = td[j]
      /\ \A j \in 1 .. Len(T) : V[j] = T[j]
      /\ Len(V) = Len(T) + Len(td) - 1
      /\ Len(T) \in Nat /\ Len(td) \in Nat /\ Len(td) >= 1
  BY SpliceIndex
<1> HIDE DEF V
<1>2. ASSUME NEW j \in 1 .. Len(V), V[j] = UseTok
      PROVE  /\ j + 1 <= Len(V)
             /\ \/ Waits(V[j + 1])
                \/ CallOf(V[j + 1], M) /\ \A i \in 1 .. j : V[i].t \in TokenKinds
  <2>1. CASE j <= Len(T)
    <3>1. j \in 1 .. Len(T) /\ T[j] = UseTok
      BY <1>1, <1>2, <2>1
    <3>2. /\ j + 1 <= Len(T)
          /\ \/ Waits(T[j + 1])
             \/ CallOf(T[j + 1], M) /\ \A i \in 1 .. j : T[i].t \in TokenKinds
      BY <3>1 DEF UsesAhead
    <3>3. /\ j + 1 <= Len(V) /\ V[j + 1] = T[j + 1]
          /\ \A i \in 1 .. j : V[i] = T[i]
      BY <1>1, <3>1, <3>2
    <3> QED  BY <3>2, <3>3
  <2>2. CASE j > Len(T)
    <3>1. PICK k \in 2 .. Len(td) : j = Len(T) + k - 1
      <4>1. /\ j - Len(T) + 1 \in 2 .. Len(td)
            /\ j = Len(T) + (j - Len(T) + 1) - 1
        BY <1>1, <2>2
      <4> QED  BY <4>1
    <3>2. td[k] = UseTok /\ k \in 1 .. Len(td)
      BY <1>1, <1>2, <3>1
    <3>3. /\ k + 1 <= Len(td)
          /\ \/ Waits(td[k + 1])
             \/ CallOf(td[k + 1], K) /\ \A i \in 1 .. k : td[i].t \in TokenKinds
      BY <3>2 DEF UsesAhead
    <3>4. 1 \in 1 .. k
      BY <3>1, <1>1
    <3>5. k + 1 <= Len(td) /\ Waits(td[k + 1])
      BY <3>3, <3>4
    <3>6. k + 1 \in 2 .. Len(td) /\ j + 1 = Len(T) + (k + 1) - 1 /\ j + 1 <= Len(V)
      BY <1>1, <3>1, <3>5
    <3>7. V[j + 1] = td[k + 1]
      BY <1>1, <3>6
    <3> QED  BY <3>5, <3>6, <3>7
  <2> QED  BY <1>1, <2>1, <2>2
<1>3. UsesAhead(V, M)
  BY <1>2 DEF UsesAhead
<1> QED  BY <1>3 DEF V

LEMMA CallIsNoToken ==
  ASSUME NEW x, x.t \notin TokenKinds
  PROVE  ~Settled(x) /\ x # Arrow /\ x # Block /\ x # UseTok
<1>1. Arrow.t = "open" /\ Block.t = "open" /\ UseTok.t = "open"
  BY DEF Arrow, Block, UseTok, Open
<1> QED  BY <1>1 DEF Settled, TokenKinds

LEMMA SpliceLast ==
  ASSUME NEW td \in Seq(Item), td # <<>>, td[1].t \notin TokenKinds,
         NEW T \in Seq(Item), NEW K, NEW M, NEW a, LastUse(a, td, K),
         Waits(td[1]) \/ CallOf(td[1], K) =>
           Starts(T) \/ (Len(T) >= 1 /\ CallOf(T[1], M))
  PROVE  LastUse(a, T \o Tail(td), M)
<1> DEFINE V == T \o Tail(td)
<1>1. /\ \A j \in 1 .. Len(T) : V[j] = T[j]
      /\ Len(V) = Len(T) + Len(td) - 1
      /\ Len(T) \in Nat /\ Len(td) \in Nat /\ Len(td) >= 1
  BY SpliceIndex
<1>2. Starts(T) => Starts(V)
  <2>1. Tail(td) \in Seq(Item)
    OBVIOUS
  <2> QED  BY <2>1, StartsConcat
<1> HIDE DEF V
<1>3. ~Settled(td[1]) /\ td[1] # Arrow /\ td[1] # Block
  BY CallIsNoToken
<1>4. ASSUME Len(a) >= 1, a[Len(a)] = UseTok
      PROVE  Starts(V) \/ (Len(V) >= 1 /\ CallOf(V[1], M))
  <2>1. Starts(td) \/ CallOf(td[1], K)
    BY <1>4 DEF LastUse
  <2>2. Waits(td[1]) \/ CallOf(td[1], K)
    BY <1>3, <2>1 DEF Starts
  <2>3. Len(T) >= 1 /\ CallOf(T[1], M) => Len(V) >= 1 /\ CallOf(V[1], M)
    BY <1>1
  <2> QED  BY <1>2, <2>2, <2>3
<1>5. ASSUME Len(a) >= 2, a[Len(a) - 1] = UseTok
      PROVE  Settled(a[Len(a)])
  BY <1>3, <1>5 DEF LastUse
<1>6. LastUse(a, V, M)
  BY <1>4, <1>5 DEF LastUse
<1> QED  BY <1>6 DEF V

(***************************************************************************)
(* One step: a call gives way to T.  K is what BuiltinNames becomes.       *)
(***************************************************************************)
LEMMA UseStep ==
  ASSUME TypeOK, UseInv, status = "running", todo # <<>>,
         Head(todo).t \notin TokenKinds,
         NEW T, Awaiting(T),
         Waits(Head(todo)) \/ CallOf(Head(todo), BuiltinNames) => Starts(T),
         todo' = T \o Tail(todo), acc' = acc, status' # "parsed"
  PROVE  UseInv'
<1>1. PICK M : M = BuiltinNames'
  OBVIOUS
<1>2. todo \in Seq(Item) /\ Head(todo) = todo[1]
  BY HeadItem DEF TypeOK
<1>3. T \in Seq(Item) /\ UsesAhead(T, M)
  BY AwaitingAhead DEF Awaiting
<1>4. /\ UsesBehind(acc) /\ UsesAhead(todo, BuiltinNames)
      /\ LastUse(acc, todo, BuiltinNames)
  BY DEF UseInv
<1>5. UsesAhead(T \o Tail(todo), M)
  BY <1>2, <1>3, <1>4, SpliceAhead
<1>6. LastUse(acc, T \o Tail(todo), M)
  BY <1>2, <1>3, <1>4, SpliceLast
<1>7. UsesBehind(acc)' /\ UsesAhead(todo', M) /\ LastUse(acc', todo', M)
  <2>1. UsesBehind(acc')
    BY <1>4
  <2> QED  BY <1>5, <1>6, <2>1
<1> QED  BY <1>1, <1>7 DEF UseInv

----------------------------------------------------------------------------
(* The handlers of translate_node. *)
LEMMA VisitUse ==
  ASSUME TypeOK, UseInv, Running("node"), N.k # "Ident",
         NEW T, Awaiting(T), S = WN => Starts(T), Replace(T)
  PROVE  UseInv'
<1>1. /\ status = "running" /\ todo # <<>> /\ Head(todo).t = "node"
      /\ todo' = T \o Tail(todo) /\ acc' = acc /\ status' # "parsed"
  BY DEF Running, Replace
<1>2. ~CallOf(Head(todo), BuiltinNames)
  BY <1>1 DEF CallOf, N
<1>3. Waits(Head(todo)) => Starts(T)
  BY DEF Waits, S
<1>4. Head(todo).t \notin TokenKinds
  BY <1>1 DEF TokenKinds
<1> QED  BY <1>1, <1>2, <1>3, <1>4, UseStep

LEMMA NeedUse ==
  ASSUME TypeOK, UseInv, Running("node"), N.k # "Ident",
         NEW at \in {"Need", "Flush"}, NEW lt, NEW T, Awaiting(T),
         Replace(Wrap(Incoming(at, lt), T))
  PROVE  UseInv'
<1> DEFINE L == lazyness_incoming(S, at, lt, "Front")
<1>1. Awaiting(Wrap(L, T)) /\ Replace(Wrap(L, T))
  BY WrapAwaiting DEF Incoming
<1>2. S = WN => Starts(Wrap(L, T))
  BY StartsAwait DEF Awaiting
<1> HIDE DEF L
<1> QED  BY <1>1, <1>2, VisitUse

LEMMA ForwardUse ==
  ASSUME TypeOK, UseInv, Running("node"), N.k # "Ident",
         NEW lt \in {"Forward", "Flush", "Need"}, NEW T, Awaiting(T), Starts(T),
         Replace(Wrap(Incoming("Forward", lt), T))
  PROVE  UseInv'
<1> DEFINE L == lazyness_incoming(S, "Forward", lt, "Front")
<1>1. Awaiting(Wrap(L, T)) /\ Replace(Wrap(L, T))
  BY WrapAwaiting DEF Incoming
<1>2. S = WN => Starts(Wrap(L, T))
  BY StartsThrough DEF Awaiting
<1> HIDE DEF L
<1> QED  BY <1>1, <1>2, VisitUse

(* The calls whose values nobody uses directly. *)
LEMMA ContUse ==
  ASSUME TypeOK, UseInv, NEW t, Running(t), t \notin TokenKinds,
         t # "node", t # "ident", NEW T, Awaiting(T), Replace(T)
  PROVE  UseInv'
<1>1. /\ status = "running" /\ todo # <<>> /\ Head(todo).t = t
      /\ todo' = T \o Tail(todo) /\ acc' = acc /\ status' # "parsed"
  BY DEF Running, Replace
<1>2. ~CallOf(Head(todo), BuiltinNames) /\ ~Waits(Head(todo))
  BY <1>1 DEF CallOf, Waits
<1> QED  BY <1>1, <1>2, UseStep

LEMMA CalmBrackets ==
  ASSUME NEW x \in Constructs \ {"use"}, NEW v \in NameSet \cup {""}
  PROVE  /\ Open(x, v) \in Calm /\ Close(x, v) \in Calm
         /\ Awaiting(<<Open(x, v)>>) /\ Awaiting(<<Close(x, v)>>)
  BY OpenCalm, CloseCalm, Tuple1, CalmAwaiting

LEMMA ApplyUse == ASSUME TypeOK, UseInv, Apply PROVE UseInv'
<1>1. NodeShape(N) /\ N.k = "Apply"
  BY VisitNode DEF Apply
<1>2. N.lambda \in NodeOpt /\ N.value \in NodeOpt
  BY <1>1 DEF NodeShape
<1> DEFINE A == <<Open("call", "")>>
           U == Use(N.lambda, WN)
           B == <<Sub(N.value, NN), Close("call", "")>>
<1>3. Awaiting(A) /\ Awaiting(U)
  BY <1>2, CalmBrackets, UseAwaiting DEF Constructs
<1>4. Sub(N.value, NN) \in Calm /\ Close("call", "") \in Calm
  BY <1>2, SubCalm, CalmBrackets, Contexts DEF Constructs
<1>5. Awaiting(B)
  BY <1>4, Tuple2, CalmAwaiting
<1>6. Running("node") /\ Replace(Wrap(Incoming("Need", "Need"), A \o U \o B))
  BY DEF Apply, Visit
<1> HIDE DEF A, U, B
<1>7. Awaiting(A \o U \o B)
  BY <1>3, <1>5, ConcatAwaiting
<1> QED  BY <1>1, <1>6, <1>7, NeedUse

LEMMA AssertUse == ASSUME TypeOK, UseInv, Assert PROVE UseInv'
<1>1. NodeShape(N) /\ N.k = "Assert"
  BY VisitNode DEF Assert
<1>2. N.condition \in NodeOpt /\ N.body \in NodeOpt
  BY <1>1 DEF NodeShape
<1> DEFINE A == <<Open("block", "")>>
           R == <<Open("await", ""), Open("call", ""), Sub(N.condition, NN),
                  Close("call", ""), Close("await", ""), Sub(N.body, WN),
                  Close("block", "")>>
<1>3. /\ Open("await", "") \in Calm /\ Open("call", "") \in Calm
      /\ Close("await", "") \in Calm /\ Close("call", "") \in Calm
      /\ Close("block", "") \in Calm /\ Awaiting(A)
  BY CalmBrackets DEF Constructs
<1>4. Sub(N.condition, NN) \in Calm /\ Sub(N.body, WN) \in Calm
  BY <1>2, SubCalm, Contexts
<1>5. Awaiting(R)
  BY <1>3, <1>4, Tuple7, CalmAwaiting
<1>6. Running("node") /\ Replace(Wrap(Incoming("Flush", "Force"), A \o R))
  BY DEF Assert, Visit
<1> HIDE DEF A, R
<1>7. Awaiting(A \o R)
  BY <1>3, <1>5, ConcatAwaiting
<1> QED  BY <1>1, <1>6, <1>7, NeedUse

LEMMA BinOpUse == ASSUME TypeOK, UseInv, BinOp PROVE UseInv'
<1>1. NodeShape(N) /\ N.k = "BinOp"
  BY VisitNode DEF BinOp
<1>2. N.lhs \in NodeOpt /\ N.rhs \in NodeOpt
  BY <1>1 DEF NodeShape
<1> DEFINE U == <<Open("call", ""), Sub(N.lhs, NN), Sub(N.rhs, NN), Close("call", "")>>
<1>3. Sub(N.lhs, NN) \in Calm /\ Sub(N.rhs, NN) \in Calm
  BY <1>2, SubCalm, Contexts
<1>4. Awaiting(U)
  BY <1>3, CalmBrackets, Tuple4, CalmAwaiting DEF Constructs
<1>5. Running("node") /\ Replace(Wrap(Incoming("Need", "Flush"), U))
  BY DEF BinOp, Visit
<1> HIDE DEF U
<1> QED  BY <1>1, <1>4, <1>5, NeedUse

LEMMA IsSetUse == ASSUME TypeOK, UseInv, IsSet PROVE UseInv'
<1>1. NodeShape(N) /\ N.k = "BinOp"
  BY VisitNode DEF IsSet
<1>2. N.lhs \in NodeOpt /\ N.rhs \in NodeOpt
  BY <1>1 DEF NodeShape
<1> DEFINE A == <<Open("isset", "")>>
           U == Use(N.lhs, WN)
           B == <<KeyEl(N.rhs), Close("isset", "")>>
<1>3. Awaiting(A) /\ Awaiting(U)
  BY <1>2, CalmBrackets, UseAwaiting DEF Constructs
<1>4. KeyEl(N.rhs) \in Calm /\ Close("isset", "") \in Calm
  BY <1>2, KeyCalm, CalmBrackets DEF Constructs
<1>5. Awaiting(B)
  BY <1>4, Tuple2, CalmAwaiting
<1>6. Running("node") /\ Replace(A \o U \o B)
  BY DEF IsSet, Visit
<1>7. Starts(A) /\ A \in Seq(Item)
  BY <1>3, StartsOne DEF Settled, Open, NeverPromise, Awaiting
<1> HIDE DEF A, U, B
<1>8. Awaiting(A \o U) /\ Awaiting(A \o U \o B)
  BY <1>3, <1>5, ConcatAwaiting
<1>9. Starts(A \o U)
  BY <1>3, <1>7, StartsConcat DEF Awaiting
<1>10. Starts((A \o U) \o B)
  BY <1>5, <1>8, <1>9, StartsConcat DEF Awaiting
<1> QED  BY <1>1, <1>6, <1>8, <1>10, VisitUse

LEMMA TransparentUse == ASSUME TypeOK, UseInv, Transparent PROVE UseInv'
<1>1. NodeShape(N) /\ N.k \in {"Dynamic", "Paren", "Root"} /\ S \in Ctx
  BY VisitNode DEF Transparent
<1>2. N.inner \in NodeOpt
  BY <1>1 DEF NodeShape
<1>3. Awaiting(<<Sub(N.inner, S)>>)
  BY <1>1, <1>2, SubCalm, Tuple1, CalmAwaiting
<1>4. S = WN => Starts(<<Sub(N.inner, S)>>)
  BY StartsOne DEF Waits, Sub
<1>5. Running("node") /\ Replace(<<Sub(N.inner, S)>>)
  BY DEF Transparent, Visit
<1> QED  BY <1>1, <1>3, <1>4, <1>5, VisitUse

(* A name that is used stays the call it was. *)
LEMMA IdentUse == ASSUME TypeOK, UseInv, Ident PROVE UseInv'
<1> DEFINE x == IdentRef(N.id, S)
           T == <<x>>
<1>1. NodeShape(N) /\ N.k = "Ident" /\ S \in Ctx
  BY VisitNode DEF Ident
<1>2. N.id \in NameSet
  BY <1>1 DEF NodeShape
<1>3. Awaiting(T)
  BY <1>1, <1>2, IdentCalm, Tuple1, CalmAwaiting
<1>4. /\ status = "running" /\ todo # <<>> /\ Head(todo).t = "node"
      /\ todo' = T \o Tail(todo)
      /\ acc' = acc /\ status' = status /\ vars' = vars /\ with_stack' = with_stack
  BY DEF Ident, Visit, Running, Replace
<1>5. todo \in Seq(Item) /\ Head(todo) = todo[1]
  BY <1>4, HeadItem DEF TypeOK
<1>6. Waits(todo[1]) => Starts(T)
  BY <1>5, StartsOne DEF Waits, IdentRef, S
<1>7. CallOf(todo[1], BuiltinNames) => Len(T) >= 1 /\ CallOf(T[1], BuiltinNames)
  <2>1. Len(T) = 1 /\ T[1] = x
    OBVIOUS
  <2>2. x.t = "ident" /\ x.id = N.id
    BY DEF IdentRef
  <2> HIDE DEF x, T
  <2> QED  BY <1>4, <1>5, <2>1, <2>2 DEF CallOf, N
<1> HIDE DEF T
<1>8. T \in Seq(Item) /\ UsesAhead(T, BuiltinNames)
  BY <1>3, AwaitingAhead DEF Awaiting
<1>9. todo[1].t \notin TokenKinds
  BY <1>4, <1>5 DEF TokenKinds
<1>10. /\ UsesBehind(acc) /\ UsesAhead(todo, BuiltinNames)
       /\ LastUse(acc, todo, BuiltinNames)
  BY <1>4 DEF UseInv
<1>11. UsesAhead(T \o Tail(todo), BuiltinNames)
  BY <1>4, <1>5, <1>8, <1>9, <1>10, SpliceAhead
<1>12. LastUse(acc, T \o Tail(todo), BuiltinNames)
  BY <1>4, <1>5, <1>6, <1>7, <1>8, <1>9, <1>10, SpliceLast
<1>13. BuiltinNames' = BuiltinNames
  BY <1>4 DEF BuiltinNames, resolve_ident, Bound
<1> QED  BY <1>4, <1>10, <1>11, <1>12, <1>13 DEF UseInv

LEMMA IfElseUse == ASSUME TypeOK, UseInv, IfElse PROVE UseInv'
<1>1. NodeShape(N) /\ N.k = "IfElse" /\ S \in Ctx
  BY VisitNode DEF IfElse
<1>2. N.condition \in NodeOpt /\ N.body \in NodeOpt /\ N.else_body \in NodeOpt
  BY <1>1 DEF NodeShape
<1> DEFINE L == Incoming("Flush", "Flush")
           A == <<Open("if", "")>>
           U == Use(N.condition, WN)
           B == <<Sub(N.body, L.sctx), Sub(N.else_body, L.sctx), Close("if", "")>>
<1>3. L.sctx \in Ctx
  BY <1>1, LazyCtx DEF Incoming
<1>4. Awaiting(A) /\ Awaiting(U) /\ Close("if", "") \in Calm
  BY <1>2, CalmBrackets, UseAwaiting DEF Constructs
<1>5. Sub(N.body, L.sctx) \in Calm /\ Sub(N.else_body, L.sctx) \in Calm
  BY <1>2, <1>3, SubCalm
<1>6. Awaiting(B)
  BY <1>4, <1>5, Tuple3, CalmAwaiting
<1>7. Running("node") /\ Replace(Wrap(Incoming("Flush", "Flush"), A \o U \o B))
  BY DEF IfElse, Visit
<1> HIDE DEF A, U, B
<1>8. Awaiting(A \o U \o B)
  BY <1>4, <1>6, ConcatAwaiting
<1> QED  BY <1>1, <1>7, <1>8, NeedUse

LEMMA LambdaIdentUse == ASSUME TypeOK, UseInv, LambdaIdent PROVE UseInv'
<1>1. N \in Node /\ NodeShape(N) /\ N.k = "Lambda"
  BY VisitNode DEF LambdaIdent
<1>2. N.arg \in NodeOpt /\ N.body \in NodeOpt /\ N.arg.k = "Ident"
  BY <1>1 DEF NodeShape, LambdaIdent
<1>3. N.arg \in Node
  BY <1>2 DEF NodeOpt, None
<1>4. N.arg.id \in NameSet
  BY <1>2, <1>3, NodesAssumption DEF NodeShape
<1> DEFINE T == <<Open("lambda", ""), Decl(N.arg.id), Sub(N.body, WN),
                  Truncate(Len(vars)), Close("lambda", "")>>
<1>5. Len(vars) \in Nat
  BY DEF TypeOK
<1>6. /\ Open("lambda", "") \in Calm /\ Close("lambda", "") \in Calm
      /\ Decl(N.arg.id) \in Calm
  BY <1>4, CalmBrackets, LeafCalm DEF Constructs, Leaves
<1>7. Sub(N.body, WN) \in Calm /\ Truncate(Len(vars)) \in Calm
  BY <1>2, <1>5, SubCalm, TruncateCalm, Contexts
<1>8. Awaiting(T)
  BY <1>6, <1>7, Tuple5, CalmAwaiting
<1>9. Starts(T)
  <2>1. Len(T) >= 1 /\ T[1] = Open("lambda", "")
    OBVIOUS
  <2>2. Settled(Open("lambda", ""))
    BY DEF Settled, Open, NeverPromise
  <2> HIDE DEF T
  <2>3. Settled(T[1])
    BY <2>1, <2>2, Zenon
  <2> QED  BY <2>1, <2>3 DEF Starts
<1>10. /\ status = "running" /\ todo # <<>> /\ Head(todo).t \notin TokenKinds
       /\ todo' = T \o Tail(todo) /\ acc' = acc /\ status' # "parsed"
  BY DEF LambdaIdent, Visit, Running, TokenKinds
<1> HIDE DEF T
<1> QED  BY <1>8, <1>9, <1>10, UseStep

LEMMA LambdaPatternUse == ASSUME TypeOK, UseInv, LambdaPattern PROVE UseInv'
<1> DEFINE p == N.arg
           at == IF p.at = "" THEN <<>> ELSE <<p.at>>
           T1 == <<Open("lambda", "")>>
           T2 == [j \in DOMAIN at |-> Decl(at[j])]
           T3 == <<Open("await", ""), Close("await", "")>>
           T4 == [j \in DOMAIN p.formals |-> Formal(p.formals[j])]
           T5 == <<Sub(N.body, WN), Truncate(Len(vars)), Close("lambda", "")>>
           T == T1 \o T2 \o T3 \o T4 \o T5
<1>1. N \in Node /\ NodeShape(N) /\ N.k = "Lambda"
  BY VisitNode DEF LambdaPattern
<1>2. p \in NodeOpt /\ N.body \in NodeOpt /\ p.k = "Pattern"
  BY <1>1 DEF NodeShape, LambdaPattern
<1>3. p \in Node
  BY <1>2 DEF NodeOpt, None
<1>4. p.at \in NameSet \cup {""} /\ p.formals \in Seq(PatEntry)
  BY <1>2, <1>3, NodesAssumption DEF NodeShape
<1>5. at \in Seq(NameSet)
  BY <1>4, Tuple0, Tuple1
<1>6. T2 \in [DOMAIN at -> Calm]
  <2>1. \A i \in NameSet : Decl(i) \in Calm
    BY LeafCalm DEF Leaves
  <2>2. \A j \in DOMAIN at : at[j] \in NameSet
    <3> HIDE DEF at
    <3> QED  BY <1>5, Element
  <2> QED  BY <2>1, <2>2
<1>7. T4 \in [DOMAIN p.formals -> Calm]
  <2>1. \A f \in PatEntry : Formal(f) \in Plain(0) /\ Formal(f).t # "open"
    BY FormalPlain DEF Formal
  <2>2. \A f \in PatEntry : Formal(f) \in Calm
    BY <2>1, PlainCalm
  <2>3. \A j \in DOMAIN p.formals : p.formals[j] \in PatEntry
    BY <1>4, Element
  <2> QED  BY <2>2, <2>3
<1>8. T2 \in Seq(Calm) /\ T4 \in Seq(Calm)
  <2> HIDE DEF at, T2, T4
  <2> QED  BY <1>4, <1>5, <1>6, <1>7, MapSeq
<1>9. Awaiting(T1) /\ T3 \in Seq(Calm)
  BY CalmBrackets, Tuple2 DEF Constructs
<1>10. T5 \in Seq(Calm)
  <2>1. Len(vars) \in Nat
    BY DEF TypeOK
  <2>2. Sub(N.body, WN) \in Calm /\ Truncate(Len(vars)) \in Calm
    BY <1>2, <2>1, SubCalm, TruncateCalm, Contexts
  <2> QED  BY <2>2, CalmBrackets, Tuple3 DEF Constructs
<1>11. Starts(T1) /\ T1 \in Seq(Item)
  BY <1>9, StartsOne DEF Settled, Open, NeverPromise, Awaiting
<1>12. /\ status = "running" /\ todo # <<>> /\ Head(todo).t \notin TokenKinds
       /\ todo' = T \o Tail(todo) /\ acc' = acc /\ status' # "parsed"
  BY DEF LambdaPattern, Visit, Running, TokenKinds
<1> HIDE DEF at, T1, T2, T3, T4, T5
<1>13. Awaiting(T2) /\ Awaiting(T3) /\ Awaiting(T4) /\ Awaiting(T5)
  BY <1>8, <1>9, <1>10, CalmAwaiting
<1>14. Awaiting(T1 \o T2) /\ Starts(T1 \o T2)
  BY <1>9, <1>11, <1>13, ConcatAwaiting, StartsConcat DEF Awaiting
<1>15. Awaiting(T1 \o T2 \o T3) /\ Starts(T1 \o T2 \o T3)
  BY <1>13, <1>14, ConcatAwaiting, StartsConcat DEF Awaiting
<1>16. Awaiting(T1 \o T2 \o T3 \o T4) /\ Starts(T1 \o T2 \o T3 \o T4)
  BY <1>13, <1>15, ConcatAwaiting, StartsConcat DEF Awaiting
<1>17. Awaiting(T) /\ Starts(T)
  BY <1>13, <1>16, ConcatAwaiting, StartsConcat DEF Awaiting
<1> HIDE DEF T
<1> QED  BY <1>12, <1>17, UseStep

LEMMA PatternFormalUse == ASSUME TypeOK, UseInv, PatternFormal PROVE UseInv'
<1> DEFINE f == Head(todo).formal
           A == <<Decl(f.name), Open("set", f.name)>>
           B == IF f.default = None THEN <<>> ELSE <<Sub(f.default, NW)>>
           C == <<Close("set", f.name)>>
<1>1. f \in PatEntry
  BY HeadFields DEF PatternFormal, Running
<1>2. f.name \in NameSet \cup {""} /\ f.default \in NodeOpt
  BY <1>1 DEF PatEntry
<1>3. Decl(f.name) \in Calm /\ Open("set", f.name) \in Calm /\ Awaiting(C)
  BY <1>2, LeafCalm, CalmBrackets DEF Leaves, Constructs
<1>4. Awaiting(A)
  BY <1>3, Tuple2, CalmAwaiting
<1>5. Sub(f.default, NW) \in Calm
  BY <1>2, SubCalm, Contexts
<1>6. Awaiting(B)
  BY <1>5, Tuple0, Tuple1, CalmAwaiting
<1>7. Running("formal") /\ Replace(A \o B \o C)
  BY DEF PatternFormal
<1> HIDE DEF A, B, C
<1>8. Awaiting(A \o B \o C)
  BY <1>3, <1>4, <1>6, ConcatAwaiting
<1> QED  BY <1>7, <1>8, ContUse DEF TokenKinds

----------------------------------------------------------------------------
(* translate_let. *)
LEMMA InhsAwaiting ==
  ASSUME NEW q \in Seq(Inherits)
  PROVE  /\ Awaiting([j \in DOMAIN q |-> Inh(q[j])])
         /\ Awaiting([j \in DOMAIN q |-> PropInh(q[j])])
<1> DEFINE f == [j \in DOMAIN q |-> Inh(q[j])]
           g == [j \in DOMAIN q |-> PropInh(q[j])]
<1>1. f \in Seq(Plain(0)) /\ g \in Seq(Plain(0))
  BY InhsPlain
<1>2. \A j \in DOMAIN f : f[j].t # "open"
  BY DEF Inh
<1>3. \A j \in DOMAIN g : g[j].t # "open"
  BY DEF PropInh
<1> HIDE DEF f, g
<1>4. Awaiting(f) /\ Awaiting(g)
  BY <1>1, <1>2, <1>3, NoOpenAwaiting
<1> QED  BY <1>4 DEF f, g

LEMMA KvsAwaiting ==
  ASSUME NEW q \in Seq(Entry), NEW scope \in Scopes,
         scope = NO_SCOPE => \A j \in DOMAIN q :
           q[j].value # None /\ q[j].key # <<>> /\ q[j].key[1].k = "Ident"
  PROVE  Awaiting([j \in DOMAIN q |-> Kv(q[j], scope)])
<1> DEFINE f == [j \in DOMAIN q |-> Kv(q[j], scope)]
<1>1. f \in Seq(Plain(0))
  BY KvsPlain
<1>2. \A j \in DOMAIN f : f[j].t # "open"
  BY DEF Kv
<1> HIDE DEF f
<1>3. Awaiting(f)
  BY <1>1, <1>2, NoOpenAwaiting
<1> QED  BY <1>3 DEF f

LEMMA LetLiteralUse ==
  ASSUME NEW n, n.entries \in Seq(Entry), n.inherits \in Seq(Inherits), NEW s
  PROVE  Awaiting(LetLiteral(n, s)) /\ (s = WN => Starts(LetLiteral(n, s)))
<1> DEFINE A == <<Open("obj", "")>>
           B == [j \in DOMAIN n.entries |-> Sub(n.entries[j].value, NW)]
           C == [j \in DOMAIN n.inherits |-> PropInh(n.inherits[j])]
           D == <<Close("obj", "")>>
           T == A \o B \o C \o D
<1>1. Awaiting(A) /\ Awaiting(D)
  BY CalmBrackets DEF Constructs
<1>2. \A j \in DOMAIN n.entries : n.entries[j].value \in NodeOpt
  BY Element, EntryFields
<1>3. B \in [DOMAIN n.entries -> Calm]
  BY <1>2, SubCalm, Contexts
<1>4. Awaiting(C)
  BY InhsAwaiting
<1>5. Starts(A)
  BY StartsOne DEF Settled, Open, NeverPromise
<1> HIDE DEF A, B, C, D
<1>6. Awaiting(B)
  BY <1>3, MapSeq, CalmAwaiting
<1>7. Awaiting(A \o B) /\ Starts(A \o B)
  BY <1>1, <1>5, <1>6, ConcatAwaiting, StartsConcat DEF Awaiting
<1>8. Awaiting(A \o B \o C) /\ Starts(A \o B \o C)
  BY <1>4, <1>7, ConcatAwaiting, StartsConcat DEF Awaiting
<1>9. Awaiting(T) /\ Starts(T)
  BY <1>1, <1>8, ConcatAwaiting, StartsConcat DEF Awaiting
<1> DEFINE L == lazyness_incoming(s, "Forward", "Forward", "Front")
<1> HIDE DEF T
<1>10. Awaiting(Wrap(L, T)) /\ (s = WN => Starts(Wrap(L, T)))
  BY <1>9, WrapAwaiting, StartsThrough DEF Awaiting
<1>11. LetLiteral(n, s) = Wrap(L, T)
  BY DEF LetLiteral, A, B, C, D, T
<1> QED  BY <1>10, <1>11

LEMMA LetVariablesUse ==
  ASSUME NEW m \in Nat, NEW n, n.entries \in Seq(Entry),
         n.inherits \in Seq(Inherits), NEW s, NEW body \in NodeOpt,
         NEW scope, IsLetVars(n, body, scope)
  PROVE  /\ Awaiting(LetVariables(n, body, s, m))
         /\ s = WN => Starts(LetVariables(n, body, s, m))
<1> DEFINE A == <<Keys(getkeys(n), "LetLetVar")>>
           B == [j \in DOMAIN n.entries |-> Kv(n.entries[j], NO_SCOPE)]
           C == [j \in DOMAIN n.inherits |-> Inh(n.inherits[j])]
           D == <<Sub(body, WN), Close("block", ""), Truncate(m)>>
           R == A \o B \o C \o D
           O == <<Block>>
           L == lazyness_incoming(s, "Forward", "Force", "Front")
<1>1. getkeys(n) \in SUBSET NameSet
  BY DEF getkeys
<1>2. Awaiting(A)
  BY <1>1, KeysCalm, Tuple1, CalmAwaiting DEF IdentCateg
<1>3. Awaiting(B)
  BY KvsAwaiting DEF IsLetVars, Scopes
<1>4. Awaiting(C)
  BY InhsAwaiting
<1>5. Sub(body, WN) \in Calm /\ Close("block", "") \in Calm /\ Truncate(m) \in Calm
  BY SubCalm, CalmBrackets, TruncateCalm, Contexts DEF Constructs
<1>6. Awaiting(D)
  BY <1>5, Tuple3, CalmAwaiting
<1>7. Awaiting(O)
  BY CalmBrackets DEF Constructs, Block
<1> HIDE DEF A, B, C, D, O
<1>8. Awaiting(R)
  BY <1>2, <1>3, <1>4, <1>6, ConcatAwaiting
<1> HIDE DEF R
<1>9. Awaiting(O \o R)
  BY <1>7, <1>8, ConcatAwaiting
<1>10. Awaiting(Wrap(L, O \o R))
  BY <1>9, WrapAwaiting
<1>11. s = WN => Starts(Wrap(L, O \o R))
  BY <1>8, StartsForce DEF Awaiting, O
<1>12. LetVariables(n, body, s, m) = Wrap(L, O \o R)
  BY DEF LetVariables, Block, A, B, C, D, R, O
<1> QED  BY <1>10, <1>11, <1>12

LEMMA LetScopeUse ==
  ASSUME NEW m \in Nat, NEW n, n.entries \in Seq(Entry),
         n.inherits \in Seq(Inherits), NEW s,
         NEW body \in NodeOpt \cup {ExtractScope},
         NEW scope \in {NIX_IN_SCOPE, ATTRS_SCOPE}
  PROVE  /\ Awaiting(LetScope(n, body, scope, s, m))
         /\ s = WN => Starts(LetScope(n, body, scope, s, m))
<1> DEFINE A == <<Open(scope, "")>>
           K == IF scope = NIX_IN_SCOPE
                THEN <<Keys(getkeys(n), "LetInScopeVar")>> ELSE <<>>
           B == [j \in DOMAIN n.entries |-> Kv(n.entries[j], scope)]
           C == [j \in DOMAIN n.inherits |-> Inh(n.inherits[j])]
           E == IF body = ExtractScope THEN <<Lit("extract", "")>>
                ELSE <<Sub(body, WN)>>
           D == <<Close(scope, ""), Truncate(m)>>
           R == A \o K \o B \o C \o E \o D
           L == lazyness_incoming(s, "Need", "Forward", "Front")
<1>0. scope \in Constructs \ {"use"} /\ scope \in Scopes /\ scope # NO_SCOPE
  BY DEF Constructs, Scopes, NIX_IN_SCOPE, ATTRS_SCOPE, NO_SCOPE
<1>1. getkeys(n) \in SUBSET NameSet
  BY DEF getkeys
<1>2. Keys(getkeys(n), "LetInScopeVar") \in Calm
  BY <1>1, KeysCalm DEF IdentCateg
<1>3. Awaiting(K)
  BY <1>2, Tuple0, Tuple1, CalmAwaiting
<1>4. Awaiting(B)
  BY <1>0, KvsAwaiting
<1>5. Awaiting(C)
  BY InhsAwaiting
<1>6. Awaiting(A) /\ Close(scope, "") \in Calm /\ Truncate(m) \in Calm
  BY <1>0, CalmBrackets, TruncateCalm
<1>7. Awaiting(D)
  BY <1>6, Tuple2, CalmAwaiting
<1>8. Lit("extract", "") \in Calm /\ (body # ExtractScope => Sub(body, WN) \in Calm)
  BY LeafCalm, SubCalm, Contexts DEF Leaves
<1>9. Awaiting(E)
  BY <1>8, Tuple1, CalmAwaiting
<1> HIDE DEF A, K, B, C, E, D
<1>10. Awaiting(A \o K \o B \o C)
  BY <1>3, <1>4, <1>5, <1>6, ConcatAwaiting
<1>11. Awaiting(R)
  BY <1>7, <1>9, <1>10, ConcatAwaiting
<1> HIDE DEF R
<1>12. Awaiting(Wrap(L, R)) /\ (s = WN => Starts(Wrap(L, R)))
  BY <1>11, WrapAwaiting, StartsAwait DEF Awaiting
<1>13. LetScope(n, body, scope, s, m) = Wrap(L, R)
  BY DEF LetScope, A, K, B, C, E, D, R
<1> QED  BY <1>12, <1>13

LEMMA LetUse ==
  ASSUME TypeOK, UseInv, Running("node"), N.k # "Ident",
         NEW n, n.entries \in Seq(Entry), n.inherits \in Seq(Inherits),
         NEW body \in NodeOpt \cup {ExtractScope},
         NEW scope \in {NIX_IN_SCOPE, ATTRS_SCOPE}, S \in Ctx,
         Replace(translate_let(n, body, scope, S, Len(vars)))
  PROVE  UseInv'
<1> DEFINE Good(T) == Awaiting(T) /\ (S = WN => Starts(T))
<1>0. Len(vars) \in Nat
  BY DEF TypeOK
<1>1. Good(<<Lit("empty", "")>>)
  <2>1. Awaiting(<<Lit("empty", "")>>)
    BY LeafCalm, Tuple1, CalmAwaiting DEF Leaves
  <2>2. Starts(<<Lit("empty", "")>>)
    BY StartsOne DEF Settled, Lit
  <2> QED  BY <2>1, <2>2
<1>2. body # ExtractScope => Good(<<Sub(body, S)>>)
  <2>1. body # ExtractScope => Awaiting(<<Sub(body, S)>>)
    BY SubCalm, Tuple1, CalmAwaiting
  <2>2. S = WN => Starts(<<Sub(body, S)>>)
    BY StartsOne DEF Waits, Sub
  <2> QED  BY <2>1, <2>2
<1>3. Good(LetLiteral(n, S))
  BY LetLiteralUse
<1>4. IsLetVars(n, body, scope) => Good(LetVariables(n, body, S, Len(vars)))
  BY <1>0, LetVariablesUse DEF IsLetVars
<1>5. Good(LetScope(n, body, scope, S, Len(vars)))
  BY <1>0, LetScopeUse
<1> HIDE DEF Good
<1>6. Good(translate_let(n, body, scope, S, Len(vars)))
  BY <1>1, <1>2, <1>3, <1>4, <1>5 DEF translate_let
<1> QED  BY <1>6, VisitUse DEF Good

LEMMA AttrSetUse == ASSUME TypeOK, UseInv, AttrSet PROVE UseInv'
<1>1. NodeShape(N) /\ N.k = "AttrSet" /\ S \in Ctx
  BY VisitNode DEF AttrSet
<1>2. N.entries \in Seq(Entry) /\ N.inherits \in Seq(Inherits)
  BY <1>1 DEF NodeShape
<1> DEFINE scope == IF N.recursive THEN NIX_IN_SCOPE ELSE ATTRS_SCOPE
<1>3. Running("node") /\ Replace(translate_let(N, ExtractScope, scope, S, Len(vars)))
  BY DEF AttrSet, Visit
<1>4. scope \in {NIX_IN_SCOPE, ATTRS_SCOPE}
  OBVIOUS
<1> HIDE DEF scope
<1> QED  BY <1>1, <1>2, <1>3, <1>4, LetUse

LEMMA LetInUse == ASSUME TypeOK, UseInv, LetIn PROVE UseInv'
<1>1. NodeShape(N) /\ N.k = "LetIn" /\ S \in Ctx
  BY VisitNode DEF LetIn
<1>2. N.entries \in Seq(Entry) /\ N.inherits \in Seq(Inherits) /\ N.body \in NodeOpt
  BY <1>1 DEF NodeShape
<1>3. Running("node") /\ Replace(translate_let(N, N.body, NIX_IN_SCOPE, S, Len(vars)))
  BY DEF LetIn, Visit
<1> QED  BY <1>1, <1>2, <1>3, LetUse

LEMMA LegacyLetUse == ASSUME TypeOK, UseInv, LegacyLet PROVE UseInv'
<1>1. NodeShape(N) /\ N.k = "LegacyLet" /\ S \in Ctx
  BY VisitNode DEF LegacyLet
<1>2. N.entries \in Seq(Entry) /\ N.inherits \in Seq(Inherits)
  BY <1>1 DEF NodeShape
<1>3. PICK j \in DOMAIN N.entries :
        Replace(translate_let(N, N.entries[j].value, NIX_IN_SCOPE, S, Len(vars)))
  BY DEF LegacyLet
<1>4. N.entries[j].value \in NodeOpt
  BY <1>2, Element, EntryFields
<1>5. Running("node")
  BY DEF LegacyLet, Visit
<1> QED  BY <1>1, <1>2, <1>3, <1>4, <1>5, LetUse

----------------------------------------------------------------------------
(* The calls that translate_let leaves on the stack. *)
LEMMA AbortUse ==
  ASSUME UseInv, NEW s \in {"err", "panic"}, Abort(s)
  PROVE  UseInv'
<1>1. todo' = <<>> /\ acc' = acc /\ status' # "running" /\ status' # "parsed"
  BY DEF Abort
<1>2. Len(todo') = 0
  BY <1>1
<1>3. PICK M : M = BuiltinNames'
  OBVIOUS
<1>4. UsesAhead(todo', M)
  BY <1>2 DEF UsesAhead
<1>5. UsesBehind(acc')
  BY <1>1 DEF UseInv
<1> QED  BY <1>1, <1>3, <1>4, <1>5 DEF UseInv

LEMMA RegisterKeyUse == ASSUME TypeOK, UseInv, RegisterKey PROVE UseInv'
<1> DEFINE ks == Head(todo).keys
           c  == Head(todo).categ
<1>1. /\ Running("keys") /\ status = "running" /\ todo # <<>>
      /\ Head(todo).t = "keys" /\ Head(todo).t \notin TokenKinds
  BY DEF RegisterKey, Running, TokenKinds
<1>2. ks \in SUBSET NameSet /\ c \in IdentCateg
  BY <1>1, HeadFields
<1>3. CASE Replace(<<>>)
  BY <1>1, <1>3, Tuple0, CalmAwaiting, ContUse
<1>4. ASSUME NEW j \in DOMAIN Names,
             todo' = (IF c = "LetLetVar" THEN <<Decl(Names[j])>> ELSE <<>>)
                        \o <<Keys(ks \ {Names[j]}, c)>> \o Tail(todo),
             acc' = acc, status' = status
      PROVE  UseInv'
  <2> DEFINE A == IF c = "LetLetVar" THEN <<Decl(Names[j])>> ELSE <<>>
             B == <<Keys(ks \ {Names[j]}, c)>>
  <2>1. Names[j] \in NameSet
    BY <1>4 DEF NameSet
  <2>2. Decl(Names[j]) \in Calm
    BY <2>1, LeafCalm DEF Leaves
  <2>3. Awaiting(A)
    BY <2>2, Tuple0, Tuple1, CalmAwaiting
  <2>4. ks \ {Names[j]} \in SUBSET NameSet
    BY <1>2
  <2>5. Awaiting(B)
    BY <1>2, <2>4, KeysCalm, Tuple1, CalmAwaiting
  <2>6. todo' = (A \o B) \o Tail(todo)
    BY <1>4
  <2> HIDE DEF A, B
  <2>7. Awaiting(A \o B)
    BY <2>3, <2>5, ConcatAwaiting
  <2>8. ~CallOf(Head(todo), BuiltinNames) /\ ~Waits(Head(todo))
    BY <1>1 DEF CallOf, Waits
  <2> QED  BY <1>1, <1>4, <2>6, <2>7, <2>8, UseStep
<1> QED  BY <1>3, <1>4 DEF RegisterKey

(* What only takes the head of the stack off. *)
LEMMA TailUse ==
  ASSUME TypeOK, UseInv, NEW t \in {"trunc", "unwith"}, Running(t),
         todo' = Tail(todo), acc' = acc, status' # "parsed"
  PROVE  UseInv'
<1>1. /\ status = "running" /\ todo # <<>> /\ Head(todo).t = t
      /\ Head(todo).t \notin TokenKinds
  BY DEF Running, TokenKinds
<1>2. Awaiting(<<>>)
  BY Tuple0, CalmAwaiting
<1>3. Tail(todo) \in Seq(Item)
  BY <1>1 DEF TypeOK
<1>4. todo' = <<>> \o Tail(todo)
  BY <1>3
<1>5. ~CallOf(Head(todo), BuiltinNames) /\ ~Waits(Head(todo))
  BY <1>1 DEF CallOf, Waits
<1> QED  BY <1>1, <1>2, <1>4, <1>5, UseStep

LEMMA KeyValueUse == ASSUME TypeOK, UseInv, KeyValue PROVE UseInv'
<1> DEFINE e == Head(todo).entry
           scope == Head(todo).scope
           k1 == e.key[1]
           v == KeyName(k1)
<1>1. Running("kv") /\ Head(todo) \in KvItem
  BY HeadFields DEF KeyValue, Running
<1>2. /\ e.key \in Seq(Node) /\ e.value \in NodeOpt
      /\ scope = NO_SCOPE => e.key # <<>> /\ k1.k = "Ident"
  BY <1>1, EntryFields DEF KvItem
<1>3. CASE Abort("err")
  BY <1>3, AbortUse
<1>4. ASSUME e.key # <<>>
      PROVE  k1 \in Node /\ v \in NameSet \cup {""}
  <2>1. k1 \in Node
    BY <1>2, <1>4
  <2> QED  BY <2>1, NodesAssumption DEF KeyName, NodeShape
<1>5. \A x \in NodeOpt : KeyEl(x) \in Calm
  BY KeyCalm
<1>6. Sub(e.value, NW) \in Calm
  BY <1>2, SubCalm, Contexts
<1>7. ASSUME Len(e.key) = 1,
             Replace(<<KeyEl(k1), Open("set", v), Sub(e.value, NW), Close("set", v)>>)
      PROVE  UseInv'
  <2>0. Len(e.key) = 1
    BY <1>7, Zenon
  <2>1. k1 \in NodeOpt /\ v \in NameSet \cup {""}
    BY <1>2, <1>4, <2>0, OneElement DEF NodeOpt
  <2>2. Open("set", v) \in Calm /\ Close("set", v) \in Calm
    BY <2>1, CalmBrackets DEF Constructs
  <2>3. Awaiting(<<KeyEl(k1), Open("set", v), Sub(e.value, NW), Close("set", v)>>)
    BY <1>5, <1>6, <2>1, <2>2, Tuple4, CalmAwaiting
  <2> QED  BY <1>1, <1>7, <2>3, ContUse DEF TokenKinds
<1> DEFINE create == <<KeyEl(k1), KeyEl(k1), Open("set", v), Close("set", v)>>
           A == IF scope = NO_SCOPE THEN <<>> ELSE create
           target == IF scope = NO_SCOPE
                     THEN IdentRef(k1.id, mksctx("Did", "Nothing")) ELSE KeyEl(k1)
           B == <<Open("await", ""), Open("merge", ""), target, Sub(e.value, NW)>>
           C == [j \in 1 .. (Len(e.key) - 1) |-> KeyEl(e.key[j + 1])]
           D == <<Close("merge", ""), Close("await", "")>>
<1>8. ASSUME Len(e.key) > 1, Replace(A \o B \o C \o D)
      PROVE  UseInv'
  <2>0. Len(e.key) > 1
    BY <1>8, Zenon
  <2>1. k1 \in Node /\ k1 \in NodeOpt /\ v \in NameSet \cup {""} /\ Len(e.key) \in Nat
    <3>1. Len(e.key) \in Nat /\ e.key # <<>>
      BY <1>2, <2>0, ManyElements
    <3> QED  BY <3>1, <1>4 DEF NodeOpt
  <2>2. Open("set", v) \in Calm /\ Close("set", v) \in Calm
    BY <2>1, CalmBrackets DEF Constructs
  <2>3. A \in Seq(Calm)
    BY <1>5, <2>1, <2>2, Tuple0, Tuple4
  <2>4. mksctx("Did", "Nothing") \in Ctx
    BY DEF mksctx, Ctx, StackCtx, St
  <2>5. scope = NO_SCOPE => k1.id \in NameSet
    BY <1>2, <2>1, NodesAssumption DEF NodeShape
  <2>6. target \in Calm
    BY <1>5, <2>1, <2>4, <2>5, IdentCalm
  <2>7. /\ Open("await", "") \in Calm /\ Open("merge", "") \in Calm
        /\ Close("await", "") \in Calm /\ Close("merge", "") \in Calm
    BY CalmBrackets DEF Constructs
  <2>8. B \in Seq(Calm) /\ D \in Seq(Calm)
    <3> HIDE DEF target
    <3> QED  BY <1>6, <2>6, <2>7, Tuple2, Tuple4
  <2>9. \A j \in 1 .. (Len(e.key) - 1) : e.key[j + 1] \in NodeOpt
    BY <1>2, <2>0, ManyElements DEF NodeOpt
  <2>10. C \in [1 .. (Len(e.key) - 1) -> Calm] /\ Len(e.key) - 1 \in Nat
    <3>1. Len(e.key) - 1 \in Nat
      BY <1>2, <2>0, ManyElements
    <3> QED  BY <1>5, <2>9, <3>1
  <2> HIDE DEF A, B, C, D
  <2>11. C \in Seq(Calm)
    BY <2>10, SeqDef
  <2>12. Awaiting(A \o B \o C \o D)
    <3>1. A \o B \o C \o D \in Seq(Calm)
      BY <2>3, <2>8, <2>11, Concat2
    <3> QED  BY <3>1, CalmAwaiting
  <2> QED  BY <1>1, <1>8, <2>12, ContUse DEF TokenKinds
<1> QED  BY <1>3, <1>7, <1>8 DEF KeyValue

LEMMA KeyElementUse == ASSUME TypeOK, UseInv, KeyElement PROVE UseInv'
<1> DEFINE T == IF N.k = "Ident" THEN <<>> ELSE Use(N, WN)
<1>1. Running("key") /\ N \in NodeOpt /\ Replace(T)
  BY HeadFields DEF KeyElement, Running
<1>2. Awaiting(<<>>)
  BY Tuple0, CalmAwaiting
<1>3. Awaiting(T)
  BY <1>1, <1>2, UseAwaiting
<1> HIDE DEF T
<1> QED  BY <1>1, <1>3, ContUse DEF TokenKinds

LEMMA SelectedAwaiting ==
  ASSUME NEW h \in Inherits, h.from # None
  PROVE  Awaiting(Selected(h)) /\ h.from.inner \in NodeOpt
<1>1. h.from.inner \in NodeOpt
  BY DEF Inherits
<1>2. Awaiting(<<Open("sel", "")>>) /\ Awaiting(<<Close("sel", "")>>)
  BY CalmBrackets DEF Constructs
<1>3. Awaiting(Use(h.from.inner, WN))
  BY <1>1, UseAwaiting
<1>4. Awaiting(<<Open("sel", "")>> \o Use(h.from.inner, WN))
  BY <1>2, <1>3, ConcatAwaiting
<1>5. Awaiting(<<Open("sel", "")>> \o Use(h.from.inner, WN) \o <<Close("sel", "")>>)
  BY <1>2, <1>4, ConcatAwaiting
<1> QED  BY <1>1, <1>5 DEF Selected

LEMMA InheritUse == ASSUME TypeOK, UseInv, Inherit PROVE UseInv'
<1> DEFINE h == Head(todo).inh
           one == lazyness_incoming(NW, "Forward", "Need", "Front")
           many == lazyness_incoming(NW, "Forward", "Flush", "Front")
<1>1. Running("inh") /\ h \in Inherits
  BY HeadFields DEF Inherit, Running
<1>2. h.ids \in Seq(NameSet)
  BY <1>1 DEF Inherits
<1> DEFINE A == [j \in DOMAIN h.ids |-> InhId(h.ids[j])]
           B == [j \in DOMAIN h.ids |-> ThenId(h.ids[j])]
<1>3. A \in [DOMAIN h.ids -> Calm] /\ B \in [DOMAIN h.ids -> Calm]
  <2>1. \A i \in NameSet : /\ InhId(i) \in Plain(0) /\ ThenId(i) \in Plain(0)
                           /\ InhId(i).t # "open" /\ ThenId(i).t # "open"
    BY InhIdPlain DEF InhId, ThenId
  <2>2. \A i \in NameSet : InhId(i) \in Calm /\ ThenId(i) \in Calm
    BY <2>1, PlainCalm
  <2>3. \A j \in DOMAIN h.ids : h.ids[j] \in NameSet
    BY <1>2, Element
  <2> QED  BY <2>2, <2>3
<1>4. Awaiting(A) /\ Awaiting(B)
  <2> HIDE DEF A, B
  <2> QED  BY <1>2, <1>3, MapSeq, CalmAwaiting
<1>5. CASE Replace(A)
  <2> HIDE DEF A
  <2> QED  BY <1>1, <1>4, <1>5, ContUse DEF TokenKinds
<1>6. ASSUME h.from # None, Len(h.ids) = 1,
             Replace(<<Open("set", h.ids[1])>> \o Wrap(one, Selected(h)) \o
                     <<Close("set", h.ids[1])>>)
      PROVE  UseInv'
  <2> DEFINE X == <<Open("set", h.ids[1])>>
             Y == Wrap(one, Selected(h))
             Z == <<Close("set", h.ids[1])>>
  <2>0. Len(h.ids) = 1
    BY <1>6, Zenon
  <2>1. h.ids[1] \in NameSet \cup {""}
    BY <1>2, <2>0, OneElement
  <2>2. Awaiting(X) /\ Awaiting(Z)
    BY <2>1, CalmBrackets DEF Constructs
  <2>3. Awaiting(Y)
    BY <1>1, <1>6, SelectedAwaiting, WrapAwaiting
  <2>4. Replace(X \o Y \o Z)
    BY <1>6
  <2> HIDE DEF X, Y, Z
  <2>5. Awaiting(X \o Y \o Z)
    BY <2>2, <2>3, ConcatAwaiting
  <2> QED  BY <1>1, <2>4, <2>5, ContUse DEF TokenKinds
<1>7. ASSUME h.from # None,
             Replace(<<Open("const", "")>> \o
                     Wrap(many, <<Sub(h.from.inner, many.sctx)>>) \o
                     <<Close("const", "")>> \o B)
      PROVE  UseInv'
  <2> DEFINE X == <<Open("const", "")>>
             Y == Wrap(many, <<Sub(h.from.inner, many.sctx)>>)
             Z == <<Close("const", "")>>
  <2>1. many.sctx \in Ctx
    BY LazyCtx, Contexts
  <2>2. Awaiting(<<Sub(h.from.inner, many.sctx)>>)
    BY <1>1, <1>7, <2>1, SelectedAwaiting, SubCalm, Tuple1, CalmAwaiting
  <2>3. Awaiting(Y)
    BY <2>2, WrapAwaiting
  <2>4. Awaiting(X) /\ Awaiting(Z)
    BY CalmBrackets DEF Constructs
  <2>5. Replace(X \o Y \o Z \o B)
    BY <1>7
  <2> HIDE DEF X, Y, Z, B
  <2>6. Awaiting(X \o Y \o Z \o B)
    BY <1>4, <2>3, <2>4, ConcatAwaiting
  <2> QED  BY <1>1, <2>5, <2>6, ContUse DEF TokenKinds
<1> QED  BY <1>5, <1>6, <1>7 DEF Inherit

LEMMA InheritIdentUse == ASSUME TypeOK, UseInv, InheritIdent PROVE UseInv'
<1> DEFINE i == Head(todo).id
<1>1. Running("inhid") \/ Running("thenid")
  BY DEF InheritIdent
<1>2. i \in NameSet
  BY <1>1, HeadFields DEF Running
<1>3. Open("set", i) \in Calm /\ Close("set", i) \in Calm
  BY <1>2, CalmBrackets DEF Constructs
<1>4. IdentRef(i, NW) \in Calm /\ Lit("then", "") \in Calm
  BY <1>2, IdentCalm, LeafCalm, Contexts DEF Leaves
<1>5. /\ Awaiting(<<Open("set", i), IdentRef(i, NW), Close("set", i)>>)
      /\ Awaiting(<<Open("set", i), Lit("then", ""), Close("set", i)>>)
  BY <1>3, <1>4, Tuple3, CalmAwaiting
<1> QED  BY <1>5, ContUse DEF InheritIdent, TokenKinds

LEMMA PropInheritUse == ASSUME TypeOK, UseInv, PropInherit PROVE UseInv'
<1> DEFINE h == Head(todo).inh
           A == [j \in DOMAIN h.ids |-> IdentRef(h.ids[j], NW)]
           T == Wrap(lazyness_incoming(NW, "Flush", "Flush", "Front"), Selected(h))
<1>1. Running("propinh") /\ h \in Inherits
  BY HeadFields DEF PropInherit, Running
<1>2. h.ids \in Seq(NameSet)
  BY <1>1 DEF Inherits
<1>3. A \in [DOMAIN h.ids -> Calm]
  BY <1>2, Element, IdentCalm, Contexts
<1>4. Awaiting(A)
  <2> HIDE DEF A
  <2> QED  BY <1>2, <1>3, MapSeq, CalmAwaiting
<1>5. h.from # None => Awaiting(T)
  BY <1>1, SelectedAwaiting, WrapAwaiting
<1>6. Replace(A) \/ (h.from # None /\ Replace(T))
  BY DEF PropInherit
<1> HIDE DEF A, T
<1> QED  BY <1>1, <1>4, <1>5, <1>6, ContUse DEF TokenKinds

----------------------------------------------------------------------------
(* The remaining handlers. *)
LEMMA IdentRawUse == ASSUME TypeOK, UseInv, IdentRaw PROVE UseInv'
<1> DEFINE i == Head(todo).id
<1>1. /\ Running("ident") /\ status = "running" /\ todo # <<>>
      /\ Head(todo).t = "ident" /\ Head(todo).t \notin TokenKinds
  BY DEF IdentRaw, Running, TokenKinds
<1>2. i \in NameSet
  BY <1>1, HeadFields
<1>3. PICK c \in IdentCateg :
        /\ c = resolve_ident(i)
        /\ IF c \in {"Literal", "AlBuiltin"} THEN Replace(<<Lit("builtin", i)>>)
           ELSE Replace(Wrap(lazyness_incoming(S, "Flush", "Flush", "Back"),
                             <<Read(c, i)>>))
  BY DEF IdentRaw
<1>4. CASE c \in {"Literal", "AlBuiltin"}
  <2>1. Awaiting(<<Lit("builtin", i)>>)
    BY <1>2, LeafCalm, Tuple1, CalmAwaiting DEF Leaves
  <2>2. Starts(<<Lit("builtin", i)>>)
    BY StartsOne DEF Settled, Lit
  <2>3. /\ todo' = <<Lit("builtin", i)>> \o Tail(todo)
        /\ acc' = acc /\ status' # "parsed"
    BY <1>1, <1>3, <1>4 DEF Replace
  <2> QED  BY <1>1, <2>1, <2>2, <2>3, UseStep
<1>5. CASE c \notin {"Literal", "AlBuiltin"}
  <2> DEFINE T == Wrap(lazyness_incoming(S, "Flush", "Flush", "Back"), <<Read(c, i)>>)
  <2>1. Awaiting(<<Read(c, i)>>)
    BY <1>2, LeafCalm, Tuple1, CalmAwaiting
  <2>2. Awaiting(T)
    BY <2>1, WrapAwaiting
  <2>3. S = WN => Starts(T)
    BY <2>1, StartsAwait DEF Awaiting
  <2>4. todo' = T \o Tail(todo) /\ acc' = acc /\ status' # "parsed"
    BY <1>1, <1>3, <1>5 DEF Replace
  <2>5. i \notin BuiltinNames
    BY <1>3, <1>5 DEF BuiltinNames
  <2>6. ~CallOf(Head(todo), BuiltinNames)
    BY <1>1, <2>5 DEF CallOf
  <2>7. Waits(Head(todo)) => S = WN
    BY DEF Waits, S
  <2> HIDE DEF T
  <2> QED  BY <1>1, <2>2, <2>3, <2>4, <2>6, <2>7, UseStep
<1> QED  BY <1>4, <1>5

LEMMA ListUse == ASSUME TypeOK, UseInv, List PROVE UseInv'
<1> DEFINE A == <<Open("list", "")>>
           B == [j \in DOMAIN N.items |-> Sub(N.items[j], NN)]
           C == <<Close("list", "")>>
<1>1. NodeShape(N) /\ N.k = "List"
  BY VisitNode DEF List
<1>2. N.items \in Seq(Node)
  BY <1>1 DEF NodeShape
<1>3. \A j \in DOMAIN N.items : N.items[j] \in NodeOpt
  BY <1>2, Element DEF NodeOpt
<1>4. B \in [DOMAIN N.items -> Calm]
  BY <1>3, SubCalm, Contexts
<1>5. Awaiting(A) /\ Awaiting(C)
  BY CalmBrackets DEF Constructs
<1>6. Running("node") /\ Replace(Wrap(Incoming("Forward", "Flush"), A \o B \o C))
  BY DEF List, Visit
<1>7. Starts(A)
  BY StartsOne DEF Settled, Open, NeverPromise
<1> HIDE DEF A, B, C
<1>8. Awaiting(B)
  BY <1>2, <1>4, MapSeq, CalmAwaiting
<1>9. Awaiting(A \o B) /\ Starts(A \o B)
  BY <1>5, <1>7, <1>8, ConcatAwaiting, StartsConcat DEF Awaiting
<1>10. Awaiting(A \o B \o C) /\ Starts(A \o B \o C)
  BY <1>5, <1>9, ConcatAwaiting, StartsConcat DEF Awaiting
<1> QED  BY <1>1, <1>6, <1>10, ForwardUse

LEMMA OrDefaultUse == ASSUME TypeOK, UseInv, OrDefault PROVE UseInv'
<1> DEFINE U == <<Open("call", ""), Sub(N.index, NW), Sub(N.default, NW),
                  Close("call", "")>>
<1>1. NodeShape(N) /\ N.k = "OrDefault"
  BY VisitNode DEF OrDefault
<1>2. N.index \in NodeOpt /\ N.default \in NodeOpt
  BY <1>1 DEF NodeShape
<1>3. Sub(N.index, NW) \in Calm /\ Sub(N.default, NW) \in Calm
  BY <1>2, SubCalm, Contexts
<1>4. Awaiting(U)
  BY <1>3, CalmBrackets, Tuple4, CalmAwaiting DEF Constructs
<1>5. Running("node") /\ Replace(Wrap(Incoming("Need", "Need"), U))
  BY DEF OrDefault, Visit
<1> HIDE DEF U
<1> QED  BY <1>1, <1>4, <1>5, NeedUse

LEMMA StrUse == ASSUME TypeOK, UseInv, Str PROVE UseInv'
<1> DEFINE D == {p \in Node : p.k \in {"Literal", "StrInterpol"}}
           A == <<Open("str", "")>>
           B == [j \in DOMAIN N.parts |-> StrPart(N.parts[j])]
           C == <<Close("str", "")>>
           T == A \o B \o C
<1>1. NodeShape(N) /\ N.k = "Str"
  BY VisitNode DEF Str
<1>2. N.parts \in Seq(D)
  BY <1>1 DEF NodeShape
<1>3. B \in [DOMAIN N.parts -> Calm]
  <2>1. \A x \in D : StrPart(x) \in Plain(0) /\ StrPart(x).t # "open"
    BY PartPlain DEF StrPart
  <2>2. \A x \in D : StrPart(x) \in Calm
    BY <2>1, PlainCalm
  <2>3. \A j \in DOMAIN N.parts : N.parts[j] \in D
    BY <1>2, Element
  <2> QED  BY <2>2, <2>3
<1>4. Awaiting(A) /\ Awaiting(C)
  BY CalmBrackets DEF Constructs
<1>5. Starts(A)
  BY StartsOne DEF Settled, Open, NeverPromise
<1>6. Awaiting(<<Lit("str", "")>>) /\ Starts(<<Lit("str", "")>>)
  <2>1. Awaiting(<<Lit("str", "")>>)
    BY LeafCalm, Tuple1, CalmAwaiting DEF Leaves
  <2>2. Starts(<<Lit("str", "")>>)
    BY StartsOne DEF Settled, Lit
  <2> QED  BY <2>1, <2>2
<1>7. /\ Running("node")
      /\ Replace(Wrap(Incoming("Forward", "Need"), T)) \/ Replace(<<Lit("str", "")>>)
  BY DEF Str, Visit
<1> HIDE DEF A, B, C, D
<1>8. Awaiting(B)
  BY <1>2, <1>3, MapSeq, CalmAwaiting
<1>9. Awaiting(A \o B) /\ Starts(A \o B)
  BY <1>4, <1>5, <1>8, ConcatAwaiting, StartsConcat DEF Awaiting
<1>10. Awaiting(T) /\ Starts(T)
  BY <1>4, <1>9, ConcatAwaiting, StartsConcat DEF Awaiting
<1> HIDE DEF T
<1>11. CASE Replace(Wrap(Incoming("Forward", "Need"), T))
  BY <1>1, <1>7, <1>10, <1>11, ForwardUse
<1>12. CASE Replace(<<Lit("str", "")>>)
  BY <1>1, <1>6, <1>7, <1>12, VisitUse
<1> QED  BY <1>7, <1>11, <1>12

LEMMA StringPartUse == ASSUME TypeOK, UseInv, StringPart PROVE UseInv'
<1> DEFINE T == IF N.k = "Literal" THEN <<Lit("str", "")>> ELSE Use(N.inner, WN)
<1>1. Running("part") /\ N \in Node /\ N.k \in {"Literal", "StrInterpol"}
  BY HeadFields DEF StringPart, Running
<1>2. N.k = "StrInterpol" => N.inner \in NodeOpt
  BY <1>1, NodesAssumption DEF NodeShape
<1>3. Awaiting(<<Lit("str", "")>>)
  BY LeafCalm, Tuple1, CalmAwaiting DEF Leaves
<1>4. N.k = "StrInterpol" => Awaiting(Use(N.inner, WN))
  BY <1>2, UseAwaiting
<1>5. Awaiting(T) /\ Replace(T)
  BY <1>1, <1>3, <1>4 DEF StringPart
<1> HIDE DEF T
<1> QED  BY <1>1, <1>5, ContUse DEF TokenKinds

LEMMA UnaryOpUse == ASSUME TypeOK, UseInv, UnaryOp PROVE UseInv'
<1> DEFINE A == <<Open("unop", "")>>
           B == <<Sub(N.value, NN), Close("unop", "")>>
           T == <<Open("unop", ""), Sub(N.value, NN), Close("unop", "")>>
<1>1. NodeShape(N) /\ N.k = "UnaryOp"
  BY VisitNode DEF UnaryOp
<1>2. Sub(N.value, NN) \in Calm
  BY <1>1, SubCalm, Contexts DEF NodeShape
<1>3. Awaiting(T)
  BY <1>2, CalmBrackets, Tuple3, CalmAwaiting DEF Constructs
<1>4. Starts(T)
  <2>1. Settled(Open("unop", ""))
    BY DEF Settled, Open, IgnoreContext
  <2>2. Len(T) >= 1 /\ T[1] = Open("unop", "")
    OBVIOUS
  <2> HIDE DEF T
  <2>3. Settled(T[1])
    BY <2>1, <2>2, Zenon
  <2> QED  BY <2>2, <2>3 DEF Starts
<1>5. Running("node") /\ Replace(T)
  BY DEF UnaryOp, Visit
<1> HIDE DEF T
<1> QED  BY <1>1, <1>3, <1>4, <1>5, VisitUse

LEMMA ValueUse == ASSUME TypeOK, UseInv, Value PROVE UseInv'
<1>1. N.k = "Value"
  BY VisitNode DEF Value
<1>2. /\ Awaiting(<<Lit("export", "")>>) /\ Awaiting(<<Lit("number", "")>>)
  BY LeafCalm, Tuple1, CalmAwaiting DEF Leaves
<1>3. Settled(Lit("export", "")) /\ Settled(Lit("number", ""))
  BY DEF Settled, Lit
<1>4. Starts(<<Lit("export", "")>>) /\ Starts(<<Lit("number", "")>>)
  BY <1>3, StartsOne
<1>5. /\ Running("node")
      /\ Replace(<<Lit("export", "")>>) \/ Replace(<<Lit("number", "")>>)
  BY DEF Value, Visit
<1> QED  BY <1>1, <1>2, <1>4, <1>5, VisitUse

LEMMA Six ==
  ASSUME NEW X, NEW a \in X, NEW b \in X, NEW c \in X, NEW d \in X, NEW e \in X,
         NEW f \in X, NEW T, T = <<a>> \o <<b, c, d>> \o <<e, f>>
  PROVE  /\ T \in Seq(X) /\ Len(T) = 6
         /\ T[1] = a /\ T[2] = b /\ T[3] = c /\ T[4] = d /\ T[5] = e /\ T[6] = f
  OBVIOUS

LEMMA BuiltinCall ==
  ASSUME NEW K, NEW o \in Calm, Settled(o), o.t \in TokenKinds, NEW y \in Calm,
         CallOf(y, K), NEW c \in Calm, NEW k \in Calm, NEW z \in Calm,
         NEW T, T = <<o>> \o <<UseTok, y, c>> \o <<k, z>>
  PROVE  T \in Seq(Item) /\ UsesAhead(T, K) /\ Starts(T)
<1>1. /\ UseTok \in Item /\ o \in Item /\ y \in Item /\ c \in Item
      /\ k \in Item /\ z \in Item
  BY DEF UseTok, Open, Item, Token, TokenKinds, Constructs, Calm
<1>2. /\ T \in Seq(Item) /\ Len(T) = 6
      /\ T[1] = o /\ T[2] = UseTok /\ T[3] = y /\ T[4] = c /\ T[5] = k /\ T[6] = z
  BY <1>1, Six
<1>3. ASSUME NEW j \in 1 .. Len(T), T[j] = UseTok
      PROVE  /\ j + 1 <= Len(T) /\ CallOf(T[j + 1], K)
             /\ \A i \in 1 .. j : T[i].t \in TokenKinds
  <2>1. /\ T[1] # UseTok /\ T[3] # UseTok /\ T[4] # UseTok
        /\ T[5] # UseTok /\ T[6] # UseTok
    BY <1>2 DEF Calm
  <2>2. j = 2
    BY <1>2, <1>3, <2>1
  <2>3. \A i \in 1 .. j : i = 1 \/ i = 2
    BY <2>2
  <2>4. UseTok.t \in TokenKinds
    BY DEF UseTok, Open, TokenKinds
  <2> QED  BY <1>2, <2>2, <2>3, <2>4
<1>4. UsesAhead(T, K)
  BY <1>3 DEF UsesAhead
<1>5. Starts(T)
  BY <1>2 DEF Starts
<1> QED  BY <1>2, <1>4, <1>5

(***************************************************************************)
(* Select.  A builtin is called without being awaited; nothing is emitted  *)
(* around the selection.                                                   *)
(***************************************************************************)
LEMMA BuiltinSelectUse ==
  ASSUME TypeOK, UseInv, Select, Wellknown(N.set)
  PROVE  UseInv'
<1> DEFINE y == Sub(N.set, NN)
           A == <<Open("bsel", "")>>
           U == Use(N.set, NN)
           B == <<KeyEl(N.index), Close("bsel", "")>>
           L == lazyness_incoming(S, "Forward", "Forward", "Front")
           T == A \o U \o B
<1>1. NodeShape(N) /\ N.k = "Select"
  BY VisitNode DEF Select
<1>2. N.set \in NodeOpt /\ N.index \in NodeOpt /\ N.set.k = "Ident"
  BY <1>1 DEF NodeShape, Wellknown
<1>3. N.set.id \in BuiltinNames
  <2>1. N.set \in Node
    BY <1>2 DEF NodeOpt, None
  <2>2. N.set.id \in NameSet
    BY <1>2, <2>1, NodesAssumption DEF NodeShape
  <2> QED  BY <2>2 DEF Wellknown, BuiltinNames
<1>4. /\ Open("bsel", "") \in Calm /\ Close("bsel", "") \in Calm
      /\ y \in Calm /\ KeyEl(N.index) \in Calm /\ Close("use", "") \in Calm
  BY <1>2, CalmBrackets, CloseCalm, SubCalm, KeyCalm, Contexts DEF Constructs
<1>5. CallOf(y, BuiltinNames)
  BY <1>2, <1>3 DEF CallOf, Sub
<1>6. U = <<UseTok, y, Close("use", "")>>
  BY DEF Use, UseTok
<1>7. Open("bsel", "").t \in TokenKinds /\ Settled(Open("bsel", ""))
  BY DEF Open, TokenKinds, Settled, NeverPromise
<1>8. L.pre = <<>> \o <<>> \o <<>> /\ L.post = <<>> \o <<>> \o <<>>
  BY DEF lazyness_incoming, merge_sttr, merge_sttr_fires
<1>9. L.pre = <<>> /\ L.post = <<>>
  BY <1>8
<1>10. Replace(Wrap(L, T))
  BY DEF Select, Incoming
<1> HIDE DEF y, L
<1>11. T = <<Open("bsel", "")>> \o <<UseTok, y, Close("use", "")>> \o
           <<KeyEl(N.index), Close("bsel", "")>>
  BY <1>6
<1> HIDE DEF U, T
<1>12. T \in Seq(Item) /\ UsesAhead(T, BuiltinNames) /\ Starts(T)
  BY <1>4, <1>5, <1>7, <1>11, BuiltinCall
<1>13. L.pre \o T = T /\ T \o L.post = T
  BY <1>9, <1>12
<1>14. Wrap(L, T) = T
  BY <1>13 DEF Wrap
<1>15. /\ status = "running" /\ todo # <<>> /\ Head(todo).t = "node"
       /\ todo' = T \o Tail(todo)
       /\ acc' = acc /\ status' = status /\ vars' = vars /\ with_stack' = with_stack
  BY <1>10, <1>14 DEF Select, Visit, Running, Replace
<1>16. /\ todo \in Seq(Item) /\ Head(todo) = todo[1]
       /\ todo[1].t \notin TokenKinds
  BY <1>15, HeadItem DEF TypeOK, TokenKinds
<1>17. /\ UsesBehind(acc) /\ UsesAhead(todo, BuiltinNames)
       /\ LastUse(acc, todo, BuiltinNames)
  BY <1>15 DEF UseInv
<1>18. UsesAhead(T \o Tail(todo), BuiltinNames)
  BY <1>12, <1>15, <1>16, <1>17, SpliceAhead
<1>19. LastUse(acc, T \o Tail(todo), BuiltinNames)
  BY <1>12, <1>15, <1>16, <1>17, SpliceLast
<1>20. BuiltinNames' = BuiltinNames
  BY <1>15 DEF BuiltinNames, resolve_ident, Bound
<1> QED  BY <1>15, <1>17, <1>18, <1>19, <1>20 DEF UseInv

LEMMA SelectUse == ASSUME TypeOK, UseInv, Select PROVE UseInv'
<1> DEFINE A == <<Open("sel", "")>>
           U == Use(N.set, WN)
           B == <<KeyEl(N.index), Close("sel", "")>>
<1>1. NodeShape(N) /\ N.k = "Select"
  BY VisitNode DEF Select
<1>2. N.set \in NodeOpt /\ N.index \in NodeOpt
  BY <1>1 DEF NodeShape
<1>3. Awaiting(A) /\ Awaiting(U)
  BY <1>2, CalmBrackets, UseAwaiting DEF Constructs
<1>4. KeyEl(N.index) \in Calm /\ Close("sel", "") \in Calm
  BY <1>2, KeyCalm, CalmBrackets DEF Constructs
<1>5. Awaiting(B)
  BY <1>4, Tuple2, CalmAwaiting
<1>6. /\ Running("node")
      /\ Wellknown(N.set) \/ Replace(Wrap(Incoming("Need", "Need"), A \o U \o B))
  BY DEF Select, Visit
<1> HIDE DEF A, U, B
<1>7. Awaiting(A \o U \o B)
  BY <1>3, <1>5, ConcatAwaiting
<1> QED  BY <1>1, <1>6, <1>7, NeedUse, BuiltinSelectUse

LEMMA Associates ==
  ASSUME NEW A \in Seq(Item), NEW Y \in Seq(Item), NEW R \in Seq(Item)
  PROVE  A \o (Y \o R) = (A \o Y) \o R
<1> DEFINE P == A \o (Y \o R)
           Q == (A \o Y) \o R
<1>1. /\ P \in Seq(Item) /\ Q \in Seq(Item) /\ Len(P) = Len(Q)
      /\ \A i \in 1 .. Len(P) : P[i] = Q[i]
  OBVIOUS
<1> HIDE DEF P, Q
<1>2. P = Q
  BY <1>1, SeqEqual
<1> QED  BY <1>2 DEF P, Q

LEMMA TailItems == ASSUME TypeOK, todo # <<>> PROVE Tail(todo) \in Seq(Item)
  BY DEF TypeOK

LEMMA WithUse == ASSUME TypeOK, UseInv, With PROVE UseInv'
<1> DEFINE A == <<Open("with", ""), Sub(N.body, WN)>>
           X == <<Unwith(with_stack)>>
           C == <<Close("with", ""), Open("ns", "")>>
           U == Use(N.namespace, WN)
           D == <<Close("ns", "")>>
           R == Tail(todo)
<1>1. NodeShape(N) /\ N.k = "With"
  BY VisitNode DEF With
<1>2. N.body \in NodeOpt /\ N.namespace \in NodeOpt
  BY <1>1 DEF NodeShape
<1>3. Sub(N.body, WN) \in Calm /\ Open("with", "") \in Calm
  BY <1>2, SubCalm, CalmBrackets, Contexts DEF Constructs
<1>4. Unwith(with_stack) \in Calm
  BY DEF TypeOK, Unwith, Calm, Item, UseTok, Open
<1>5. Awaiting(A) /\ Awaiting(X)
  BY <1>3, <1>4, Tuple1, Tuple2, CalmAwaiting
<1>6. Awaiting(C)
  BY CalmBrackets, Tuple2, CalmAwaiting DEF Constructs
<1>7. Awaiting(D) /\ Awaiting(U)
  BY <1>2, CalmBrackets, UseAwaiting DEF Constructs
<1>8. /\ status = "running" /\ todo # <<>> /\ Head(todo).t = "node"
      /\ todo' = A \o (X \o (C \o U \o D \o R)) /\ acc' = acc
  BY DEF With, Visit, Running
<1>9. R \in Seq(Item) /\ status' # "parsed"
  BY <1>8, TailItems DEF With
<1>10. Starts(A)
  <2>1. Settled(Open("with", "")) /\ Len(A) >= 1 /\ A[1] = Open("with", "")
    BY DEF Settled, Open, IgnoreContext
  <2> HIDE DEF A
  <2>2. Settled(A[1])
    BY <2>1, Zenon
  <2> QED  BY <2>1, <2>2 DEF Starts
<1> HIDE DEF A, X, C, U, D, R
<1>11. /\ A \in Seq(Item) /\ X \in Seq(Item) /\ C \in Seq(Item)
       /\ U \in Seq(Item) /\ D \in Seq(Item)
  BY <1>5, <1>6, <1>7 DEF Awaiting
<1> DEFINE E == C \o U \o D
<1>12. Awaiting(E) /\ E \in Seq(Item)
  BY <1>6, <1>7, ConcatAwaiting DEF Awaiting
<1>13. todo' = A \o (X \o (E \o R))
  BY <1>8
<1> HIDE DEF E
<1> DEFINE Y == X \o E
<1>14. Awaiting(Y) /\ Y \in Seq(Item) /\ Y = X \o E
  BY <1>5, <1>12, ConcatAwaiting DEF Awaiting
<1> HIDE DEF Y
<1>15. todo' = (A \o Y) \o R
  <2>0. \A p, q, r \in Seq(Item) : p \o (q \o r) = (p \o q) \o r
    BY Associates, Zenon
  <2>1. X \o (E \o R) = (X \o E) \o R
    BY <1>9, <1>11, <1>12, <2>0, ZenonT(60)
  <2>2. A \o (Y \o R) = (A \o Y) \o R
    BY <1>9, <1>11, <1>14, <2>0, SMTT(60)
  <2> QED  BY <1>13, <1>14, <2>1, <2>2, Zenon
<1>16. todo' = (A \o Y) \o Tail(todo)
  BY <1>15 DEF R
<1>18. Awaiting(A \o Y) /\ Starts(A \o Y)
  BY <1>5, <1>10, <1>11, <1>14, ConcatAwaiting, StartsConcat
<1>19. Head(todo).t \notin TokenKinds
  BY <1>8 DEF TokenKinds
<1> QED  BY <1>8, <1>9, <1>16, <1>18, <1>19, UseStep

----------------------------------------------------------------------------
(* Context.push: a use moves to the end of the output, and then into it. *)
LEMMA PushAhead ==
  ASSUME NEW td \in Seq(Item), td # <<>>, NEW K, UsesAhead(td, K)
  PROVE  UsesAhead(Tail(td), K)
<1> DEFINE U == Tail(td)
<1>1. /\ Len(U) = Len(td) - 1 /\ Len(td) \in Nat /\ Len(td) >= 1
      /\ \A j \in 1 .. Len(U) : j + 1 \in 1 .. Len(td) /\ U[j] = td[j + 1]
  BY HeadTailProperties, EmptySeq
<1> HIDE DEF U
<1>2. ASSUME NEW j \in 1 .. Len(U), U[j] = UseTok
      PROVE  /\ j + 1 <= Len(U)
             /\ \/ Waits(U[j + 1])
                \/ CallOf(U[j + 1], K) /\ \A i \in 1 .. j : U[i].t \in TokenKinds
  <2>1. j + 1 \in 1 .. Len(td) /\ td[j + 1] = UseTok
    BY <1>1, <1>2
  <2>2. /\ j + 1 + 1 <= Len(td)
        /\ \/ Waits(td[j + 1 + 1])
           \/ /\ CallOf(td[j + 1 + 1], K)
              /\ \A i \in 1 .. (j + 1) : td[i].t \in TokenKinds
    BY <2>1 DEF UsesAhead
  <2>3. j + 1 <= Len(U) /\ U[j + 1] = td[j + 1 + 1]
    BY <1>1, <2>2
  <2>4. \A i \in 1 .. j : U[i] = td[i + 1] /\ i + 1 \in 1 .. (j + 1)
    BY <1>1
  <2> QED  BY <2>2, <2>3, <2>4
<1>3. UsesAhead(U, K)
  BY <1>2 DEF UsesAhead
<1> QED  BY <1>3 DEF U

LEMMA PushLast ==
  ASSUME NEW td \in Seq(Item), td # <<>>, NEW K, UsesAhead(td, K),
         NEW a \in Seq(Token), td[1] \in Token, LastUse(a, td, K)
  PROVE  LastUse(Append(a, td[1]), Tail(td), K)
<1> DEFINE U == Tail(td)
           b == Append(a, td[1])
<1>1. /\ Len(U) = Len(td) - 1 /\ Len(td) \in Nat /\ Len(td) >= 1
      /\ Len(td) >= 2 => U[1] = td[2]
  BY HeadTailProperties, EmptySeq
<1>2. /\ Len(b) = Len(a) + 1 /\ Len(a) \in Nat /\ b[Len(b)] = td[1]
      /\ \A j \in 1 .. Len(a) : b[j] = a[j]
  OBVIOUS
<1> HIDE DEF U, b
<1>3. td[1].t \in TokenKinds
  BY DEF Token
<1>4. ASSUME b[Len(b)] = UseTok
      PROVE  Starts(U) \/ (Len(U) >= 1 /\ CallOf(U[1], K))
  <2>1. 1 \in 1 .. Len(td) /\ td[1] = UseTok
    BY <1>1, <1>2, <1>4
  <2>2. 1 + 1 <= Len(td) /\ (Waits(td[1 + 1]) \/ CallOf(td[1 + 1], K))
    BY <2>1 DEF UsesAhead
  <2>3. Len(U) >= 1 /\ U[1] = td[1 + 1]
    BY <1>1, <2>2
  <2> QED  BY <2>2, <2>3 DEF Starts
<1>5. ASSUME Len(b) >= 2, b[Len(b) - 1] = UseTok
      PROVE  Settled(b[Len(b)]) \/ (b[Len(b)] = Arrow /\ Len(U) >= 1 /\ U[1] = Block)
  <2>1. Len(a) >= 1 /\ a[Len(a)] = UseTok
    BY <1>2, <1>5
  <2>2. Starts(td) \/ CallOf(td[1], K)
    BY <2>1 DEF LastUse
  <2>3. ~CallOf(td[1], K) /\ ~Waits(td[1])
    BY <1>3 DEF CallOf, Waits, TokenKinds
  <2>4. Settled(td[1]) \/ (td[1] = Arrow /\ Len(td) >= 2 /\ td[2] = Block)
    BY <2>2, <2>3 DEF Starts
  <2>5. Len(td) >= 2 => Len(U) >= 1 /\ U[1] = td[2]
    BY <1>1
  <2> QED  BY <1>2, <2>4, <2>5
<1>6. LastUse(b, U, K)
  BY <1>4, <1>5 DEF LastUse
<1> QED  BY <1>6 DEF U, b

LEMMA PushBehind ==
  ASSUME NEW td \in Seq(Item), td # <<>>, NEW K,
         NEW a \in Seq(Token), td[1] \in Token, LastUse(a, td, K), UsesBehind(a)
  PROVE  UsesBehind(Append(a, td[1]))
<1> DEFINE b == Append(a, td[1])
<1>1. /\ Len(b) = Len(a) + 1 /\ Len(a) \in Nat /\ b[Len(b)] = td[1]
      /\ \A j \in 1 .. Len(a) : b[j] = a[j]
  OBVIOUS
<1> HIDE DEF b
<1>2. ASSUME NEW j \in 1 .. Len(b), j > 1, j < Len(b), b[j - 1] = UseTok
      PROVE  Settled(b[j]) \/ (b[j] = Arrow /\ b[j + 1] = Block)
  <2>1. /\ j \in 1 .. Len(a) /\ b[j] = a[j]
        /\ j - 1 \in 1 .. Len(a) /\ b[j - 1] = a[j - 1]
    BY <1>1, <1>2
  <2>2. CASE j < Len(a)
    <3>1. Settled(a[j]) \/ (a[j] = Arrow /\ a[j + 1] = Block)
      BY <1>2, <2>1, <2>2 DEF UsesBehind
    <3>2. b[j + 1] = a[j + 1]
      BY <1>1, <1>2, <2>2
    <3> QED  BY <2>1, <3>1, <3>2
  <2>3. CASE j = Len(a)
    <3>1. Len(a) >= 2 /\ a[Len(a) - 1] = UseTok
      BY <1>1, <1>2, <2>1, <2>3
    <3>2. Settled(a[Len(a)]) \/ (a[Len(a)] = Arrow /\ td[1] = Block)
      BY <3>1 DEF LastUse
    <3>3. b[j + 1] = td[1]
      BY <1>1, <2>3
    <3> QED  BY <2>1, <2>3, <3>2, <3>3
  <2> QED  BY <1>1, <2>1, <2>2, <2>3
<1>3. UsesBehind(b)
  BY <1>2 DEF UsesBehind
<1> QED  BY <1>3 DEF b

LEMMA PushUse == ASSUME TypeOK, UseInv, Push PROVE UseInv'
<1>1. /\ status = "running" /\ todo # <<>> /\ todo \in Seq(Item)
      /\ Head(todo) = todo[1] /\ todo[1].t \in TokenKinds /\ todo[1] \in Item
      /\ acc \in Seq(Token)
  BY HeadItem DEF Push, TypeOK
<1>2. todo[1] \in Token
  BY <1>1 DEF Item, Token, TokenKinds, KvItem
<1>3. /\ acc' = Append(acc, todo[1]) /\ todo' = Tail(todo) /\ status' # "parsed"
      /\ vars' = vars /\ with_stack' = with_stack
  BY <1>1 DEF Push
<1>4. /\ UsesBehind(acc) /\ UsesAhead(todo, BuiltinNames)
      /\ LastUse(acc, todo, BuiltinNames)
  BY <1>1 DEF UseInv
<1>5. BuiltinNames' = BuiltinNames
  BY <1>3 DEF BuiltinNames, resolve_ident, Bound
<1>6. PICK K : K = BuiltinNames
  OBVIOUS
<1>7. /\ UsesBehind(Append(acc, todo[1])) /\ UsesAhead(Tail(todo), K)
      /\ LastUse(Append(acc, todo[1]), Tail(todo), K)
  BY <1>1, <1>2, <1>4, <1>6, PushAhead, PushLast, PushBehind
<1> QED  BY <1>3, <1>5, <1>6, <1>7 DEF UseInv

----------------------------------------------------------------------------
LEMMA InitUse == ASSUME Init PROVE UseInv
<1>1. Len(todo) = 0 /\ Len(acc) = 0 /\ acc = <<>> /\ status # "running"
  BY DEF Init
<1> QED  BY <1>1 DEF UseInv, UsesBehind, UsesAhead

LEMMA StartUse == ASSUME TypeOK, UseInv, Start PROVE UseInv'
<1> DEFINE T == <<Sub(prog, NW)>>
<1>1. UsesBehind(acc')
  BY DEF UseInv, Start
<1>2. PICK M : M = BuiltinNames'
  OBVIOUS
<1>3. CASE todo' = <<>> /\ status' = "err"
  <2>1. Len(todo') = 0 /\ status' # "running" /\ status' # "parsed"
    BY <1>3
  <2>2. UsesAhead(todo', M)
    BY <2>1 DEF UsesAhead
  <2> QED  BY <1>1, <1>2, <2>1, <2>2 DEF UseInv
<1>4. CASE todo' = T /\ status = "parsed" /\ status' = "running" /\ acc' = acc
  <2>1. prog \in NodeOpt
    BY NodesAssumption DEF TypeOK, NodeOpt
  <2>2. Awaiting(T)
    BY <2>1, SubCalm, Tuple1, CalmAwaiting, Contexts
  <2>3. UsesAhead(todo', M)
    BY <1>4, <2>2, AwaitingAhead
  <2>4. Len(acc') = 0
    BY <1>4 DEF UseInv
  <2>5. LastUse(acc', todo', M)
    BY <2>4 DEF LastUse
  <2> QED  BY <1>1, <1>2, <1>4, <2>3, <2>5 DEF UseInv
<1> QED  BY <1>3, <1>4 DEF Start

LEMMA TruncateVarsUse == ASSUME TypeOK, UseInv, TruncateVars PROVE UseInv'
<1>1. /\ Running("trunc") /\ todo' = Tail(todo) /\ acc' = acc
      /\ status' = status \/ status' = "panic"
  BY DEF TruncateVars
<1>2. status' # "parsed"
  BY <1>1 DEF Running
<1> QED  BY <1>1, <1>2, TailUse

LEMMA WithEndUse == ASSUME TypeOK, UseInv, WithEnd PROVE UseInv'
<1>1. Running("unwith") /\ todo' = Tail(todo) /\ acc' = acc /\ status' = status
  BY DEF WithEnd
<1>2. status' # "parsed"
  BY <1>1 DEF Running
<1> QED  BY <1>1, <1>2, TailUse

LEMMA IdleUse ==
  ASSUME UseInv, UNCHANGED <<todo, vars, with_stack, acc>>,
         status' = status \/ status' = "done"
  PROVE  UseInv'
<1>1. BuiltinNames' = BuiltinNames
  BY DEF BuiltinNames, resolve_ident, Bound
<1> QED  BY <1>1 DEF UseInv

LEMMA NextUse == ASSUME TypeOK, UseInv, [Next]_allvars PROVE UseInv'
<1>1. CASE Expression
  BY <1>1, ApplyUse, AssertUse, AttrSetUse, BinOpUse, IsSetUse, TransparentUse,
     IdentUse, IfElseUse, LambdaIdentUse, LambdaPatternUse, LegacyLetUse,
     LetInUse, ListUse, OrDefaultUse, SelectUse, StrUse, UnaryOpUse, ValueUse,
     WithUse DEF Expression
<1>2. CASE Continuation
  BY <1>2, PushUse, PatternFormalUse, RegisterKeyUse, TruncateVarsUse,
     KeyValueUse, KeyElementUse, InheritUse, InheritIdentUse, PropInheritUse,
     IdentRawUse, StringPartUse, WithEndUse DEF Continuation
<1>3. CASE Fail \/ Panic
  BY <1>3, AbortUse DEF Fail, Panic
<1>4. CASE Start
  BY <1>4, StartUse
<1>5. CASE Finish \/ Terminated \/ UNCHANGED allvars
  BY <1>5, IdleUse DEF Finish, Terminated, allvars
<1> QED  BY <1>1, <1>2, <1>3, <1>4, <1>5 DEF Next

(* Every `use' that is ahead in a template, at the end of the output or    *)
(* within it is followed by a call that awaits its value or by what cannot *)
(* be a promise: each template gives its uses the context that the code    *)
(* passes (Want to await), and lazyness_incoming does what it is asked.    *)
THEOREM UseInvariance == Spec => []UseInv
<1>1. Init => UseInv
  BY InitUse
<1>2. TypeOK /\ UseInv /\ [Next]_allvars => UseInv'
  BY NextUse
<1> QED  BY <1>1, <1>2, TypeCorrect, PTL DEF Spec

(* What the emitted code uses at once is no promise, whatever expression   *)
(* stands there and wherever it is nested, but for the kinds of node that  *)
(* ignore the context they are called with: a unary operator, a `with', a  *)
(* path, and a let with variables.                                         *)
THEOREM UsesAwaited == Spec => []UsesAwaitedButForGaps
<1>1. TypeOK /\ UseInv => UsesAwaitedButForGaps
  <2> SUFFICES ASSUME TypeOK, UseInv, NEW j \in DOMAIN acc,
                      j > 1, j < Len(acc), acc[j - 1] = UseTok
               PROVE  \/ AwaitedAt(j)
                      \/ acc[j].t = "open" /\ acc[j].x \in IgnoreContext
                      \/ acc[j] = Arrow /\ acc[j + 1] = Block
                      \/ acc[j].t = "lit" /\ acc[j].x = "export"
    BY DEF UsesAwaitedButForGaps, UseTok, Arrow, Block
  <2>1. j \in 1 .. Len(acc)
    BY DEF TypeOK
  <2>2. Settled(acc[j]) \/ (acc[j] = Arrow /\ acc[j + 1] = Block)
    BY <2>1 DEF UseInv, UsesBehind
  <2> QED  BY <2>2 DEF Settled, AwaitedAt
<1> QED  BY <1>1, UseInvariance, TypeCorrect, PTL

----------------------------------------------------------------------------
(***************************************************************************)
(* The nesting of the emitted code.  A state q of the walk over a sequence *)
(* of tokens and stack elements holds the innermost open bracket (fr), the *)
(* brackets around it (rest), what the translator's table says of each     *)
(* name (L) and its depth of `with' (w).  A bracket has the set `has' of   *)
(* what is known inside: "cov", await is allowed or a gap surrounds it;    *)
(* "inw", a `with' is around; "calm", no binding outside of the bracket    *)
(* that is still to be assigned can be read too early by strict code;      *)
(* "mrg", the await of a merge.  bound is the way JavaScript's scoping     *)
(* reaches each name; D and E are the names declared and assigned directly *)
(* in the whole bracket, d and a those declared and assigned so far.       *)
(***************************************************************************)
Bindings == {"lambda", "block", NIX_IN_SCOPE}
Gaps     == {"isset", "ns", "unop", "bsel"}
Shelters == AsyncFns \cup Gaps
Screens  == Delaying \cup {"isset", "unop", "with", "ns", "bsel", "use", NIX_IN_SCOPE}
Passing  == {"set", "obj", "const", "merge", ATTRS_SCOPE}

Cov(q) == "cov" \in q.fr.has
Quiet(q) == /\ "calm" \in q.fr.has
            /\ q.fr.x \in Bindings => q.fr.a = q.fr.E

Brings(x, D, E) ==
  IF x \in {"lambda", "block"} THEN D ELSE IF x = NIX_IN_SCOPE THEN E ELSE {}

Way(x) ==
  IF x = "lambda" THEN "LambdaArg"
  ELSE IF x = "block" THEN "LetLetVar" ELSE "LetInScopeVar"

Frame(x, v, has, bound, D, E, d, a) ==
  [x |-> x, v |-> v, has |-> has, bound |-> bound, D |-> D, E |-> E, d |-> d,
   a |-> a]

State(fr, rest, L, w) == [fr |-> fr, rest |-> rest, L |-> L, w |-> w]

IsState(q) ==
  /\ q = State(q.fr, q.rest, q.L, q.w)
  /\ q.fr = Frame(q.fr.x, q.fr.v, q.fr.has, q.fr.bound, q.fr.D, q.fr.E,
                  q.fr.d, q.fr.a)

Enter(x, v, q, D, E) ==
  State(Frame(x, v,
              {h \in {"cov", "inw", "calm", "mrg"} :
                 \/ h = "cov" /\ (Cov(q) \/ x \in Shelters)
                 \/ h = "inw" /\ ("inw" \in q.fr.has \/ x = "with")
                 \/ h = "calm" /\ (Quiet(q) \/ x \in Screens)
                 \/ h = "mrg" /\ x = "await" /\ ~Quiet(q)},
              [i \in NameSet |-> IF i \in Brings(x, D, E) THEN Way(x)
                                 ELSE q.fr.bound[i]],
              D, E, {}, {}),
        Append(q.rest, q.fr), q.L, q.w)

(* The state after names have been declared and assigned in the bracket. *)
Plus(q, B, A) ==
  State(Frame(q.fr.x, q.fr.v, q.fr.has, q.fr.bound, q.fr.D, q.fr.E,
              q.fr.d \cup B, q.fr.a \cup A),
        q.rest, q.L, q.w)

(* The table of the translator, as a function of the names. *)
Last(s, v, j) ==
  /\ j \in DOMAIN s /\ s[j].n = v
  /\ \A i \in DOMAIN s : i > j => s[i].n # v

Table(s) ==
  [v \in NameSet |-> IF \E j \in DOMAIN s : s[j].n = v
                     THEN s[CHOOSE j \in DOMAIN s :
                              /\ s[j].n = v
                              /\ \A i \in DOMAIN s : i > j => s[i].n # v].c
                     ELSE "none"]

Stacked(q) == \E X : q.rest \in Seq(X)

(* The table and JavaScript's scoping agree on every name. *)
Apt(q) ==
  /\ IsState(q) /\ Stacked(q)
  /\ "mrg" \notin q.fr.has
  /\ \A v \in NameSet :
       q.L[v] = IF q.fr.bound[v] = "none" THEN Table(DFL_VARS)[v]
                ELSE q.fr.bound[v]
  /\ \A v \in NameSet : q.fr.bound[v] \in {"none", "LambdaArg", "LetLetVar", "LetInScopeVar"}
  /\ q.w > 0 => "inw" \in q.fr.has

Firm(q) == Apt(q) /\ Cov(q) /\ Quiet(q)

(* The names an entry, or an inherit, assigns. *)
Sets(e, scope) ==
  IF e.key = <<>> \/ (scope = NO_SCOPE /\ Len(e.key) > 1) THEN {}
  ELSE {KeyName(e.key[1])}
Ids(h) == {h.ids[j] : j \in DOMAIN h.ids}

MayOpen(x, q) ==
  /\ x.x = "await" => Cov(q)
  /\ x.x \notin Screens \cup Passing \cup {"await"} => Quiet(q)
  /\ x.x = "set" => x.v \in q.fr.E

Closes(x, q, r) ==
  /\ q.fr.x = x.x /\ q.fr.v = x.v /\ q.fr.d = q.fr.D /\ q.fr.a = q.fr.E
  /\ \E f : LET o == State(f, r.rest, q.L, q.w)
            IN /\ q.rest = Append(r.rest, f) /\ IsState(o) /\ Stacked(r)
               /\ r = IF x.x = "set" THEN Plus(o, {}, {x.v}) ELSE o

(* The step from state q over x to state r; vs is the translator's table. *)
Moves(x, q, r, vs) ==
  /\ "mrg" \in q.fr.has => x.t = "close" \/ x = Open("merge", "")
  /\ x.t = "open" => MayOpen(x, q) /\ \E D, E : r = Enter(x.x, x.v, q, D, E)
  /\ x.t = "close" => Closes(x, q, r)
  /\ x.t = "decl" => x.v \in q.fr.D /\ r = Plus(q, {x.v}, {})
  /\ x.t = "read" =>
       /\ r = q /\ x.v \in NameSet
       /\ IF x.x = "WithScopeVar"
          THEN q.fr.bound[x.v] = "none" /\ "inw" \in q.fr.has
          ELSE x.x # "none" /\ q.fr.bound[x.v] = x.x
  /\ x.t = "lit" => r = q /\ (x.x = "builtin" => x.v \in NameSet /\ q.fr.bound[x.v] = "none")
  /\ x.t = "node" => r = q /\ Apt(q) /\ (x.sctx # NW => Firm(q))
  /\ x.t = "ident" => r = q /\ Apt(q) /\ (x.sctx.await_st = "Want" => Firm(q))
  /\ x.t \in {"key", "part"} => r = q /\ Apt(q) /\ Cov(q)
  /\ x.t = "propinh" => r = q /\ Apt(q)
  /\ x.t = "formal" =>
       /\ Apt(q) /\ x.formal.name \in q.fr.D /\ x.formal.name \in q.fr.E
       /\ r = Plus(q, {x.formal.name}, {x.formal.name})
  /\ x.t = "kv" => /\ Apt(q) /\ Cov(q) /\ Sets(x.entry, x.scope) \subseteq q.fr.E
                   /\ r = Plus(q, {}, Sets(x.entry, x.scope))
  /\ x.t = "inh" => /\ Apt(q) /\ Ids(x.inh) \subseteq q.fr.E
                    /\ r = Plus(q, {}, Ids(x.inh))
  /\ x.t \in {"inhid", "thenid"} => /\ Apt(q) /\ x.id \in q.fr.E
                                    /\ r = Plus(q, {}, {x.id})
  /\ x.t = "keys" =>
       LET B == IF x.categ = "LetLetVar" THEN x.keys ELSE {}
       IN /\ B \subseteq q.fr.D
          /\ r = State(Plus(q, B, {}).fr, q.rest,
                       [v \in NameSet |-> IF v \in x.keys THEN x.categ ELSE q.L[v]],
                       q.w)
  /\ x.t = "trunc" => r = State(q.fr, q.rest, Table(SubSeq(vs, 1, x.len)), q.w)
  /\ x.t = "unwith" => r = State(q.fr, q.rest, q.L, x.d)

Path(T, q, r, vs) ==
  (\E X : T \in Seq(X)) /\
  \E Q : /\ Q[1] = q /\ Q[Len(T) + 1] = r
         /\ \A j \in 1 .. Len(T) : Moves(T[j], Q[j], Q[j + 1], vs)

Start0 ==
  State(Frame("", "", {"calm"}, [v \in NameSet |-> "none"], {}, {}, {}, {}),
        <<>>, Table(DFL_VARS), 0)

FlowInv ==
  /\ status = "parsed" => acc = <<>> /\ vars = DFL_VARS /\ with_stack = 0
  /\ status \in {"running", "done"} =>
       \E p, q, e : /\ IsState(p) /\ IsState(q) /\ p.fr = q.fr /\ p.rest = q.rest
                    /\ q.L = Table(vars) /\ q.w = with_stack
                    /\ Path(acc, Start0, p, <<>>)
                    /\ Path(todo, q, e, vars) /\ e.rest = <<>>

----------------------------------------------------------------------------
(* Walks: over nothing, over one element, over one part after the other. *)
LEMMA NoPath == ASSUME NEW q, NEW vs PROVE Path(<<>>, q, q, vs)
<1> DEFINE Q == [j \in 1 .. 1 |-> q]
<1>1. Q[1] = q
  OBVIOUS
<1>2. Len(<<>>) = 0 /\ 0 + 1 = 1 /\ 1 .. 0 = {} /\ <<>> \in Seq({})
  OBVIOUS
<1> HIDE DEF Q
<1> QED  BY <1>1, <1>2 DEF Path

LEMMA OnePath ==
  ASSUME NEW x, NEW q, NEW r, NEW vs, Moves(x, q, r, vs)
  PROVE  Path(<<x>>, q, r, vs)
<1> DEFINE Q == <<q, r>>
           T == <<x>>
<1>1. Q[1] = q /\ Q[2] = r /\ Len(T) = 1 /\ T[1] = x /\ T \in Seq({x})
  OBVIOUS
<1> HIDE DEF Q, T
<1>2. ASSUME NEW j \in 1 .. 1 PROVE Moves(T[j], Q[j], Q[j + 1], vs)
  <2>1. j = 1 /\ j + 1 = 2
    OBVIOUS
  <2> QED  BY <1>1, <2>1
<1>3. 1 + 1 = 2
  OBVIOUS
<1>4. \E X : T \in Seq(X)
  BY <1>1
<1>5. Path(T, q, r, vs)
  BY <1>1, <1>2, <1>3, <1>4 DEF Path
<1> QED  BY <1>5 DEF T

LEMMA ConcatPath ==
  ASSUME NEW T, NEW U, NEW q, NEW r, NEW s, NEW vs,
         Path(T, q, r, vs), Path(U, r, s, vs)
  PROVE  Path(T \o U, q, s, vs)
<1>a. PICK Y : T \in Seq(Y)
  BY DEF Path
<1>b. PICK Z : U \in Seq(Z)
  BY DEF Path
<1> DEFINE X == Y \cup Z
<1>c. T \in Seq(X) /\ U \in Seq(X)
  BY <1>a, <1>b, SeqMonotonic
<1> HIDE DEF X
<1> USE <1>c
<1> DEFINE W == T \o U
<1>d. W \in Seq(X)
  OBVIOUS
<1>1. /\ Len(W) = Len(T) + Len(U) /\ Len(T) \in Nat /\ Len(U) \in Nat
      /\ \A i \in 1 .. Len(T) : W[i] = T[i]
      /\ \A i \in 1 .. Len(U) : W[Len(T) + i] = U[i]
  OBVIOUS
<1>2. PICK P : /\ P[1] = q /\ P[Len(T) + 1] = r
               /\ \A j \in 1 .. Len(T) : Moves(T[j], P[j], P[j + 1], vs)
  BY DEF Path
<1>3. PICK R : /\ R[1] = r /\ R[Len(U) + 1] = s
               /\ \A j \in 1 .. Len(U) : Moves(U[j], R[j], R[j + 1], vs)
  BY DEF Path
<1> DEFINE Q == [j \in 1 .. (Len(T) + Len(U) + 1) |->
                   IF j <= Len(T) THEN P[j] ELSE R[j - Len(T)]]
<1>4. Q[1] = q /\ Q[Len(T) + Len(U) + 1] = s
  BY <1>1, <1>2, <1>3
<1>5. ASSUME NEW j \in 1 .. Len(W) PROVE Moves(W[j], Q[j], Q[j + 1], vs)
  <2>1. CASE j < Len(T)
    <3>1. W[j] = T[j] /\ Q[j] = P[j] /\ Q[j + 1] = P[j + 1] /\ j \in 1 .. Len(T)
      BY <1>1, <2>1
    <3> QED  BY <1>2, <3>1
  <2>2. CASE j = Len(T)
    <3>1. /\ W[j] = T[j] /\ Q[j] = P[j] /\ Q[j + 1] = R[1] /\ j \in 1 .. Len(T)
          /\ P[j + 1] = r
      BY <1>1, <1>2, <2>2
    <3> QED  BY <1>2, <1>3, <3>1
  <2>3. CASE j > Len(T)
    <3> DEFINE k == j - Len(T)
    <3>1. /\ k \in 1 .. Len(U) /\ W[j] = U[k] /\ Q[j] = R[k] /\ Q[j + 1] = R[k + 1]
      BY <1>1, <2>3
    <3> HIDE DEF k, Q
    <3> QED  BY <1>3, <3>1
  <2> QED  BY <1>1, <2>1, <2>2, <2>3
<1> HIDE DEF W, Q
<1>6. Q[Len(W) + 1] = s
  BY <1>1, <1>4
<1>7. Path(W, q, s, vs)
  BY <1>d, <1>4, <1>5, <1>6 DEF Path
<1> QED  BY <1>7 DEF W

LEMMA SplitPath ==
  ASSUME NEW T, T # <<>>, NEW q, NEW s, NEW vs, Path(T, q, s, vs)
  PROVE  \E r : Moves(Head(T), q, r, vs) /\ Path(Tail(T), r, s, vs)
<1>0. PICK X : T \in Seq(X)
  BY DEF Path
<1> USE <1>0
<1>1. /\ Len(T) \in Nat /\ Len(T) >= 1 /\ Head(T) = T[1] /\ Len(Tail(T)) = Len(T) - 1
      /\ \A i \in 1 .. (Len(T) - 1) : Tail(T)[i] = T[i + 1]
  OBVIOUS
<1>2. PICK P : /\ P[1] = q /\ P[Len(T) + 1] = s
               /\ \A j \in 1 .. Len(T) : Moves(T[j], P[j], P[j + 1], vs)
  BY DEF Path
<1> DEFINE R == [j \in 1 .. Len(T) |-> P[j + 1]]
           U == Tail(T)
<1>3. R[1] = P[2] /\ R[Len(T)] = s
  BY <1>1, <1>2
<1>4. Moves(Head(T), q, P[2], vs)
  <2>1. 1 \in 1 .. Len(T) /\ 1 + 1 = 2
    BY <1>1
  <2> QED  BY <1>1, <1>2, <2>1
<1>5. ASSUME NEW j \in 1 .. Len(U) PROVE Moves(U[j], R[j], R[j + 1], vs)
  <2>1. j + 1 \in 1 .. Len(T) /\ U[j] = T[j + 1] /\ R[j] = P[j + 1] /\ R[j + 1] = P[j + 1 + 1]
    BY <1>1
  <2> QED  BY <1>2, <2>1
<1>6. Len(U) + 1 = Len(T) /\ U \in Seq(X)
  BY <1>1
<1> HIDE DEF R, U
<1>7. Path(U, P[2], s, vs)
  BY <1>3, <1>5, <1>6 DEF Path
<1> QED  BY <1>4, <1>7 DEF U

LEMMA SteadyAll ==
  ASSUME NEW X, NEW T \in Seq(X), NEW q, NEW vs,
         \A j \in 1 .. Len(T) : Moves(T[j], q, q, vs)
  PROVE  Path(T, q, q, vs)
<1> DEFINE Q == [j \in 1 .. (Len(T) + 1) |-> q]
<1>1. Q[1] = q /\ Q[Len(T) + 1] = q /\ \A j \in 1 .. Len(T) : Q[j] = q /\ Q[j + 1] = q
  OBVIOUS
<1> HIDE DEF Q
<1> QED  BY <1>1 DEF Path

(* A sequence of elements that declare and assign names. *)
LEMMA PlusAll ==
  ASSUME NEW X, NEW T \in Seq(X), NEW q, IsState(q), NEW vs, NEW B, NEW A,
         \A j \in 1 .. Len(T) : \A Y, Z :
           Moves(T[j], Plus(q, Y, Z), Plus(q, Y \cup B[j], Z \cup A[j]), vs),
         NEW V, \A v : v \in V <=> \E j \in 1 .. Len(T) : v \in B[j],
         NEW W, \A v : v \in W <=> \E j \in 1 .. Len(T) : v \in A[j]
  PROVE  Path(T, q, Plus(q, V, W), vs)
<1> DEFINE n == Len(T)
           Upto(F, k) == UNION {F[j] : j \in {i \in 1 .. n : i < k}}
           Q == [k \in 1 .. (n + 1) |-> Plus(q, Upto(B, k), Upto(A, k))]
<1>0. n \in Nat
  OBVIOUS
<1> USE <1>0
<1>1. Upto(B, 1) = {} /\ Upto(A, 1) = {}
  OBVIOUS
<1>2. Plus(q, {}, {}) = q
  <2>1. q.fr.d \cup {} = q.fr.d /\ q.fr.a \cup {} = q.fr.a
    OBVIOUS
  <2> QED  BY <2>1 DEF IsState, Plus
<1>3. Q[1] = q
  <2>1. Q[1] = Plus(q, Upto(B, 1), Upto(A, 1))
    OBVIOUS
  <2> HIDE DEF Q, Upto
  <2> QED  BY <1>1, <1>2, <2>1
<1>4. Upto(B, n + 1) = V /\ Upto(A, n + 1) = W
  <2>1. {i \in 1 .. n : i < n + 1} = 1 .. n
    OBVIOUS
  <2> QED  BY <2>1
<1>5. ASSUME NEW j \in 1 .. n PROVE Moves(T[j], Q[j], Q[j + 1], vs)
  <2>1. {i \in 1 .. n : i < j + 1} = {i \in 1 .. n : i < j} \cup {j}
    OBVIOUS
  <2>2. Upto(B, j + 1) = Upto(B, j) \cup B[j] /\ Upto(A, j + 1) = Upto(A, j) \cup A[j]
    BY <2>1
  <2>3. /\ Q[j] = Plus(q, Upto(B, j), Upto(A, j))
        /\ Q[j + 1] = Plus(q, Upto(B, j + 1), Upto(A, j + 1))
    OBVIOUS
  <2> HIDE DEF Q, Upto
  <2>4. Moves(T[j], Plus(q, Upto(B, j), Upto(A, j)),
              Plus(q, Upto(B, j) \cup B[j], Upto(A, j) \cup A[j]), vs)
    OBVIOUS
  <2> QED  BY <2>2, <2>3, <2>4
<1>6. Q[n + 1] = Plus(q, V, W)
  <2>1. Q[n + 1] = Plus(q, Upto(B, n + 1), Upto(A, n + 1))
    OBVIOUS
  <2> HIDE DEF Q, Upto
  <2> QED  BY <1>4, <2>1
<1> HIDE DEF Q
<1> QED  BY <1>3, <1>5, <1>6 DEF Path

(* The table matters to truncations only. *)
LEMMA OtherTable ==
  ASSUME NEW T, NEW q, NEW r, NEW vs, NEW us, Path(T, q, r, vs),
         \A j \in 1 .. Len(T) : T[j].t = "trunc" =>
           Table(SubSeq(us, 1, T[j].len)) = Table(SubSeq(vs, 1, T[j].len))
  PROVE  Path(T, q, r, us)
<1>1. PICK P : /\ P[1] = q /\ P[Len(T) + 1] = r
               /\ \A j \in 1 .. Len(T) : Moves(T[j], P[j], P[j + 1], vs)
  BY DEF Path
<1>2. ASSUME NEW j \in 1 .. Len(T) PROVE Moves(T[j], P[j], P[j + 1], us)
  <2>1. Moves(T[j], P[j], P[j + 1], vs)
    BY <1>1
  <2>2. T[j].t = "trunc" =>
          P[j + 1] = State(P[j].fr, P[j].rest, Table(SubSeq(us, 1, T[j].len)), P[j].w)
    BY <2>1 DEF Moves
  <2> QED  BY <2>1, <2>2 DEF Moves
<1> QED  BY <1>1, <1>2 DEF Path

LEMMA TwoPath ==
  ASSUME NEW x, NEW y, NEW q, NEW r, NEW s, NEW vs, Moves(x, q, r, vs), Moves(y, r, s, vs)
  PROVE  Path(<<x, y>>, q, s, vs)
  BY OnePath, ConcatPath, Pair

LEMMA Triple == ASSUME NEW a, NEW b, NEW c PROVE <<a>> \o <<b, c>> = <<a, b, c>>
<1> DEFINE u == <<a>> \o <<b, c>>
           X == {a, b, c}
<1>1. <<a>> \in Seq(X) /\ <<b, c>> \in Seq(X) /\ <<a, b, c>> \in Seq(X)
  OBVIOUS
<1>2. u \in Seq(X) /\ Len(u) = 3 /\ u[1] = a /\ u[2] = b /\ u[3] = c
  BY <1>1, ConcatProperties
<1>3. \A i \in 1 .. Len(u) : u[i] = <<a, b, c>>[i]
  BY <1>2
<1>4. Len(<<a, b, c>>) = 3
  OBVIOUS
<1> HIDE DEF u
<1> QED  BY <1>1, <1>2, <1>3, <1>4, SeqEqual DEF u

LEMMA Quadruple ==
  ASSUME NEW a, NEW b, NEW c, NEW d PROVE <<a>> \o <<b, c, d>> = <<a, b, c, d>>
<1> DEFINE u == <<a>> \o <<b, c, d>>
           X == {a, b, c, d}
<1>1. <<a>> \in Seq(X) /\ <<b, c, d>> \in Seq(X) /\ <<a, b, c, d>> \in Seq(X)
  OBVIOUS
<1>2. u \in Seq(X) /\ Len(u) = 4 /\ u[1] = a /\ u[2] = b /\ u[3] = c /\ u[4] = d
  BY <1>1, ConcatProperties
<1>3. \A i \in 1 .. Len(u) : u[i] = <<a, b, c, d>>[i]
  BY <1>2
<1>4. Len(<<a, b, c, d>>) = 4
  OBVIOUS
<1> HIDE DEF u
<1> QED  BY <1>1, <1>2, <1>3, <1>4, SeqEqual DEF u

LEMMA ThreePath ==
  ASSUME NEW x, NEW y, NEW z, NEW q, NEW r, NEW s, NEW t, NEW vs,
         Moves(x, q, r, vs), Moves(y, r, s, vs), Moves(z, s, t, vs)
  PROVE  Path(<<x, y, z>>, q, t, vs)
  BY OnePath, TwoPath, ConcatPath, Triple

LEMMA FourPath ==
  ASSUME NEW x, NEW y, NEW z, NEW u, NEW q, NEW r, NEW s, NEW t, NEW p, NEW vs,
         Moves(x, q, r, vs), Moves(y, r, s, vs), Moves(z, s, t, vs), Moves(u, t, p, vs)
  PROVE  Path(<<x, y, z, u>>, q, p, vs)
  BY OnePath, ThreePath, ConcatPath, Quadruple

LEMMA SevenPath ==
  ASSUME NEW a, NEW b, NEW c, NEW d, NEW e, NEW f, NEW g, NEW q1, NEW q2, NEW q3,
         NEW q4, NEW q5, NEW q6, NEW q7, NEW q8, NEW vs,
         Moves(a, q1, q2, vs), Moves(b, q2, q3, vs), Moves(c, q3, q4, vs),
         Moves(d, q4, q5, vs), Moves(e, q5, q6, vs), Moves(f, q6, q7, vs),
         Moves(g, q7, q8, vs)
  PROVE  Path(<<a, b, c, d, e, f, g>>, q1, q8, vs)
<1>1. Path(<<a, b, c, d>>, q1, q5, vs)
  BY FourPath
<1>2. Path(<<e, f, g>>, q5, q8, vs)
  BY ThreePath
<1>3. Path(<<a, b, c, d>> \o <<e, f, g>>, q1, q8, vs)
  BY <1>1, <1>2, ConcatPath
<1>4. <<a, b, c, d>> \o <<e, f, g>> = <<a, b, c, d, e, f, g>>
  <2> DEFINE u == <<a, b, c, d>> \o <<e, f, g>>
             w == <<a, b, c, d, e, f, g>>
             X == {a, b, c, d, e, f, g}
  <2>1. /\ <<a, b, c, d>> \in Seq(X) /\ <<e, f, g>> \in Seq(X) /\ w \in Seq(X)
        /\ Len(<<a, b, c, d>>) = 4 /\ Len(<<e, f, g>>) = 3
    OBVIOUS
  <2>2. u \in Seq(X) /\ Len(u) = 7
    BY <2>1, ConcatProperties
  <2>3. \A i \in 1 .. 4 : u[i] = <<a, b, c, d>>[i]
    BY <2>1, ConcatProperties
  <2>4. \A i \in 5 .. 7 : u[i] = <<e, f, g>>[i - 4]
    BY <2>1, ConcatProperties
  <2>5. /\ u[1] = a /\ u[2] = b /\ u[3] = c /\ u[4] = d
        /\ u[5] = e /\ u[6] = f /\ u[7] = g
    <3> HIDE DEF u
    <3>1. /\ u[1] = <<a, b, c, d>>[1] /\ u[2] = <<a, b, c, d>>[2]
          /\ u[3] = <<a, b, c, d>>[3] /\ u[4] = <<a, b, c, d>>[4]
          /\ u[5] = <<e, f, g>>[1] /\ u[6] = <<e, f, g>>[2] /\ u[7] = <<e, f, g>>[3]
      BY <2>3, <2>4
    <3> QED  BY <3>1
  <2>6. Len(w) = 7
    OBVIOUS
  <2> HIDE DEF u
  <2>7. \A i \in 1 .. 7 : u[i] = w[i]
    BY <2>5
  <2> HIDE DEF w
  <2> QED  BY <2>1, <2>2, <2>6, <2>7, SeqEqual DEF u, w
<1> QED  BY <1>3, <1>4, Zenon

----------------------------------------------------------------------------
(* What holds inside a bracket that binds nothing. *)
In(x, q) == Enter(x, "", q, {}, {})

LEMMA EnterStacked ==
  ASSUME NEW q, Stacked(q), NEW x, NEW v, NEW D, NEW E
  PROVE  Stacked(Enter(x, v, q, D, E))
<1>1. PICK X : q.rest \in Seq(X)
  BY DEF Stacked
<1>2. Enter(x, v, q, D, E).rest = Append(q.rest, q.fr)
  BY DEF Enter, State
<1>3. q.rest \in Seq(X \cup {q.fr})
  BY <1>1, SeqMonotonic
<1>4. Append(q.rest, q.fr) \in Seq(X \cup {q.fr})
  BY <1>3
<1> QED  BY <1>2, <1>4 DEF Stacked

LEMMA InApt ==
  ASSUME NEW q, Apt(q), NEW x, x \notin Bindings, x = "await" => Quiet(q)
  PROVE  Apt(In(x, q))
<1> DEFINE r == In(x, q)
<1>1. /\ r.fr.x = x /\ r.L = q.L /\ r.w = q.w
      /\ \A v \in NameSet : r.fr.bound[v] = q.fr.bound[v]
      /\ "mrg" \notin r.fr.has
      /\ "inw" \in q.fr.has => "inw" \in r.fr.has
  BY DEF In, Enter, State, Frame, Brings, Bindings
<1>2. IsState(r)
  BY DEF In, Enter, State, Frame, IsState
<1>3. Stacked(r)
  BY EnterStacked DEF In, Apt
<1> HIDE DEF r
<1> QED  BY <1>1, <1>2, <1>3 DEF Apt, r

LEMMA InFacts ==
  ASSUME NEW q, NEW x, x \notin Bindings
  PROVE  /\ Cov(In(x, q)) <=> Cov(q) \/ x \in Shelters
         /\ Quiet(In(x, q)) <=> Quiet(q) \/ x \in Screens
         /\ In(x, q).L = q.L /\ In(x, q).w = q.w
<1>1. /\ In(x, q).fr.x = x /\ In(x, q).L = q.L /\ In(x, q).w = q.w
      /\ "cov" \in In(x, q).fr.has <=> Cov(q) \/ x \in Shelters
      /\ "calm" \in In(x, q).fr.has <=> Quiet(q) \/ x \in Screens
  BY DEF In, Enter, State, Frame
<1> QED  BY <1>1 DEF Cov, Quiet

LEMMA InFirm ==
  ASSUME NEW q, Firm(q), NEW x, x \notin Bindings
  PROVE  Firm(In(x, q))
  BY InApt, InFacts DEF Firm

LEMMA OpenMoves ==
  ASSUME NEW q, NEW x, x # "set", NEW vs,
         "mrg" \in q.fr.has => x = "merge",
         x = "await" => Cov(q),
         x \notin Screens \cup Passing \cup {"await"} => Quiet(q)
  PROVE  Moves(Open(x, ""), q, In(x, q), vs)
<1>1. MayOpen(Open(x, ""), q)
  BY DEF MayOpen, Open
<1>2. \E D, E : In(x, q) = Enter(x, "", q, D, E)
  BY DEF In
<1> QED  BY <1>1, <1>2 DEF Moves, Open

LEMMA CloseMoves ==
  ASSUME NEW q, IsState(q), Stacked(q), NEW x, x # "set", NEW vs
  PROVE  Moves(Close(x, ""), In(x, q), q, vs)
<1> DEFINE r == In(x, q)
           c == Close(x, "")
<1>1. /\ r.fr.x = x /\ r.fr.v = "" /\ r.fr.d = r.fr.D /\ r.fr.a = r.fr.E
      /\ r.rest = Append(q.rest, q.fr) /\ r.L = q.L /\ r.w = q.w
  BY DEF In, Enter, State, Frame
<1>2. q = State(q.fr, q.rest, r.L, r.w)
  BY <1>1 DEF IsState
<1>3. c.t = "close" /\ c.x = x /\ c.v = ""
  BY DEF Close
<1> HIDE DEF r, c
<1>4. Closes(c, r, q)
  <2> DEFINE o == State(q.fr, q.rest, r.L, r.w)
  <2>1. r.rest = Append(q.rest, q.fr) /\ IsState(o) /\ q = o
    BY <1>1, <1>2
  <2> QED  BY <1>1, <1>3, <2>1 DEF Closes
<1> QED  BY <1>3, <1>4 DEF Moves, r, c

(* Calls of a node, an identifier, a key. *)
LEMMA SubMoves ==
  ASSUME NEW q, Apt(q), NEW n, NEW s, s # NW => Firm(q), NEW vs
  PROVE  Moves(Sub(n, s), q, q, vs)
  BY DEF Moves, Sub, Apt

LEMMA IdentMoves ==
  ASSUME NEW q, Apt(q), NEW i, NEW s, s.await_st = "Want" => Firm(q), NEW vs
  PROVE  Moves(IdentRef(i, s), q, q, vs)
  BY DEF Moves, IdentRef, Apt

LEMMA KeyMoves ==
  ASSUME NEW q, Apt(q), Cov(q), NEW n, NEW vs
  PROVE  Moves(KeyEl(n), q, q, vs) /\ Moves(StrPart(n), q, q, vs)
  BY DEF Moves, KeyEl, StrPart, Apt

LEMMA LitMoves ==
  ASSUME NEW q, Apt(q), NEW x, x # "builtin", NEW v, NEW vs
  PROVE  Moves(Lit(x, v), q, q, vs)
  BY DEF Moves, Lit, Apt

LEMMA UsePath ==
  ASSUME NEW q, Apt(q), Cov(q), NEW n, NEW s, NEW vs
  PROVE  Path(Use(n, s), q, q, vs)
<1> DEFINE r == In("use", q)
<1>1. Firm(r)
  <2>1. "use" \notin Bindings /\ "use" \in Screens
    BY DEF Bindings, Screens, NIX_IN_SCOPE
  <2> QED  BY <2>1, InApt, InFacts DEF Firm
<1>2. Moves(Open("use", ""), q, r, vs)
  BY OpenMoves DEF Screens, Apt
<1>3. Moves(Close("use", ""), r, q, vs)
  BY CloseMoves DEF Apt
<1>4. Moves(Sub(n, s), r, r, vs)
  BY <1>1, SubMoves DEF Firm
<1> HIDE DEF r
<1> QED  BY <1>2, <1>3, <1>4, ThreePath DEF Use

(***************************************************************************)
(* The wrappers of lazyness_incoming: inside, await is allowed and nothing *)
(* is read too early, unless no wrapper was asked for and none was needed. *)
(***************************************************************************)
LEMMA WrapPath ==
  ASSUME NEW q, Apt(q), NEW s \in Ctx, s # NW => Firm(q), NEW vs,
         NEW at \in {"Need", "Forward", "Flush"},
         NEW lt \in {"Need", "Forward", "Flush", "Force"}
  PROVE  \E r : /\ Apt(r) /\ r.L = q.L /\ r.w = q.w
                /\ s # NW \/ lt # "Forward" => Firm(r)
                /\ \A T : Path(T, r, r, vs) =>
                     Path(Wrap(lazyness_incoming(s, at, lt, "Front"), T), q, q, vs)
<1> DEFINE L == lazyness_incoming(s, at, lt, "Front")
           a == merge_sttr_fires(s.await_st, at)
           l == merge_sttr_fires(s.lazy_st, lt)
           wrap == l /\ (~a \/ lta(at, "Front"))
           again == wrap /\ ~lta(at, "Front")
           A1 == IF a THEN <<Open("await", "")>> ELSE <<>>
           A2 == IF wrap THEN <<Open("lazy", "")>> ELSE <<>>
           A3 == IF again THEN <<Open("await", "")>> ELSE <<>>
           B3 == IF again THEN <<Close("await", "")>> ELSE <<>>
           B2 == IF wrap THEN <<Close("lazy", "")>> ELSE <<>>
           B1 == IF a THEN <<Close("await", "")>> ELSE <<>>
           r1 == IF a THEN In("await", q) ELSE q
           r2 == IF wrap THEN In("lazy", r1) ELSE r1
           r3 == IF again THEN In("await", r2) ELSE r2
<1>0. "await" \notin Bindings /\ "lazy" \notin Bindings /\ "lazy" \in Screens
      /\ "lazy" \in Shelters
  BY DEF Bindings, Screens, Shelters, AsyncFns, Delaying, NIX_IN_SCOPE
<1>1. L.pre = A1 \o A2 \o A3 /\ L.post = B3 \o B2 \o B1
  BY DEF lazyness_incoming, merge_sttr
<1>2. a => s # NW
  BY DEF merge_sttr_fires, NW, mksctx
<1>3. s = NW /\ lt # "Forward" => wrap
  BY DEF merge_sttr_fires, NW, mksctx
<1> HIDE DEF L, a, wrap, again
<1>4. /\ Apt(r1) /\ r1.L = q.L /\ r1.w = q.w /\ (s # NW => Firm(r1))
      /\ Path(A1, q, r1, vs) /\ Path(B1, r1, q, vs)
  <2>1. CASE a
    <3>1. Firm(q)
      BY <1>2, <2>1
    <3>2. Firm(r1) /\ r1.L = q.L /\ r1.w = q.w
      BY <1>0, <2>1, <3>1, InFirm, InFacts
    <3>3. Moves(Open("await", ""), q, r1, vs) /\ Moves(Close("await", ""), r1, q, vs)
      BY <2>1, <3>1, OpenMoves, CloseMoves DEF Firm, Apt
    <3> HIDE DEF r1
    <3> QED  BY <2>1, <3>2, <3>3, OnePath DEF Firm
  <2>2. CASE ~a
    BY <2>2, NoPath
  <2> QED  BY <2>1, <2>2
<1> HIDE DEF r1, A1, B1
<1>5. /\ Apt(r2) /\ r2.L = q.L /\ r2.w = q.w /\ (s # NW \/ wrap => Firm(r2))
      /\ Path(A2, r1, r2, vs) /\ Path(B2, r2, r1, vs)
  <2>1. CASE wrap
    <3>2. Firm(r2) /\ r2.L = q.L /\ r2.w = q.w
      BY <1>0, <1>4, <2>1, InApt, InFacts DEF Firm
    <3>3. Moves(Open("lazy", ""), r1, r2, vs) /\ Moves(Close("lazy", ""), r2, r1, vs)
      BY <1>0, <1>4, <2>1, OpenMoves, CloseMoves DEF Apt
    <3> HIDE DEF r2
    <3> QED  BY <2>1, <3>2, <3>3, OnePath DEF Firm
  <2>2. CASE ~wrap
    BY <1>4, <2>2, NoPath
  <2> QED  BY <2>1, <2>2
<1> HIDE DEF r2, A2, B2
<1>6. again => wrap
  BY DEF again
<1>7. /\ Apt(r3) /\ r3.L = q.L /\ r3.w = q.w /\ (s # NW \/ wrap => Firm(r3))
      /\ Path(A3, r2, r3, vs) /\ Path(B3, r3, r2, vs)
  <2>1. CASE again
    <3>1. Firm(r2)
      BY <1>5, <1>6, <2>1
    <3>2. Firm(r3) /\ r3.L = q.L /\ r3.w = q.w
      BY <1>0, <1>5, <2>1, <3>1, InFirm, InFacts
    <3>3. Moves(Open("await", ""), r2, r3, vs) /\ Moves(Close("await", ""), r3, r2, vs)
      BY <2>1, <3>1, OpenMoves, CloseMoves DEF Firm, Apt
    <3> HIDE DEF r3
    <3> QED  BY <2>1, <3>2, <3>3, OnePath DEF Firm
  <2>2. CASE ~again
    BY <1>5, <2>2, NoPath
  <2> QED  BY <2>1, <2>2
<1> HIDE DEF r3, A3, B3
<1>8. Path(A1 \o A2 \o A3, q, r3, vs) /\ Path(B3 \o B2 \o B1, r3, q, vs)
  <2>1. Path(A1 \o A2, q, r2, vs) /\ Path(B3 \o B2, r3, r1, vs)
    BY <1>4, <1>5, <1>7, ConcatPath
  <2> QED  BY <2>1, <1>4, <1>7, ConcatPath
<1>9. ASSUME NEW T, Path(T, r3, r3, vs)
      PROVE  Path(Wrap(L, T), q, q, vs)
  <2>1. Path(L.pre \o T, q, r3, vs)
    BY <1>1, <1>8, <1>9, ConcatPath
  <2>2. Path(L.pre \o T \o L.post, q, q, vs)
    BY <1>1, <1>8, <2>1, ConcatPath
  <2> QED  BY <2>2 DEF Wrap
<1>10. s # NW \/ lt # "Forward" => Firm(r3)
  BY <1>3, <1>7
<1> QED  BY <1>7, <1>9, <1>10 DEF L

----------------------------------------------------------------------------
(* A handler that replaces its call by a template keeps FlowInv if the     *)
(* template leads from the state of the walk to where the call led.        *)
LEMMA HeadMoves ==
  ASSUME TypeOK, FlowInv, status = "running", todo # <<>>
  PROVE  \E p, q, r, e :
           /\ IsState(p) /\ IsState(q) /\ p.fr = q.fr /\ p.rest = q.rest
           /\ q.L = Table(vars) /\ q.w = with_stack
           /\ Path(acc, Start0, p, <<>>)
           /\ Moves(Head(todo), q, r, vars) /\ Path(Tail(todo), r, e, vars)
           /\ e.rest = <<>>
<1>1. PICK p, q, e :
         /\ IsState(p) /\ IsState(q) /\ p.fr = q.fr /\ p.rest = q.rest
         /\ q.L = Table(vars) /\ q.w = with_stack
         /\ Path(acc, Start0, p, <<>>)
         /\ Path(todo, q, e, vars) /\ e.rest = <<>>
  BY DEF FlowInv
<1>2. PICK r : Moves(Head(todo), q, r, vars) /\ Path(Tail(todo), r, e, vars)
  BY <1>1, SplitPath
<1> QED  BY <1>1, <1>2

LEMMA ReplaceFlow ==
  ASSUME TypeOK, FlowInv, status = "running", todo # <<>>, NEW T, Replace(T),
         \A q, r : IsState(q) /\ q.L = Table(vars) /\ q.w = with_stack
                     /\ Moves(Head(todo), q, r, vars) => Path(T, q, r, vars)
  PROVE  FlowInv'
<1>1. PICK p, q, r, e :
           /\ IsState(p) /\ IsState(q) /\ p.fr = q.fr /\ p.rest = q.rest
           /\ q.L = Table(vars) /\ q.w = with_stack
           /\ Path(acc, Start0, p, <<>>)
           /\ Moves(Head(todo), q, r, vars) /\ Path(Tail(todo), r, e, vars)
           /\ e.rest = <<>>
  BY HeadMoves
<1>2. Path(T \o Tail(todo), q, e, vars)
  BY <1>1, ConcatPath
<1>3. todo' = T \o Tail(todo) /\ UNCHANGED <<status, vars, with_stack, acc>>
  BY DEF Replace
<1> QED  BY <1>1, <1>2, <1>3 DEF FlowInv

(* For a call of a node: the state stays the same. *)
LEMMA NodeFlow ==
  ASSUME TypeOK, FlowInv, Running("node"), NEW T, Replace(T),
         \A q : Apt(q) /\ (S # NW => Firm(q)) /\ q.L = Table(vars)
                  /\ q.w = with_stack => Path(T, q, q, vars)
  PROVE  FlowInv'
<1>1. status = "running" /\ todo # <<>> /\ Head(todo).t = "node"
  BY DEF Running
<1>2. ASSUME NEW q, NEW r, Moves(Head(todo), q, r, vars)
      PROVE  r = q /\ Apt(q) /\ (S # NW => Firm(q))
  BY <1>1, <1>2 DEF Moves, S
<1> QED  BY <1>1, <1>2, ReplaceFlow

----------------------------------------------------------------------------
(* Brackets in a state that allows everything, and in any state. *)
LEMMA FirmBracket ==
  ASSUME NEW q, Firm(q), NEW x, x \notin Bindings, x # "set", NEW vs
  PROVE  /\ Firm(In(x, q)) /\ Moves(Open(x, ""), q, In(x, q), vs)
         /\ Moves(Close(x, ""), In(x, q), q, vs)
  BY InFirm, OpenMoves, CloseMoves, ZenonT(30) DEF Firm, Apt

LEMMA AptBracket ==
  ASSUME NEW q, Apt(q), NEW x, x \notin Bindings, x \in Screens \cup Passing,
         x # "set", NEW vs
  PROVE  /\ Apt(In(x, q)) /\ Moves(Open(x, ""), q, In(x, q), vs)
         /\ Moves(Close(x, ""), In(x, q), q, vs)
         /\ x \in Screens /\ (Cov(q) \/ x \in Shelters) => Firm(In(x, q))
         /\ (Cov(q) \/ x \in Shelters) => Cov(In(x, q))
<1>1. x # "await"
  BY DEF Screens, Passing, Delaying, NIX_IN_SCOPE, ATTRS_SCOPE
<1>2. Apt(In(x, q))
  BY <1>1, InApt
<1>3. Moves(Open(x, ""), q, In(x, q), vs)
  BY <1>1, OpenMoves DEF Apt
<1>4. Moves(Close(x, ""), In(x, q), q, vs)
  BY CloseMoves DEF Apt
<1>5. /\ Cov(In(x, q)) <=> Cov(q) \/ x \in Shelters
      /\ Quiet(In(x, q)) <=> Quiet(q) \/ x \in Screens
  BY InFacts
<1> QED  BY <1>2, <1>3, <1>4, <1>5 DEF Firm

LEMMA FirmSub ==
  ASSUME NEW q, Firm(q), NEW n, NEW s, NEW vs
  PROVE  Moves(Sub(n, s), q, q, vs)
  BY SubMoves DEF Firm

LEMMA ApplyFlow == ASSUME TypeOK, FlowInv, Apply PROVE FlowInv'
<1> DEFINE T == <<Open("call", "")>> \o Use(N.lambda, WN) \o
                <<Sub(N.value, NN), Close("call", "")>>
<1>1. Running("node") /\ S \in Ctx /\ Replace(Wrap(Incoming("Need", "Need"), T))
  BY VisitNode DEF Apply, Visit
<1>2. ASSUME NEW q, Apt(q), S # NW => Firm(q)
      PROVE  Path(Wrap(Incoming("Need", "Need"), T), q, q, vars)
  <2>1. PICK r : Firm(r) /\ \A U : Path(U, r, r, vars) =>
                   Path(Wrap(lazyness_incoming(S, "Need", "Need", "Front"), U), q, q, vars)
    BY <1>1, <1>2, WrapPath
  <2> DEFINE i == In("call", r)
  <2>2. /\ Firm(i) /\ Moves(Open("call", ""), r, i, vars)
        /\ Moves(Close("call", ""), i, r, vars)
    BY <2>1, FirmBracket DEF Bindings, NIX_IN_SCOPE
  <2> HIDE DEF i
  <2>3. Path(Use(N.lambda, WN), i, i, vars) /\ Moves(Sub(N.value, NN), i, i, vars)
    BY <2>2, UsePath, FirmSub DEF Firm
  <2>4. Path(T, r, r, vars)
    BY <2>2, <2>3, OnePath, TwoPath, ConcatPath
  <2> QED  BY <2>1, <2>4 DEF Incoming
<1> HIDE DEF T
<1> QED  BY <1>1, <1>2, NodeFlow

LEMMA BinOpFlow == ASSUME TypeOK, FlowInv, BinOp PROVE FlowInv'
<1> DEFINE T == <<Open("call", ""), Sub(N.lhs, NN), Sub(N.rhs, NN), Close("call", "")>>
<1>1. Running("node") /\ S \in Ctx /\ Replace(Wrap(Incoming("Need", "Flush"), T))
  BY VisitNode DEF BinOp, Visit
<1>2. ASSUME NEW q, Apt(q), S # NW => Firm(q)
      PROVE  Path(Wrap(Incoming("Need", "Flush"), T), q, q, vars)
  <2>1. PICK r : Firm(r) /\ \A U : Path(U, r, r, vars) =>
                   Path(Wrap(lazyness_incoming(S, "Need", "Flush", "Front"), U), q, q, vars)
    BY <1>1, <1>2, WrapPath
  <2> DEFINE i == In("call", r)
  <2>2. /\ Firm(i) /\ Moves(Open("call", ""), r, i, vars)
        /\ Moves(Close("call", ""), i, r, vars)
    BY <2>1, FirmBracket DEF Bindings, NIX_IN_SCOPE
  <2> HIDE DEF i
  <2>3. Moves(Sub(N.lhs, NN), i, i, vars) /\ Moves(Sub(N.rhs, NN), i, i, vars)
    BY <2>2, FirmSub
  <2>4. Path(T, r, r, vars)
    BY <2>2, <2>3, FourPath
  <2> QED  BY <2>1, <2>4 DEF Incoming
<1> HIDE DEF T
<1> QED  BY <1>1, <1>2, NodeFlow

LEMMA OrDefaultFlow == ASSUME TypeOK, FlowInv, OrDefault PROVE FlowInv'
<1> DEFINE T == <<Open("call", ""), Sub(N.index, NW), Sub(N.default, NW),
                  Close("call", "")>>
<1>1. Running("node") /\ S \in Ctx /\ Replace(Wrap(Incoming("Need", "Need"), T))
  BY VisitNode DEF OrDefault, Visit
<1>2. ASSUME NEW q, Apt(q), S # NW => Firm(q)
      PROVE  Path(Wrap(Incoming("Need", "Need"), T), q, q, vars)
  <2>1. PICK r : Firm(r) /\ \A U : Path(U, r, r, vars) =>
                   Path(Wrap(lazyness_incoming(S, "Need", "Need", "Front"), U), q, q, vars)
    BY <1>1, <1>2, WrapPath
  <2> DEFINE i == In("call", r)
  <2>2. /\ Firm(i) /\ Moves(Open("call", ""), r, i, vars)
        /\ Moves(Close("call", ""), i, r, vars)
    BY <2>1, FirmBracket DEF Bindings, NIX_IN_SCOPE
  <2> HIDE DEF i
  <2>3. Moves(Sub(N.index, NW), i, i, vars) /\ Moves(Sub(N.default, NW), i, i, vars)
    BY <2>2, FirmSub
  <2>4. Path(T, r, r, vars)
    BY <2>2, <2>3, FourPath
  <2> QED  BY <2>1, <2>4 DEF Incoming
<1> HIDE DEF T
<1> QED  BY <1>1, <1>2, NodeFlow

LEMMA IfElseFlow == ASSUME TypeOK, FlowInv, IfElse PROVE FlowInv'
<1> DEFINE L == Incoming("Flush", "Flush")
           T == <<Open("if", "")>> \o Use(N.condition, WN) \o
                <<Sub(N.body, L.sctx), Sub(N.else_body, L.sctx), Close("if", "")>>
<1>1. Running("node") /\ S \in Ctx /\ Replace(Wrap(L, T))
  BY VisitNode DEF IfElse, Visit
<1>2. ASSUME NEW q, Apt(q), S # NW => Firm(q)
      PROVE  Path(Wrap(L, T), q, q, vars)
  <2>1. PICK r : Firm(r) /\ \A U : Path(U, r, r, vars) => Path(Wrap(L, U), q, q, vars)
    BY <1>1, <1>2, WrapPath DEF Incoming
  <2> DEFINE i == In("if", r)
  <2>2. /\ Firm(i) /\ Moves(Open("if", ""), r, i, vars)
        /\ Moves(Close("if", ""), i, r, vars)
    BY <2>1, FirmBracket DEF Bindings, NIX_IN_SCOPE
  <2> HIDE DEF i, L
  <2>3. /\ Path(Use(N.condition, WN), i, i, vars)
        /\ Moves(Sub(N.body, L.sctx), i, i, vars)
        /\ Moves(Sub(N.else_body, L.sctx), i, i, vars)
    BY <2>2, UsePath, FirmSub DEF Firm
  <2>4. Path(T, r, r, vars)
    <3>1. Path(<<Open("if", "")>> \o Use(N.condition, WN), r, i, vars)
      BY <2>2, <2>3, OnePath, ConcatPath
    <3>2. Path(<<Sub(N.body, L.sctx), Sub(N.else_body, L.sctx), Close("if", "")>>, i, r, vars)
      BY <2>2, <2>3, ThreePath
    <3> QED  BY <3>1, <3>2, ConcatPath
  <2> QED  BY <2>1, <2>4
<1> HIDE DEF T, L
<1> QED  BY <1>1, <1>2, NodeFlow

LEMMA AssertFlow == ASSUME TypeOK, FlowInv, Assert PROVE FlowInv'
<1> DEFINE U == <<Open("await", ""), Open("call", ""), Sub(N.condition, NN),
                  Close("call", ""), Close("await", ""), Sub(N.body, WN),
                  Close("block", "")>>
           T == <<Open("block", "")>> \o U
<1>1. Running("node") /\ S \in Ctx /\ Replace(Wrap(Incoming("Flush", "Force"), T))
  BY VisitNode DEF Assert, Visit
<1>2. ASSUME NEW q, Apt(q), S # NW => Firm(q)
      PROVE  Path(Wrap(Incoming("Flush", "Force"), T), q, q, vars)
  <2>1. PICK r : Firm(r) /\ \A V : Path(V, r, r, vars) =>
                   Path(Wrap(lazyness_incoming(S, "Flush", "Force", "Front"), V), q, q, vars)
    BY <1>1, <1>2, WrapPath
  <2> DEFINE i == In("block", r)
             j == In("await", i)
             k == In("call", j)
  <2>2. /\ Firm(i) /\ Moves(Open("block", ""), r, i, vars)
        /\ Moves(Close("block", ""), i, r, vars)
    <3>1. Firm(i)
      <4>1. /\ i.fr.x = "block" /\ i.L = r.L /\ i.w = r.w
            /\ \A v \in NameSet : i.fr.bound[v] = r.fr.bound[v]
            /\ i.fr.a = {} /\ i.fr.E = {}
            /\ "mrg" \notin i.fr.has
            /\ "inw" \in r.fr.has => "inw" \in i.fr.has
            /\ "cov" \in r.fr.has => "cov" \in i.fr.has
            /\ Quiet(r) => "calm" \in i.fr.has
        BY DEF In, Enter, State, Frame, Brings, Cov
      <4>2. IsState(i)
        BY DEF In, Enter, State, Frame, IsState
      <4>3. Stacked(i)
        BY <2>1, EnterStacked DEF In, Firm, Apt
      <4> HIDE DEF i
      <4> QED  BY <2>1, <4>1, <4>2, <4>3 DEF Firm, Apt, Cov, Quiet
    <3> QED  BY <2>1, <3>1, OpenMoves, CloseMoves DEF Firm, Apt
  <2> HIDE DEF i
  <2>3. /\ Firm(j) /\ Moves(Open("await", ""), i, j, vars)
        /\ Moves(Close("await", ""), j, i, vars)
    BY <2>2, FirmBracket DEF Bindings, NIX_IN_SCOPE
  <2> HIDE DEF j
  <2>4. /\ Firm(k) /\ Moves(Open("call", ""), j, k, vars)
        /\ Moves(Close("call", ""), k, j, vars)
    BY <2>3, FirmBracket DEF Bindings, NIX_IN_SCOPE
  <2> HIDE DEF k
  <2>5. Moves(Sub(N.condition, NN), k, k, vars) /\ Moves(Sub(N.body, WN), i, i, vars)
    BY <2>2, <2>4, FirmSub
  <2>6. Path(U, i, r, vars)
    BY <2>2, <2>3, <2>4, <2>5, SevenPath
  <2>7. Path(T, r, r, vars)
    BY <2>2, <2>6, OnePath, ConcatPath
  <2> QED  BY <2>1, <2>7 DEF Incoming
<1> HIDE DEF T
<1> QED  BY <1>1, <1>2, NodeFlow

LEMMA IsSetFlow == ASSUME TypeOK, FlowInv, IsSet PROVE FlowInv'
<1> DEFINE T == <<Open("isset", "")>> \o Use(N.lhs, WN) \o
                <<KeyEl(N.rhs), Close("isset", "")>>
<1>1. Running("node") /\ Replace(T)
  BY DEF IsSet, Visit
<1>2. ASSUME NEW q, Apt(q) PROVE Path(T, q, q, vars)
  <2> DEFINE i == In("isset", q)
  <2>1. "isset" \notin Bindings /\ "isset" \in Screens /\ "isset" \in Shelters
    BY DEF Bindings, Screens, Shelters, Gaps, NIX_IN_SCOPE
  <2>2. /\ Firm(i) /\ Moves(Open("isset", ""), q, i, vars)
        /\ Moves(Close("isset", ""), i, q, vars)
    BY <1>2, <2>1, AptBracket
  <2> HIDE DEF i
  <2>3. Path(Use(N.lhs, WN), i, i, vars) /\ Moves(KeyEl(N.rhs), i, i, vars)
    BY <2>2, UsePath, KeyMoves DEF Firm
  <2> QED  BY <2>2, <2>3, OnePath, TwoPath, ConcatPath
<1> HIDE DEF T
<1> QED  BY <1>1, <1>2, NodeFlow

LEMMA TransparentFlow == ASSUME TypeOK, FlowInv, Transparent PROVE FlowInv'
<1>1. Running("node") /\ Replace(<<Sub(N.inner, S)>>)
  BY DEF Transparent, Visit
<1>2. ASSUME NEW q, Apt(q), S # NW => Firm(q)
      PROVE  Path(<<Sub(N.inner, S)>>, q, q, vars)
  BY <1>2, SubMoves, OnePath
<1> QED  BY <1>1, <1>2, NodeFlow

LEMMA IdentFlow == ASSUME TypeOK, FlowInv, Ident PROVE FlowInv'
<1>1. Running("node") /\ Replace(<<IdentRef(N.id, S)>>)
  BY DEF Ident, Visit
<1>2. ASSUME NEW q, Apt(q), S # NW => Firm(q)
      PROVE  Path(<<IdentRef(N.id, S)>>, q, q, vars)
  <2>1. S.await_st = "Want" => Firm(q)
    BY <1>2 DEF NW, mksctx
  <2> QED  BY <1>2, <2>1, IdentMoves, OnePath
<1> QED  BY <1>1, <1>2, NodeFlow

(* A mapped sequence of elements that leave the state as it is. *)
LEMMA MapPath ==
  ASSUME NEW D, NEW u \in Seq(D), NEW M, DOMAIN M = DOMAIN u,
         M = [j \in DOMAIN u |-> M[j]], NEW q, NEW vs,
         \A j \in DOMAIN u : Moves(M[j], q, q, vs)
  PROVE  Path(M, q, q, vs)
<1> DEFINE X == {M[j] : j \in DOMAIN u}
<1>1. M \in [DOMAIN u -> X]
  OBVIOUS
<1> HIDE DEF X
<1>2. M \in Seq(X)
  BY <1>1, MapSeq
<1>3. DOMAIN M = 1 .. Len(M)
  BY <1>2
<1> QED  BY <1>2, <1>3, SteadyAll

LEMMA ListFlow == ASSUME TypeOK, FlowInv, List PROVE FlowInv'
<1> DEFINE M == [j \in DOMAIN N.items |-> Sub(N.items[j], NN)]
           T == <<Open("list", "")>> \o M \o <<Close("list", "")>>
<1>1. /\ Running("node") /\ S \in Ctx /\ N \in Node /\ N.items \in Seq(Node)
      /\ Replace(Wrap(Incoming("Forward", "Flush"), T))
  <2>1. N \in Node /\ N.k = "List" /\ NodeShape(N) /\ S \in Ctx
    BY VisitNode DEF List
  <2> QED  BY <2>1 DEF List, Visit, NodeShape
<1>2. ASSUME NEW q, Apt(q), S # NW => Firm(q)
      PROVE  Path(Wrap(Incoming("Forward", "Flush"), T), q, q, vars)
  <2>1. PICK r : Firm(r) /\ \A U : Path(U, r, r, vars) =>
                   Path(Wrap(lazyness_incoming(S, "Forward", "Flush", "Front"), U), q, q, vars)
    BY <1>1, <1>2, WrapPath
  <2> DEFINE i == In("list", r)
  <2>2. /\ Firm(i) /\ Moves(Open("list", ""), r, i, vars)
        /\ Moves(Close("list", ""), i, r, vars)
    BY <2>1, FirmBracket DEF Bindings, NIX_IN_SCOPE
  <2> HIDE DEF i
  <2>3. Path(M, i, i, vars)
    <3>1. \A j \in DOMAIN N.items : Moves(M[j], i, i, vars)
      BY <2>2, FirmSub
    <3>2. DOMAIN M = DOMAIN N.items /\ M = [j \in DOMAIN N.items |-> M[j]]
      OBVIOUS
    <3> HIDE DEF M
    <3> QED  BY <1>1, <3>1, <3>2, MapPath
  <2> HIDE DEF M
  <2>4. Path(T, r, r, vars)
    BY <2>2, <2>3, OnePath, ConcatPath
  <2> QED  BY <2>1, <2>4 DEF Incoming
<1> HIDE DEF T
<1> QED  BY <1>1, <1>2, NodeFlow

LEMMA SelectFlow == ASSUME TypeOK, FlowInv, Select PROVE FlowInv'
<1> DEFINE T == <<Open("bsel", "")>> \o Use(N.set, NN) \o
                <<KeyEl(N.index), Close("bsel", "")>>
           U == <<Open("sel", "")>> \o Use(N.set, WN) \o
                <<KeyEl(N.index), Close("sel", "")>>
           W == Wrap(Incoming("Forward", "Forward"), T)
           Y == Wrap(Incoming("Need", "Need"), U)
<1>1. Running("node") /\ S \in Ctx /\ (Replace(W) \/ Replace(Y))
  BY VisitNode DEF Select, Visit
<1>2. ASSUME NEW q, Apt(q), S # NW => Firm(q) PROVE Path(W, q, q, vars)
  <2>1. PICK r : Apt(r) /\ \A V : Path(V, r, r, vars) =>
                   Path(Wrap(lazyness_incoming(S, "Forward", "Forward", "Front"), V), q, q, vars)
    BY <1>1, <1>2, WrapPath
  <2> DEFINE i == In("bsel", r)
  <2>2. "bsel" \notin Bindings /\ "bsel" \in Screens /\ "bsel" \in Shelters
    BY DEF Bindings, Screens, Shelters, Gaps, NIX_IN_SCOPE
  <2>3. /\ Firm(i) /\ Moves(Open("bsel", ""), r, i, vars)
        /\ Moves(Close("bsel", ""), i, r, vars)
    BY <2>1, <2>2, AptBracket
  <2> HIDE DEF i
  <2>4. Path(Use(N.set, NN), i, i, vars) /\ Moves(KeyEl(N.index), i, i, vars)
    BY <2>3, UsePath, KeyMoves DEF Firm
  <2>5. Path(T, r, r, vars)
    BY <2>3, <2>4, OnePath, TwoPath, ConcatPath
  <2> QED  BY <2>1, <2>5 DEF Incoming
<1>3. ASSUME NEW q, Apt(q), S # NW => Firm(q) PROVE Path(Y, q, q, vars)
  <2>1. PICK r : Firm(r) /\ \A V : Path(V, r, r, vars) =>
                   Path(Wrap(lazyness_incoming(S, "Need", "Need", "Front"), V), q, q, vars)
    BY <1>1, <1>3, WrapPath
  <2> DEFINE i == In("sel", r)
  <2>3. /\ Firm(i) /\ Moves(Open("sel", ""), r, i, vars)
        /\ Moves(Close("sel", ""), i, r, vars)
    BY <2>1, FirmBracket DEF Bindings, NIX_IN_SCOPE
  <2> HIDE DEF i
  <2>4. Path(Use(N.set, WN), i, i, vars) /\ Moves(KeyEl(N.index), i, i, vars)
    BY <2>3, UsePath, KeyMoves DEF Firm
  <2>5. Path(U, r, r, vars)
    BY <2>3, <2>4, OnePath, TwoPath, ConcatPath
  <2> QED  BY <2>1, <2>5 DEF Incoming
<1> HIDE DEF W, Y
<1>4. CASE Replace(W)
  BY <1>1, <1>2, <1>4, NodeFlow
<1>5. CASE Replace(Y)
  BY <1>1, <1>3, <1>5, NodeFlow
<1> QED  BY <1>1, <1>4, <1>5

LEMMA StrFlow == ASSUME TypeOK, FlowInv, Str PROVE FlowInv'
<1> DEFINE M == [j \in DOMAIN N.parts |-> StrPart(N.parts[j])]
           T == <<Open("str", "")>> \o M \o <<Close("str", "")>>
           W == Wrap(Incoming("Forward", "Need"), T)
<1>1. /\ Running("node") /\ S \in Ctx
      /\ N.parts \in Seq({p \in Node : p.k \in {"Literal", "StrInterpol"}})
      /\ Replace(<<Lit("str", "")>>) \/ Replace(W)
  <2>1. N \in Node /\ N.k = "Str" /\ NodeShape(N) /\ S \in Ctx
    BY VisitNode DEF Str
  <2> QED  BY <2>1 DEF Str, Visit, NodeShape
<1>2. ASSUME NEW q, Apt(q), S # NW => Firm(q) PROVE Path(W, q, q, vars)
  <2>1. PICK r : Firm(r) /\ \A U : Path(U, r, r, vars) =>
                   Path(Wrap(lazyness_incoming(S, "Forward", "Need", "Front"), U), q, q, vars)
    BY <1>1, <1>2, WrapPath
  <2> DEFINE i == In("str", r)
  <2>2. /\ Firm(i) /\ Moves(Open("str", ""), r, i, vars)
        /\ Moves(Close("str", ""), i, r, vars)
    BY <2>1, FirmBracket DEF Bindings, NIX_IN_SCOPE
  <2> HIDE DEF i
  <2>3. Path(M, i, i, vars)
    <3>1. \A j \in DOMAIN N.parts : Moves(M[j], i, i, vars)
      BY <2>2, KeyMoves DEF Firm
    <3>2. DOMAIN M = DOMAIN N.parts /\ M = [j \in DOMAIN N.parts |-> M[j]]
      OBVIOUS
    <3> HIDE DEF M
    <3> QED  BY <1>1, <3>1, <3>2, MapPath
  <2> HIDE DEF M
  <2>4. Path(T, r, r, vars)
    BY <2>2, <2>3, OnePath, ConcatPath
  <2> QED  BY <2>1, <2>4 DEF Incoming
<1>3. ASSUME NEW q, Apt(q) PROVE Path(<<Lit("str", "")>>, q, q, vars)
  BY <1>3, LitMoves, OnePath
<1> HIDE DEF W
<1>4. CASE Replace(W)
  BY <1>1, <1>2, <1>4, NodeFlow
<1>5. CASE Replace(<<Lit("str", "")>>)
  BY <1>1, <1>3, <1>5, NodeFlow
<1> QED  BY <1>1, <1>4, <1>5

LEMMA UnaryOpFlow == ASSUME TypeOK, FlowInv, UnaryOp PROVE FlowInv'
<1> DEFINE T == <<Open("unop", ""), Sub(N.value, NN), Close("unop", "")>>
<1>1. Running("node") /\ Replace(T)
  BY DEF UnaryOp, Visit
<1>2. ASSUME NEW q, Apt(q) PROVE Path(T, q, q, vars)
  <2> DEFINE i == In("unop", q)
  <2>1. "unop" \notin Bindings /\ "unop" \in Screens /\ "unop" \in Shelters
    BY DEF Bindings, Screens, Shelters, Gaps, NIX_IN_SCOPE
  <2>2. /\ Firm(i) /\ Moves(Open("unop", ""), q, i, vars)
        /\ Moves(Close("unop", ""), i, q, vars)
    BY <1>2, <2>1, AptBracket
  <2> HIDE DEF i
  <2> QED  BY <2>2, FirmSub, ThreePath
<1> HIDE DEF T
<1> QED  BY <1>1, <1>2, NodeFlow

LEMMA ValueFlow == ASSUME TypeOK, FlowInv, Value PROVE FlowInv'
<1> DEFINE x == IF N.v = "path" THEN "export" ELSE "number"
<1>1. Running("node") /\ Replace(<<Lit(x, "")>>) /\ x # "builtin"
  BY DEF Value, Visit
<1> HIDE DEF x
<1>2. ASSUME NEW q, Apt(q) PROVE Path(<<Lit(x, "")>>, q, q, vars)
  BY <1>1, <1>2, LitMoves, OnePath
<1> QED  BY <1>1, <1>2, NodeFlow

----------------------------------------------------------------------------
(* Declarations and assignments. *)
LEMMA PlusFacts ==
  ASSUME NEW q, NEW B, NEW A
  PROVE  /\ Plus(q, B, A).fr.E = q.fr.E /\ Plus(q, B, A).fr.D = q.fr.D
         /\ Plus(q, B, A).fr.d = q.fr.d \cup B /\ Plus(q, B, A).fr.a = q.fr.a \cup A
         /\ Plus(q, B, A).fr.x = q.fr.x /\ Plus(q, B, A).fr.v = q.fr.v
         /\ Plus(q, B, A).fr.has = q.fr.has /\ Plus(q, B, A).fr.bound = q.fr.bound
         /\ Plus(q, B, A).rest = q.rest /\ Plus(q, B, A).L = q.L /\ Plus(q, B, A).w = q.w
         /\ IsState(Plus(q, B, A))
  BY DEF Plus, State, Frame, IsState

LEMMA PlusApt ==
  ASSUME NEW q, Apt(q), NEW B, NEW A
  PROVE  Apt(Plus(q, B, A)) /\ (Cov(q) => Cov(Plus(q, B, A)))
<1> DEFINE r == Plus(q, B, A)
<1>1. /\ r.fr.has = q.fr.has /\ r.fr.bound = q.fr.bound /\ r.L = q.L /\ r.w = q.w
      /\ IsState(r) /\ r.rest = q.rest
  BY PlusFacts
<1> HIDE DEF r
<1>2. Apt(r) /\ (Cov(q) => Cov(r))
  BY <1>1 DEF Apt, Cov, Stacked
<1> QED  BY <1>2 DEF r

LEMMA PlusPlus ==
  ASSUME NEW q, NEW B, NEW A, NEW D, NEW C
  PROVE  Plus(Plus(q, B, A), D, C) = Plus(q, B \cup D, A \cup C)
<1> DEFINE r == Plus(q, B, A)
<1>1. /\ r.fr.E = q.fr.E /\ r.fr.D = q.fr.D /\ r.fr.d = q.fr.d \cup B
      /\ r.fr.a = q.fr.a \cup A /\ r.fr.x = q.fr.x /\ r.fr.v = q.fr.v
      /\ r.fr.has = q.fr.has /\ r.fr.bound = q.fr.bound /\ r.rest = q.rest
      /\ r.L = q.L /\ r.w = q.w
  BY PlusFacts
<1>2. /\ (q.fr.d \cup B) \cup D = q.fr.d \cup (B \cup D)
      /\ (q.fr.a \cup A) \cup C = q.fr.a \cup (A \cup C)
  OBVIOUS
<1> HIDE DEF r
<1>3. Plus(r, D, C) = Plus(q, B \cup D, A \cup C)
  BY <1>1, <1>2 DEF Plus
<1> QED  BY <1>3 DEF r

LEMMA PlusNone == ASSUME NEW q, IsState(q) PROVE Plus(q, {}, {}) = q
<1>1. q.fr.d \cup {} = q.fr.d /\ q.fr.a \cup {} = q.fr.a
  OBVIOUS
<1> QED  BY <1>1 DEF IsState, Plus

InSet(v, q) == Enter("set", v, q, {}, {})

LEMMA SetMoves ==
  ASSUME NEW q, Apt(q), NEW v, v \in q.fr.E, NEW vs
  PROVE  /\ Moves(Open("set", v), q, InSet(v, q), vs)
         /\ Moves(Close("set", v), InSet(v, q), Plus(q, {}, {v}), vs)
         /\ Apt(InSet(v, q)) /\ (Cov(q) => Cov(InSet(v, q)))
<1> DEFINE r == InSet(v, q)
           c == Close("set", v)
           z == Plus(q, {}, {v})
<1>1. /\ r.fr.x = "set" /\ r.fr.v = v /\ r.fr.d = r.fr.D /\ r.fr.a = r.fr.E
      /\ r.rest = Append(q.rest, q.fr) /\ r.L = q.L /\ r.w = q.w
      /\ \A i \in NameSet : r.fr.bound[i] = q.fr.bound[i]
      /\ "mrg" \notin r.fr.has
      /\ "inw" \in q.fr.has => "inw" \in r.fr.has
      /\ Cov(q) => "cov" \in r.fr.has
  BY DEF InSet, Enter, State, Frame, Brings, NIX_IN_SCOPE
<1>2. IsState(r)
  BY DEF InSet, Enter, State, Frame, IsState
<1>s. Stacked(r)
  BY EnterStacked DEF InSet, Apt
<1>3. MayOpen(Open("set", v), q)
  BY DEF MayOpen, Open, Screens, Passing
<1>4. \E D, E : r = Enter("set", v, q, D, E)
  BY DEF InSet
<1>5. c.t = "close" /\ c.x = "set" /\ c.v = v
  BY DEF Close
<1>6. z.rest = q.rest
  BY PlusFacts
<1> HIDE DEF r, c, z
<1>7. Moves(Open("set", v), q, r, vs)
  BY <1>3, <1>4 DEF Moves, Open, Apt
<1>8. q = State(q.fr, q.rest, r.L, r.w)
  BY <1>1 DEF Apt, IsState
<1>9. Closes(c, r, z)
  <2> DEFINE o == State(q.fr, z.rest, r.L, r.w)
  <2>1. q = o
    BY <1>6, <1>8
  <2>2. r.rest = Append(z.rest, q.fr) /\ IsState(o) /\ z = Plus(o, {}, {c.v})
    BY <1>1, <1>5, <1>6, <2>1 DEF Apt, z
  <2>3. Stacked(z)
    BY <1>6 DEF Apt, Stacked
  <2> QED  BY <1>1, <1>5, <2>2, <2>3 DEF Closes
<1>10. Moves(c, r, z, vs)
  BY <1>5, <1>9 DEF Moves
<1>11. Apt(r) /\ (Cov(q) => Cov(r))
  BY <1>1, <1>2, <1>s DEF Apt, Cov
<1> QED  BY <1>7, <1>10, <1>11 DEF r, c, z

LEMMA DeclMoves ==
  ASSUME NEW q, Apt(q), NEW v, v \in q.fr.D, NEW vs
  PROVE  Moves(Decl(v), q, Plus(q, {v}, {}), vs)
  BY DEF Moves, Decl, Apt

LEMMA PatternFormalFlow == ASSUME TypeOK, FlowInv, PatternFormal PROVE FlowInv'
<1> DEFINE f == Head(todo).formal
           n == f.name
           M == IF f.default = None THEN <<>> ELSE <<Sub(f.default, NW)>>
           T == <<Decl(n), Open("set", n)>> \o M \o <<Close("set", n)>>
<1>1. status = "running" /\ todo # <<>> /\ Head(todo).t = "formal" /\ Replace(T)
  BY DEF PatternFormal, Running
<1>2. ASSUME NEW q, NEW r, Moves(Head(todo), q, r, vars)
      PROVE  Path(T, q, r, vars)
  <2>1. Apt(q) /\ n \in q.fr.D /\ n \in q.fr.E /\ r = Plus(q, {n}, {n})
    BY <1>1, <1>2 DEF Moves
  <2> HIDE DEF n, f
  <2> DEFINE p == Plus(q, {n}, {})
             i == InSet(n, p)
  <2>2. Moves(Decl(n), q, p, vars) /\ Apt(p) /\ n \in p.fr.E
    BY <2>1, DeclMoves, PlusApt, PlusFacts
  <2>3. {n} \cup {} = {n} /\ {} \cup {n} = {n}
    OBVIOUS
  <2>4. Plus(p, {}, {n}) = r
    BY <2>1, <2>3, PlusPlus
  <2> HIDE DEF p
  <2>5. /\ Moves(Open("set", n), p, i, vars) /\ Moves(Close("set", n), i, r, vars)
        /\ Apt(i)
    BY <2>2, <2>4, SetMoves
  <2> HIDE DEF i
  <2>6. Path(<<Decl(n), Open("set", n)>>, q, i, vars)
    BY <2>2, <2>5, TwoPath
  <2>7. Path(M, i, i, vars)
    BY <2>5, SubMoves, OnePath, NoPath
  <2> HIDE DEF M
  <2> QED  BY <2>5, <2>6, <2>7, OnePath, ConcatPath
<1> HIDE DEF T
<1> QED  BY <1>1, <1>2, ReplaceFlow

LEMMA KeyElementFlow == ASSUME TypeOK, FlowInv, KeyElement PROVE FlowInv'
<1> DEFINE T == IF N.k = "Ident" THEN <<>> ELSE Use(N, WN)
<1>1. status = "running" /\ todo # <<>> /\ Head(todo).t = "key" /\ Replace(T)
  BY DEF KeyElement, Running
<1>2. ASSUME NEW q, NEW r, Moves(Head(todo), q, r, vars)
      PROVE  Path(T, q, r, vars)
  <2>1. r = q /\ Apt(q) /\ Cov(q)
    BY <1>1, <1>2 DEF Moves
  <2> QED  BY <2>1, NoPath, UsePath
<1> HIDE DEF T
<1> QED  BY <1>1, <1>2, ReplaceFlow

LEMMA StringPartFlow == ASSUME TypeOK, FlowInv, StringPart PROVE FlowInv'
<1> DEFINE T == IF N.k = "Literal" THEN <<Lit("str", "")>> ELSE Use(N.inner, WN)
<1>1. status = "running" /\ todo # <<>> /\ Head(todo).t = "part" /\ Replace(T)
  BY DEF StringPart, Running
<1>2. ASSUME NEW q, NEW r, Moves(Head(todo), q, r, vars)
      PROVE  Path(T, q, r, vars)
  <2>1. r = q /\ Apt(q) /\ Cov(q)
    BY <1>1, <1>2 DEF Moves
  <2> QED  BY <2>1, LitMoves, OnePath, UsePath
<1> HIDE DEF T
<1> QED  BY <1>1, <1>2, ReplaceFlow

LEMMA InheritIdentFlow == ASSUME TypeOK, FlowInv, InheritIdent PROVE FlowInv'
<1> DEFINE i == Head(todo).id
           T == <<Open("set", i), IdentRef(i, NW), Close("set", i)>>
           U == <<Open("set", i), Lit("then", ""), Close("set", i)>>
<1>1. /\ status = "running" /\ todo # <<>> /\ Head(todo).t \in {"inhid", "thenid"}
      /\ Replace(T) \/ Replace(U)
  BY DEF InheritIdent, Running
<1>2. ASSUME NEW q, NEW r, Moves(Head(todo), q, r, vars)
      PROVE  Path(T, q, r, vars) /\ Path(U, q, r, vars)
  <2>1. Apt(q) /\ i \in q.fr.E /\ r = Plus(q, {}, {i})
    BY <1>1, <1>2 DEF Moves
  <2> HIDE DEF i
  <2> DEFINE j == InSet(i, q)
  <2>2. /\ Moves(Open("set", i), q, j, vars) /\ Moves(Close("set", i), j, r, vars)
        /\ Apt(j)
    BY <2>1, SetMoves
  <2> HIDE DEF j
  <2>3. NW.await_st # "Want"
    BY DEF NW, mksctx
  <2>4. Moves(IdentRef(i, NW), j, j, vars) /\ Moves(Lit("then", ""), j, j, vars)
    BY <2>2, <2>3, IdentMoves, LitMoves
  <2> QED  BY <2>2, <2>4, ThreePath
<1> HIDE DEF T, U
<1>3. CASE Replace(T)
  BY <1>1, <1>2, <1>3, ReplaceFlow
<1>4. CASE Replace(U)
  BY <1>1, <1>2, <1>4, ReplaceFlow
<1> QED  BY <1>1, <1>3, <1>4

(* `await nixBlti._deepMerge(..)': an await whose operand is the merge. *)
LEMMA MergeMoves ==
  ASSUME NEW q, Apt(q), Cov(q), NEW vs
  PROVE  \E i, j : /\ Moves(Open("await", ""), q, i, vs)
                   /\ Moves(Open("merge", ""), i, j, vs) /\ Apt(j) /\ Cov(j)
                   /\ Moves(Close("merge", ""), j, i, vs)
                   /\ Moves(Close("await", ""), i, q, vs)
<1> DEFINE i == In("await", q)
           j == In("merge", i)
<1>1. /\ Moves(Open("await", ""), q, i, vs)
      /\ Moves(Close("await", ""), i, q, vs)
  BY OpenMoves, CloseMoves DEF Apt
<1>2. /\ i.L = q.L /\ i.w = q.w
      /\ \A v \in NameSet : i.fr.bound[v] = q.fr.bound[v]
      /\ "inw" \in q.fr.has => "inw" \in i.fr.has
      /\ "cov" \in q.fr.has => "cov" \in i.fr.has
  BY DEF In, Enter, State, Frame, Brings, NIX_IN_SCOPE, Cov
<1>3. IsState(i) /\ Stacked(i)
  <2>1. IsState(i)
    BY DEF In, Enter, State, Frame, IsState
  <2> QED  BY <2>1, EnterStacked DEF In, Apt
<1> HIDE DEF i
<1>4. /\ Moves(Open("merge", ""), i, j, vs)
      /\ Moves(Close("merge", ""), j, i, vs)
  BY <1>3, OpenMoves, CloseMoves DEF Passing
<1>5. /\ j.L = i.L /\ j.w = i.w
      /\ \A v \in NameSet : j.fr.bound[v] = i.fr.bound[v]
      /\ "inw" \in i.fr.has => "inw" \in j.fr.has
      /\ "cov" \in i.fr.has => "cov" \in j.fr.has
      /\ "mrg" \notin j.fr.has
  BY DEF In, Enter, State, Frame, Brings, NIX_IN_SCOPE, Cov
<1>6. IsState(j) /\ Stacked(j)
  <2>1. IsState(j)
    BY DEF In, Enter, State, Frame, IsState
  <2> QED  BY <1>3, <2>1, EnterStacked DEF In
<1> HIDE DEF j
<1>7. Apt(j) /\ Cov(j)
  BY <1>2, <1>5, <1>6 DEF Apt, Cov
<1> QED  BY <1>1, <1>4, <1>7

LEMMA AbortFlow ==
  ASSUME NEW s \in {"err", "panic"}, Abort(s)
  PROVE  FlowInv'
  BY DEF Abort, FlowInv

LEMMA KeyValueFlow == ASSUME TypeOK, FlowInv, KeyValue PROVE FlowInv'
<1> DEFINE e == Head(todo).entry
           scope == Head(todo).scope
           k1 == e.key[1]
           k == KeyName(k1)
           create == <<KeyEl(k1), KeyEl(k1), Open("set", k), Close("set", k)>>
           C == IF scope = NO_SCOPE THEN <<>> ELSE create
           G == IF scope = NO_SCOPE THEN IdentRef(k1.id, mksctx("Did", "Nothing"))
                ELSE KeyEl(k1)
           A == <<Open("await", ""), Open("merge", ""), G, Sub(e.value, NW)>>
           M == [j \in 1 .. (Len(e.key) - 1) |-> KeyEl(e.key[j + 1])]
           Z == <<Close("merge", ""), Close("await", "")>>
           T == <<KeyEl(k1), Open("set", k), Sub(e.value, NW), Close("set", k)>>
           U == C \o A \o M \o Z
<1>1. status = "running" /\ todo # <<>> /\ Head(todo).t = "kv"
  BY DEF KeyValue, Running
<1>2. \/ Abort("err") \/ (Len(e.key) = 1 /\ Replace(T)) \/ (Len(e.key) > 1 /\ Replace(U))
  BY DEF KeyValue
<1>3. e.key \in Seq(Node)
  <2>1. Head(todo) \in KvItem
    BY <1>1, HeadFields
  <2> QED  BY <2>1 DEF KvItem, Entry
<1>4. ASSUME NEW q, NEW r, Moves(Head(todo), q, r, vars)
      PROVE  Apt(q) /\ Cov(q) /\ Sets(e, scope) \subseteq q.fr.E /\ r = Plus(q, {}, Sets(e, scope))
  BY <1>1, <1>4 DEF Moves
<1>5. ASSUME Len(e.key) = 1, NEW q, NEW r, Moves(Head(todo), q, r, vars)
      PROVE  Path(T, q, r, vars)
  <2>1. Sets(e, scope) = {k}
    <3>1. ~(Len(e.key) > 1)
      <4> HIDE DEF e
      <4> QED  BY <1>5
    <3>2. e.key # <<>>
      <4> HIDE DEF e
      <4> QED  BY <1>3, <1>5, OneElement
    <3> QED  BY <3>1, <3>2 DEF Sets
  <2>2. Apt(q) /\ Cov(q) /\ k \in q.fr.E /\ r = Plus(q, {}, {k})
    BY <1>4, <1>5, <2>1
  <2> HIDE DEF e, k1, k
  <2> DEFINE i == InSet(k, q)
  <2>3. /\ Moves(Open("set", k), q, i, vars) /\ Moves(Close("set", k), i, r, vars)
        /\ Apt(i)
    BY <2>2, SetMoves
  <2> HIDE DEF i
  <2>4. Moves(KeyEl(k1), q, q, vars) /\ Moves(Sub(e.value, NW), i, i, vars)
    BY <2>2, <2>3, KeyMoves, SubMoves
  <2> QED  BY <2>3, <2>4, FourPath
<1>6. ASSUME Len(e.key) > 1, NEW q, NEW r, Moves(Head(todo), q, r, vars)
      PROVE  Path(U, q, r, vars)
  <2>1. Apt(q) /\ Cov(q) /\ Sets(e, scope) \subseteq q.fr.E /\ r = Plus(q, {}, Sets(e, scope))
    BY <1>4, <1>6
  <2>2. Apt(r) /\ Cov(r)
    BY <2>1, PlusApt
  <2>3. Path(C, q, r, vars)
    <3>1. CASE scope = NO_SCOPE
      <4>1. Sets(e, scope) = {}
        BY <1>6, <3>1 DEF Sets
      <4>2. r = q
        BY <2>1, <4>1, PlusNone DEF Apt
      <4> QED  BY <3>1, <4>2, NoPath
    <3>2. CASE scope # NO_SCOPE
      <4>1. Sets(e, scope) = {k}
        <5>1. e.key # <<>>
          <6> HIDE DEF e
          <6> QED  BY <1>3, <1>6
        <5> QED  BY <3>2, <5>1 DEF Sets
      <4>2. k \in q.fr.E /\ r = Plus(q, {}, {k})
        BY <2>1, <4>1
      <4> HIDE DEF k, k1
      <4> DEFINE i == InSet(k, q)
      <4>3. Moves(Open("set", k), q, i, vars) /\ Moves(Close("set", k), i, r, vars)
        BY <2>1, <4>2, SetMoves
      <4> HIDE DEF i
      <4>4. Moves(KeyEl(k1), q, q, vars)
        BY <2>1, KeyMoves
      <4>5. Path(create, q, r, vars)
        BY <4>3, <4>4, FourPath
      <4> QED  BY <3>2, <4>5
    <3> QED  BY <3>1, <3>2
  <2>4. PICK i, j : /\ Moves(Open("await", ""), r, i, vars)
                    /\ Moves(Open("merge", ""), i, j, vars) /\ Apt(j) /\ Cov(j)
                    /\ Moves(Close("merge", ""), j, i, vars)
                    /\ Moves(Close("await", ""), i, r, vars)
    BY <2>2, MergeMoves
  <2>5. Moves(G, j, j, vars)
    <3>1. mksctx("Did", "Nothing").await_st # "Want"
      BY DEF mksctx
    <3> QED  BY <2>4, <3>1, KeyMoves, IdentMoves
  <2>6. Path(A, r, j, vars)
    <3> HIDE DEF G
    <3>1. Moves(Sub(e.value, NW), j, j, vars)
      BY <2>4, SubMoves
    <3> QED  BY <2>4, <2>5, <3>1, FourPath
  <2>7. Path(M, j, j, vars)
    <3>1. Len(e.key) - 1 \in Nat
      BY <1>3, <1>6
    <3> DEFINE n == Len(e.key) - 1
               X == {M[m] : m \in 1 .. n}
    <3>2. M \in [1 .. n -> X] /\ \A m \in 1 .. n : M[m] = KeyEl(e.key[m + 1])
      OBVIOUS
    <3>3. \A m \in 1 .. n : Moves(M[m], j, j, vars)
      BY <2>4, <3>2, KeyMoves
    <3> HIDE DEF M, X, n
    <3>4. M \in Seq(X) /\ Len(M) = n
      <4>1. n \in Nat
        BY <3>1 DEF n
      <4> QED  BY <3>2, <4>1, SeqDef, LenProperties
    <3> QED  BY <3>3, <3>4, SteadyAll
  <2>8. Path(Z, j, r, vars)
    BY <2>4, TwoPath
  <2> HIDE DEF C, A, M, Z
  <2>9. Path(C \o A, q, j, vars)
    BY <2>3, <2>6, ConcatPath
  <2>10. Path((C \o A) \o M, q, j, vars)
    BY <2>7, <2>9, ConcatPath
  <2> QED  BY <2>8, <2>10, ConcatPath
<1> HIDE DEF T, U, e
<1>7. CASE Abort("err")
  BY <1>7, AbortFlow
<1>8. CASE Len(e.key) = 1 /\ Replace(T)
  BY <1>1, <1>5, <1>8, ReplaceFlow
<1>9. CASE Len(e.key) > 1 /\ Replace(U)
  BY <1>1, <1>6, <1>9, ReplaceFlow
<1> QED  BY <1>2, <1>7, <1>8, <1>9

LEMMA SelectedPath ==
  ASSUME NEW q, Firm(q), NEW h, NEW vs
  PROVE  Path(Selected(h), q, q, vs)
<1> DEFINE i == In("sel", q)
<1>1. Firm(i) /\ Moves(Open("sel", ""), q, i, vs) /\ Moves(Close("sel", ""), i, q, vs)
  BY FirmBracket DEF Bindings, NIX_IN_SCOPE
<1> HIDE DEF i
<1>2. Path(Use(h.from.inner, WN), i, i, vs)
  BY <1>1, UsePath DEF Firm
<1>3. Path(<<Open("sel", "")>> \o Use(h.from.inner, WN), q, i, vs)
  BY <1>1, <1>2, OnePath, ConcatPath
<1> QED  BY <1>1, <1>3, OnePath, ConcatPath DEF Selected

LEMMA PropInheritFlow == ASSUME TypeOK, FlowInv, PropInherit PROVE FlowInv'
<1> DEFINE h == Head(todo).inh
           T == [j \in DOMAIN h.ids |-> IdentRef(h.ids[j], NW)]
           U == Wrap(lazyness_incoming(NW, "Flush", "Flush", "Front"), Selected(h))
<1>1. /\ status = "running" /\ todo # <<>> /\ Head(todo).t = "propinh"
      /\ Replace(T) \/ Replace(U)
  BY DEF PropInherit, Running
<1>2. h.ids \in Seq(NameSet)
  BY <1>1, HeadFields DEF Inherits
<1>3. ASSUME NEW q, NEW r, Moves(Head(todo), q, r, vars)
      PROVE  r = q /\ Apt(q)
  BY <1>1, <1>3 DEF Moves
<1>4. ASSUME NEW q, Apt(q) PROVE Path(T, q, q, vars)
  <2>1. NW.await_st # "Want"
    BY DEF NW, mksctx
  <2>2. \A j \in DOMAIN h.ids : Moves(T[j], q, q, vars)
    BY <1>4, <2>1, IdentMoves
  <2>3. DOMAIN T = DOMAIN h.ids /\ T = [j \in DOMAIN h.ids |-> T[j]]
    OBVIOUS
  <2> HIDE DEF T, h
  <2> QED  BY <1>2, <2>2, <2>3, MapPath
<1>5. ASSUME NEW q, Apt(q) PROVE Path(U, q, q, vars)
  <2>1. PICK r : Firm(r) /\ \A V : Path(V, r, r, vars) =>
                   Path(Wrap(lazyness_incoming(NW, "Flush", "Flush", "Front"), V), q, q, vars)
    BY <1>5, Contexts, WrapPath
  <2>2. Path(Selected(h), r, r, vars)
    BY <2>1, SelectedPath
  <2> QED  BY <2>1, <2>2
<1> HIDE DEF T, U
<1>6. CASE Replace(T)
  BY <1>1, <1>3, <1>4, <1>6, ReplaceFlow
<1>7. CASE Replace(U)
  BY <1>1, <1>3, <1>5, <1>7, ReplaceFlow
<1> QED  BY <1>1, <1>6, <1>7

(* The inherits of a let or an attribute set. *)
LEMMA IdsPath ==
  ASSUME NEW q, Apt(q), NEW h \in Inherits, Ids(h) \subseteq q.fr.E, NEW vs,
         NEW M, DOMAIN M = DOMAIN h.ids, M = [j \in DOMAIN h.ids |-> M[j]],
         \A j \in DOMAIN h.ids : M[j] = InhId(h.ids[j]) \/ M[j] = ThenId(h.ids[j])
  PROVE  Path(M, q, Plus(q, {}, Ids(h)), vs)
<1>0. h.ids \in Seq(NameSet)
  BY DEF Inherits
<1> DEFINE X == {M[j] : j \in DOMAIN h.ids}
           B == [j \in DOMAIN h.ids |-> {}]
           A == [j \in DOMAIN h.ids |-> {h.ids[j]}]
<1>1. M \in [DOMAIN h.ids -> X]
  OBVIOUS
<1> HIDE DEF X
<1>2. M \in Seq(X)
  BY <1>0, <1>1, MapSeq
<1>3. DOMAIN h.ids = 1 .. Len(M)
  BY <1>2
<1>4. ASSUME NEW j \in 1 .. Len(M), NEW Y, NEW Z
      PROVE  Moves(M[j], Plus(q, Y, Z), Plus(q, Y \cup B[j], Z \cup A[j]), vs)
  <2> DEFINE i == h.ids[j]
             p == Plus(q, Y, Z)
  <2>1. i \in q.fr.E /\ B[j] = {} /\ A[j] = {i} /\ (M[j] = InhId(i) \/ M[j] = ThenId(i))
    BY <1>3 DEF Ids
  <2>2. Apt(p) /\ p.fr.E = q.fr.E
    BY PlusApt, PlusFacts
  <2>3. Plus(p, {}, {i}) = Plus(q, Y \cup {}, Z \cup {i})
    BY PlusPlus
  <2> HIDE DEF p, i
  <2>4. Moves(M[j], p, Plus(p, {}, {i}), vs)
    <3>1. M[j].t \in {"inhid", "thenid"} /\ M[j].id = i
      BY <2>1 DEF InhId, ThenId
    <3> QED  BY <2>1, <2>2, <3>1 DEF Moves, Apt
  <2> QED  BY <2>1, <2>3, <2>4 DEF p
<1>5. /\ \A v : v \in {} <=> \E j \in 1 .. Len(M) : v \in B[j]
      /\ \A v : v \in Ids(h) <=> \E j \in 1 .. Len(M) : v \in A[j]
  BY <1>3 DEF Ids
<1> HIDE DEF B, A
<1>6. IsState(q)
  BY DEF Apt
<1>7. \A j \in 1 .. Len(M) : \A Y, Z :
        Moves(M[j], Plus(q, Y, Z), Plus(q, Y \cup B[j], Z \cup A[j]), vs)
  BY <1>4
<1> QED  BY <1>2, <1>5, <1>6, <1>7, PlusAll

LEMMA InheritFlow == ASSUME TypeOK, FlowInv, Inherit PROVE FlowInv'
<1> DEFINE h == Head(todo).inh
           v == h.ids[1]
           one == lazyness_incoming(NW, "Forward", "Need", "Front")
           many == lazyness_incoming(NW, "Forward", "Flush", "Front")
           M == [j \in DOMAIN h.ids |-> InhId(h.ids[j])]
           M2 == [j \in DOMAIN h.ids |-> ThenId(h.ids[j])]
           U == <<Open("set", v)>> \o Wrap(one, Selected(h)) \o <<Close("set", v)>>
           I == <<Sub(h.from.inner, many.sctx)>>
           W == <<Open("const", "")>> \o Wrap(many, I) \o <<Close("const", "")>> \o M2
<1>1. /\ status = "running" /\ todo # <<>> /\ Head(todo).t = "inh"
      /\ Replace(M) \/ (Len(h.ids) = 1 /\ Replace(U)) \/ Replace(W)
  BY DEF Inherit, Running
<1>2. h \in Inherits /\ h.ids \in Seq(NameSet)
  BY <1>1, HeadFields DEF Inherits
<1>3. ASSUME NEW q, NEW r, Moves(Head(todo), q, r, vars)
      PROVE  Apt(q) /\ Ids(h) \subseteq q.fr.E /\ r = Plus(q, {}, Ids(h))
  BY <1>1, <1>3 DEF Moves
<1> HIDE DEF h
<1>4. ASSUME NEW q, NEW r, Moves(Head(todo), q, r, vars) PROVE Path(M, q, r, vars)
  <2>1. Apt(q) /\ Ids(h) \subseteq q.fr.E /\ r = Plus(q, {}, Ids(h))
    BY <1>3, <1>4
  <2>2. DOMAIN M = DOMAIN h.ids /\ M = [j \in DOMAIN h.ids |-> M[j]]
        /\ \A j \in DOMAIN h.ids : M[j] = InhId(h.ids[j])
    OBVIOUS
  <2> HIDE DEF M
  <2> QED  BY <1>2, <2>1, <2>2, IdsPath
<1>5. ASSUME NEW q, NEW r, Moves(Head(todo), q, r, vars) PROVE Path(W, q, r, vars)
  <2>1. Apt(q) /\ Ids(h) \subseteq q.fr.E /\ r = Plus(q, {}, Ids(h))
    BY <1>3, <1>5
  <2>2. DOMAIN M2 = DOMAIN h.ids /\ M2 = [j \in DOMAIN h.ids |-> M2[j]]
        /\ \A j \in DOMAIN h.ids : M2[j] = ThenId(h.ids[j])
    OBVIOUS
  <2> HIDE DEF M2
  <2>3. Path(M2, q, r, vars)
    BY <1>2, <2>1, <2>2, IdsPath
  <2> DEFINE i == In("const", q)
  <2>4. /\ Apt(i) /\ Moves(Open("const", ""), q, i, vars)
        /\ Moves(Close("const", ""), i, q, vars)
    <3>1. "const" \notin Bindings /\ "const" \in Passing /\ "const" # "set"
      BY DEF Bindings, Passing, NIX_IN_SCOPE
    <3> QED  BY <2>1, <3>1, AptBracket
  <2> HIDE DEF i
  <2>5. PICK s : Firm(s) /\ \A V : Path(V, s, s, vars) => Path(Wrap(many, V), i, i, vars)
    BY <2>4, Contexts, WrapPath
  <2> HIDE DEF many
  <2>6. Path(I, s, s, vars)
    BY <2>5, FirmSub, OnePath
  <2>7. Path(Wrap(many, I), i, i, vars)
    BY <2>5, <2>6
  <2> HIDE DEF I
  <2>8. Path(<<Open("const", "")>> \o Wrap(many, I), q, i, vars)
    BY <2>4, <2>7, OnePath, ConcatPath
  <2>9. Path(<<Open("const", "")>> \o Wrap(many, I) \o <<Close("const", "")>>, q, q, vars)
    BY <2>4, <2>8, OnePath, ConcatPath
  <2> QED  BY <2>3, <2>9, ConcatPath
<1>6. ASSUME Len(h.ids) = 1, NEW q, NEW r, Moves(Head(todo), q, r, vars)
      PROVE  Path(U, q, r, vars)
  <2>1. Apt(q) /\ Ids(h) \subseteq q.fr.E /\ r = Plus(q, {}, Ids(h))
    BY <1>3, <1>6
  <2>2. Ids(h) = {v}
    <3>1. DOMAIN h.ids = {1}
      BY <1>2, <1>6
    <3> QED  BY <3>1 DEF Ids
  <2> HIDE DEF v
  <2> DEFINE i == InSet(v, q)
  <2>3. /\ Moves(Open("set", v), q, i, vars) /\ Moves(Close("set", v), i, r, vars)
        /\ Apt(i)
    BY <2>1, <2>2, SetMoves
  <2> HIDE DEF i
  <2>4. PICK s : Firm(s) /\ \A V : Path(V, s, s, vars) => Path(Wrap(one, V), i, i, vars)
    BY <2>3, Contexts, WrapPath
  <2> HIDE DEF one
  <2>5. Path(Wrap(one, Selected(h)), i, i, vars)
    BY <2>4, SelectedPath
  <2>6. Path(<<Open("set", v)>> \o Wrap(one, Selected(h)), q, i, vars)
    BY <2>3, <2>5, OnePath, ConcatPath
  <2> QED  BY <2>3, <2>6, OnePath, ConcatPath
<1> HIDE DEF M, U, W
<1>7. CASE Replace(M)
  BY <1>1, <1>4, <1>7, ReplaceFlow
<1>8. CASE Replace(W)
  BY <1>1, <1>5, <1>8, ReplaceFlow
<1>9. CASE Len(h.ids) = 1 /\ Replace(U)
  BY <1>1, <1>6, <1>9, ReplaceFlow
<1> QED  BY <1>1, <1>7, <1>8, <1>9

(* An identifier is read the way the table says. *)
LEMMA Builtins ==
  ASSUME NEW v \in NameSet
  PROVE  Table(DFL_VARS)[v] \in {"Literal", "AlBuiltin", "none"}
<1> DEFINE P(j) == /\ DFL_VARS[j].n = v
                   /\ \A i \in DOMAIN DFL_VARS : i > j => DFL_VARS[i].n # v
           c == CHOOSE j \in DOMAIN DFL_VARS : P(j)
<1>1. /\ DOMAIN DFL_VARS = {1, 2, 3} /\ DFL_VARS[1].n = "builtins"
      /\ DFL_VARS[2].n = "import" /\ DFL_VARS[3].n = "true"
      /\ \A j \in {1, 2, 3} : DFL_VARS[j].c \in {"Literal", "AlBuiltin"}
  BY DEF DFL_VARS
<1>2. ASSUME NEW j \in DOMAIN DFL_VARS, DFL_VARS[j].n = v
      PROVE  DFL_VARS[c].c \in {"Literal", "AlBuiltin"}
  <2>1. P(j)
    BY <1>1, <1>2
  <2> HIDE DEF P
  <2>2. c \in DOMAIN DFL_VARS
    BY <2>1
  <2> QED  BY <1>1, <2>2
<1>3. Table(DFL_VARS)[v] = IF \E j \in DOMAIN DFL_VARS : DFL_VARS[j].n = v
                           THEN DFL_VARS[c].c ELSE "none"
  BY DEF Table
<1> HIDE DEF c
<1> QED  BY <1>2, <1>3

LEMMA Resolved ==
  ASSUME NEW v \in NameSet
  PROVE  resolve_ident(v) = IF \E j \in DOMAIN vars : vars[j].n = v THEN Table(vars)[v]
                            ELSE IF with_stack > 0 THEN "WithScopeVar" ELSE "Err"
  BY DEF resolve_ident, Bound, Table

LEMMA IdentRawFlow == ASSUME TypeOK, FlowInv, IdentRaw PROVE FlowInv'
<1> DEFINE v == Head(todo).id
           W(c) == Wrap(lazyness_incoming(S, "Flush", "Flush", "Back"), <<Read(c, v)>>)
<1>1. status = "running" /\ todo # <<>> /\ Head(todo).t = "ident"
  BY DEF IdentRaw, Running
<1>2. v \in NameSet /\ S \in Ctx
  BY <1>1, HeadFields
<1>3. PICK c \in IdentCateg :
         /\ c = resolve_ident(v)
         /\ IF c \in {"Literal", "AlBuiltin"} THEN Replace(<<Lit("builtin", v)>>)
            ELSE Replace(W(c))
  BY DEF IdentRaw
<1>4. ASSUME NEW q, NEW r, Moves(Head(todo), q, r, vars)
      PROVE  r = q /\ Apt(q) /\ (S.await_st = "Want" => Firm(q))
  BY <1>1, <1>4 DEF Moves, S
<1> HIDE DEF v
<1>5. ASSUME NEW q, Apt(q), q.L = Table(vars), q.w = with_stack
      PROVE  IF c \in {"Literal", "AlBuiltin"} THEN q.fr.bound[v] = "none"
             ELSE IF c = "WithScopeVar"
             THEN q.fr.bound[v] = "none" /\ "inw" \in q.fr.has
             ELSE c # "none" /\ q.fr.bound[v] = c
  <2> DEFINE b == q.fr.bound[v]
  <2>1. /\ b \in {"none", "LambdaArg", "LetLetVar", "LetInScopeVar"}
        /\ q.L[v] = IF b = "none" THEN Table(DFL_VARS)[v] ELSE b
        /\ q.w > 0 => "inw" \in q.fr.has
    BY <1>2, <1>5 DEF Apt
  <2>2. Table(DFL_VARS)[v] \in {"Literal", "AlBuiltin", "none"}
    BY <1>2, Builtins
  <2>3. c = IF \E j \in DOMAIN vars : vars[j].n = v THEN q.L[v]
            ELSE IF with_stack > 0 THEN "WithScopeVar" ELSE "Err"
    BY <1>2, <1>3, <1>5, Resolved
  <2>4. (~\E j \in DOMAIN vars : vars[j].n = v) => q.L[v] = "none"
    BY <1>2, <1>5 DEF Table
  <2>5. c # "none" /\ c # "Err"
    BY <1>3 DEF IdentCateg
  <2> HIDE DEF b
  <2>6. CASE \E j \in DOMAIN vars : vars[j].n = v
    <3>1. c = q.L[v]
      BY <2>3, <2>6
    <3>2. CASE b = "none"
      BY <2>1, <2>2, <2>5, <3>1, <3>2 DEF b
    <3>3. CASE b # "none"
      BY <2>1, <2>5, <3>1, <3>3 DEF b
    <3> QED  BY <3>2, <3>3
  <2>7. CASE ~\E j \in DOMAIN vars : vars[j].n = v
    <3>1. c = "WithScopeVar" /\ with_stack > 0
      BY <2>3, <2>5, <2>7
    <3>2. b = "none"
      BY <2>1, <2>4, <2>7
    <3> QED  BY <1>5, <2>1, <3>1, <3>2 DEF b
  <2> QED  BY <2>6, <2>7
<1>6. ASSUME c \in {"Literal", "AlBuiltin"}, NEW q, Apt(q), q.L = Table(vars), q.w = with_stack
      PROVE  Path(<<Lit("builtin", v)>>, q, q, vars)
  <2>1. q.fr.bound[v] = "none" /\ "mrg" \notin q.fr.has
    BY <1>5, <1>6 DEF Apt
  <2>2. Moves(Lit("builtin", v), q, q, vars)
    BY <1>2, <2>1 DEF Moves, Lit
  <2> QED  BY <2>2, OnePath
<1>7. ASSUME c \notin {"Literal", "AlBuiltin"}, NEW q, Apt(q), q.L = Table(vars),
             q.w = with_stack, S.await_st = "Want" => Firm(q)
      PROVE  Path(W(c), q, q, vars)
  <2> DEFINE L == lazyness_incoming(S, "Flush", "Flush", "Back")
  <2>1. /\ L.pre = (IF S.await_st = "Want" THEN <<Open("await", "")>> ELSE <<>>) \o <<>> \o <<>>
        /\ L.post = <<>> \o <<>> \o (IF S.await_st = "Want" THEN <<Close("await", "")>> ELSE <<>>)
    BY DEF lazyness_incoming, merge_sttr, merge_sttr_fires, lta
  <2> HIDE DEF L
  <2> DEFINE i == IF S.await_st = "Want" THEN In("await", q) ELSE q
             A == IF S.await_st = "Want" THEN <<Open("await", "")>> ELSE <<>>
             Z == IF S.await_st = "Want" THEN <<Close("await", "")>> ELSE <<>>
  <2>2. /\ Path(A, q, i, vars) /\ Path(Z, i, q, vars) /\ "mrg" \notin i.fr.has
        /\ i.fr.bound[v] = q.fr.bound[v]
        /\ "inw" \in q.fr.has => "inw" \in i.fr.has
    <3>1. CASE S.await_st = "Want"
      <4>1. Firm(q)
        BY <1>7, <3>1
      <4>2. /\ Firm(i) /\ Moves(Open("await", ""), q, i, vars)
            /\ Moves(Close("await", ""), i, q, vars)
        BY <3>1, <4>1, FirmBracket DEF Bindings, NIX_IN_SCOPE
      <4>3. /\ i.fr.bound[v] = q.fr.bound[v]
            /\ "inw" \in q.fr.has => "inw" \in i.fr.has
        BY <1>2, <3>1 DEF In, Enter, State, Frame, Brings, NIX_IN_SCOPE
      <4> HIDE DEF i
      <4> QED  BY <3>1, <4>2, <4>3, OnePath DEF Firm, Apt
    <3>2. CASE S.await_st # "Want"
      BY <1>7, <3>2, NoPath DEF Apt
    <3> QED  BY <3>1, <3>2
  <2> HIDE DEF i, A, Z
  <2>3. Moves(Read(c, v), i, i, vars)
    <3>1. IF c = "WithScopeVar" THEN q.fr.bound[v] = "none" /\ "inw" \in q.fr.has
          ELSE c # "none" /\ q.fr.bound[v] = c
      BY <1>5, <1>7
    <3> QED  BY <1>2, <2>2, <3>1 DEF Moves, Read
  <2>4. L.pre = A \o <<>> \o <<>> /\ L.post = <<>> \o <<>> \o Z
    BY <2>1 DEF A, Z
  <2>5. Path(L.pre, q, i, vars) /\ Path(L.post, i, q, vars)
    <3>1. Path(A \o <<>>, q, i, vars) /\ Path(<<>> \o <<>>, i, i, vars)
      BY <2>2, NoPath, ConcatPath
    <3> QED  BY <2>2, <2>4, <3>1, NoPath, ConcatPath
  <2>6. Path(L.pre \o <<Read(c, v)>>, q, i, vars)
    BY <2>3, <2>5, OnePath, ConcatPath
  <2>7. Path(L.pre \o <<Read(c, v)>> \o L.post, q, q, vars)
    BY <2>5, <2>6, ConcatPath
  <2> QED  BY <2>7 DEF Wrap, L
<1> HIDE DEF W
<1>8. CASE c \in {"Literal", "AlBuiltin"}
  BY <1>1, <1>3, <1>4, <1>6, <1>8, ReplaceFlow
<1>9. CASE c \notin {"Literal", "AlBuiltin"}
  BY <1>1, <1>3, <1>4, <1>7, <1>9, ReplaceFlow
<1> QED  BY <1>8, <1>9

----------------------------------------------------------------------------
(* The function body or block of a let: the names it brings, its entries   *)
(* and inherits, and what holds once they are all assigned.                *)
EntrySets(n, scope) == UNION {Sets(n.entries[j], scope) : j \in DOMAIN n.entries}
InheritIds(n) == UNION {Ids(n.inherits[j]) : j \in DOMAIN n.inherits}
Assigns(n, scope) == EntrySets(n, scope) \cup InheritIds(n)

Into(x, r, D, E) == Enter(x, "", r, D, E)

Within(x, r, D, E, L) ==
  State(Plus(Into(x, r, D, E), D, {}).fr, Append(r.rest, r.fr), L, r.w)

(* L is r's table, with the names of B registered as c. *)
Registers(L, r, B, c) ==
  /\ \A v \in NameSet : v \in B => L[v] = c
  /\ \A v \in NameSet : v \notin B => L[v] = r.L[v]

LEMMA FirstPlus ==
  ASSUME NEW q, NEW A, q.fr.a = {}, NEW p, p = Plus(q, {}, A)
  PROVE  /\ p.fr.x = q.fr.x /\ p.fr.v = q.fr.v /\ p.fr.D = q.fr.D /\ p.fr.E = q.fr.E
         /\ p.fr.d = q.fr.d /\ p.fr.a = A /\ p.fr.has = q.fr.has
         /\ p.fr.bound = q.fr.bound /\ p.rest = q.rest /\ p.L = q.L /\ p.w = q.w
         /\ IsState(p)
<1>1. /\ p.fr.x = q.fr.x /\ p.fr.v = q.fr.v /\ p.fr.D = q.fr.D /\ p.fr.E = q.fr.E
      /\ p.fr.has = q.fr.has /\ p.fr.bound = q.fr.bound /\ p.rest = q.rest
      /\ p.L = q.L /\ p.w = q.w /\ IsState(p)
  BY PlusFacts
<1>2. p.fr.d = q.fr.d \cup {} /\ p.fr.a = q.fr.a \cup A
  BY DEF Plus, State, Frame
<1>3. q.fr.d \cup {} = q.fr.d /\ {} \cup A = A
  OBVIOUS
<1> QED  BY <1>1, <1>2, <1>3, Zenon

Opening(x) == Open(x, "")
Closing(x) == Close(x, "")

Shape(x, r, D, E, L, o, i, p) ==
  /\ o.fr.x = x /\ o.fr.v = "" /\ o.fr.D = D /\ o.fr.E = E /\ o.fr.d = {}
  /\ o.fr.a = {}
  /\ o.rest = Append(r.rest, r.fr)
  /\ \A v \in NameSet : o.fr.bound[v] = IF v \in Brings(x, D, E) THEN Way(x)
                                        ELSE r.fr.bound[v]
  /\ "mrg" \notin o.fr.has
  /\ "inw" \in r.fr.has => "inw" \in o.fr.has
  /\ Cov(r) \/ x \in Shelters => "cov" \in o.fr.has
  /\ Quiet(r) \/ x \in Screens => "calm" \in o.fr.has
  /\ i.fr.x = x /\ i.fr.v = "" /\ i.fr.D = D /\ i.fr.E = E /\ i.fr.d = D
  /\ i.fr.a = {} /\ i.fr.has = o.fr.has /\ i.fr.bound = o.fr.bound
  /\ i.rest = Append(r.rest, r.fr) /\ i.L = L /\ i.w = r.w /\ IsState(i)
  /\ p.fr.x = x /\ p.fr.v = "" /\ p.fr.D = D /\ p.fr.E = E /\ p.fr.d = D
  /\ p.fr.a = E /\ p.fr.has = o.fr.has /\ p.fr.bound = o.fr.bound
  /\ p.rest = Append(r.rest, r.fr) /\ p.L = L /\ p.w = r.w /\ IsState(p)

LEMMA WithinFacts ==
  ASSUME NEW r, NEW x \in {"lambda", "block", NIX_IN_SCOPE, ATTRS_SCOPE},
         NEW D, NEW E, NEW L
  PROVE  Shape(x, r, D, E, L, Into(x, r, D, E), Within(x, r, D, E, L),
               Plus(Within(x, r, D, E, L), {}, E))
<1> DEFINE o == Into(x, r, D, E)
           i == Within(x, r, D, E, L)
           p == Plus(i, {}, E)
<1>2. /\ o.fr.x = x /\ o.fr.v = "" /\ o.fr.D = D /\ o.fr.E = E /\ o.fr.d = {}
      /\ o.fr.a = {}
      /\ o.rest = Append(r.rest, r.fr)
      /\ \A v \in NameSet : o.fr.bound[v] = IF v \in Brings(x, D, E) THEN Way(x)
                                            ELSE r.fr.bound[v]
      /\ "mrg" \notin o.fr.has
      /\ "inw" \in r.fr.has => "inw" \in o.fr.has
      /\ Cov(r) \/ x \in Shelters => "cov" \in o.fr.has
      /\ Quiet(r) \/ x \in Screens => "calm" \in o.fr.has
  BY DEF Into, Enter, State, Frame, NIX_IN_SCOPE, ATTRS_SCOPE
<1> HIDE DEF o
<1>3. /\ i.fr.x = x /\ i.fr.v = "" /\ i.fr.D = D /\ i.fr.E = E /\ i.fr.d = D
      /\ i.fr.a = {} /\ i.fr.has = o.fr.has /\ i.fr.bound = o.fr.bound
      /\ i.rest = Append(r.rest, r.fr) /\ i.L = L /\ i.w = r.w /\ IsState(i)
  <2>1. {} \cup D = D /\ {} \cup {} = {}
    OBVIOUS
  <2> QED  BY <1>2, <2>1 DEF Within, Plus, State, Frame, IsState, o
<1> HIDE DEF i
<1>4. /\ p.fr.x = x /\ p.fr.v = "" /\ p.fr.D = D /\ p.fr.E = E /\ p.fr.d = D
      /\ p.fr.a = E /\ p.fr.has = o.fr.has /\ p.fr.bound = o.fr.bound
      /\ p.rest = Append(r.rest, r.fr) /\ p.L = L /\ p.w = r.w /\ IsState(p)
  <2>1. /\ p.fr.x = i.fr.x /\ p.fr.v = i.fr.v /\ p.fr.D = i.fr.D /\ p.fr.E = i.fr.E
        /\ p.fr.d = D /\ p.fr.a = E /\ p.fr.has = i.fr.has
        /\ p.fr.bound = i.fr.bound /\ p.rest = i.rest /\ p.L = i.L /\ p.w = i.w
        /\ IsState(p)
    <3>1. i.fr.a = {} /\ i.fr.d = D
      BY <1>3
    <3>2. p = Plus(i, {}, E)
      OBVIOUS
    <3> HIDE DEF p
    <3> QED  BY <3>1, <3>2, FirstPlus
  <2> HIDE DEF p
  <2> QED  BY <1>3, <2>1
<1> HIDE DEF p
<1>5. Shape(x, r, D, E, L, o, i, p)
  BY <1>2, <1>3, <1>4 DEF Shape
<1> QED  BY <1>5 DEF o, i, p

LEMMA WithinMoves ==
  ASSUME NEW r, Apt(r), NEW x \in {"lambda", "block", NIX_IN_SCOPE, ATTRS_SCOPE},
         NEW D, NEW E, NEW L, NEW vs,
         x = "block" => Firm(r),
         Registers(L, r, Brings(x, D, E), Way(x))
  PROVE  /\ Moves(Opening(x), r, Into(x, r, D, E), vs)
         /\ Apt(Within(x, r, D, E, L)) /\ Cov(Within(x, r, D, E, L))
         /\ Within(x, r, D, E, L).fr.E = E
         /\ x # ATTRS_SCOPE => Firm(Plus(Within(x, r, D, E, L), {}, E))
<1> DEFINE o == Into(x, r, D, E)
           i == Within(x, r, D, E, L)
           p == Plus(i, {}, E)
<1>1. Moves(Open(x, ""), r, o, vs)
  <2>1. MayOpen(Open(x, ""), r)
    BY DEF MayOpen, Open, Screens, Passing, Delaying, Firm, NIX_IN_SCOPE, ATTRS_SCOPE
  <2>2. \E D1, E1 : o = Enter(x, "", r, D1, E1)
    BY DEF Into
  <2> QED  BY <2>1, <2>2 DEF Moves, Open, Apt
<1>0. Shape(x, r, D, E, L, o, i, p)
  BY WithinFacts
<1> HIDE DEF o, i, p
<1>2. /\ o.fr.x = x /\ o.fr.v = "" /\ o.fr.D = D /\ o.fr.E = E /\ o.fr.d = {}
      /\ o.fr.a = {}
      /\ o.rest = Append(r.rest, r.fr)
      /\ \A v \in NameSet : o.fr.bound[v] = IF v \in Brings(x, D, E) THEN Way(x)
                                            ELSE r.fr.bound[v]
      /\ "mrg" \notin o.fr.has
      /\ "inw" \in r.fr.has => "inw" \in o.fr.has
      /\ Cov(r) \/ x \in Shelters => "cov" \in o.fr.has
      /\ Quiet(r) \/ x \in Screens => "calm" \in o.fr.has
  BY <1>0 DEF Shape
<1>3. /\ i.fr.x = x /\ i.fr.v = "" /\ i.fr.D = D /\ i.fr.E = E /\ i.fr.d = D
      /\ i.fr.a = {} /\ i.fr.has = o.fr.has /\ i.fr.bound = o.fr.bound
      /\ i.rest = Append(r.rest, r.fr) /\ i.L = L /\ i.w = r.w /\ IsState(i)
  BY <1>0 DEF Shape
<1>4. /\ p.fr.x = x /\ p.fr.v = "" /\ p.fr.D = D /\ p.fr.E = E /\ p.fr.d = D
      /\ p.fr.a = E /\ p.fr.has = o.fr.has /\ p.fr.bound = o.fr.bound
      /\ p.rest = Append(r.rest, r.fr) /\ p.L = L /\ p.w = r.w /\ IsState(p)
  BY <1>0 DEF Shape
<1>5. Way(x) \in {"LambdaArg", "LetLetVar", "LetInScopeVar"}
  BY DEF Way
<1>6. Apt(i)
  <2>1. \A v \in NameSet : i.fr.bound[v] \in {"none", "LambdaArg", "LetLetVar", "LetInScopeVar"}
    BY <1>2, <1>3, <1>5 DEF Apt
  <2>2. ASSUME NEW v \in NameSet
        PROVE  i.L[v] = IF i.fr.bound[v] = "none" THEN Table(DFL_VARS)[v]
                        ELSE i.fr.bound[v]
    <3>1. CASE v \in Brings(x, D, E)
      BY <1>2, <1>3, <1>5, <3>1 DEF Registers
    <3>2. CASE v \notin Brings(x, D, E)
      <4>1. i.L[v] = r.L[v] /\ i.fr.bound[v] = r.fr.bound[v]
        BY <1>2, <1>3, <3>2 DEF Registers
      <4>2. r.L[v] = IF r.fr.bound[v] = "none" THEN Table(DFL_VARS)[v] ELSE r.fr.bound[v]
        BY DEF Apt
      <4> QED  BY <4>1, <4>2
    <3> QED  BY <3>1, <3>2
  <2>3. i.w > 0 => "inw" \in i.fr.has
    BY <1>2, <1>3 DEF Apt
  <2>4. Stacked(i)
    <3>1. Stacked(o)
      BY EnterStacked DEF Into, Apt, o
    <3> QED  BY <1>2, <1>3, <3>1 DEF Stacked
  <2> QED  BY <1>2, <1>3, <2>1, <2>2, <2>3, <2>4 DEF Apt
<1>7. Cov(i)
  <2>1. Cov(r) \/ x \in Shelters
    BY DEF Firm, Shelters, AsyncFns, NIX_IN_SCOPE, ATTRS_SCOPE
  <2> QED  BY <1>2, <1>3, <2>1 DEF Cov
<1>8. x # ATTRS_SCOPE => Firm(p)
  <2>1. Apt(p) /\ Cov(p)
    BY <1>6, <1>7, PlusApt DEF p
  <2>2. p.fr.a = E
    BY <1>4
  <2>3. x # ATTRS_SCOPE => Quiet(r) \/ x \in Screens
    BY DEF Firm, Screens, Delaying, NIX_IN_SCOPE, ATTRS_SCOPE
  <2>4. x # ATTRS_SCOPE => Quiet(p)
    BY <1>2, <1>4, <2>2, <2>3 DEF Quiet
  <2> QED  BY <2>1, <2>4 DEF Firm
<1> QED  BY <1>1, <1>3, <1>6, <1>7, <1>8 DEF o, i, p, Opening

LEMMA WithinClose ==
  ASSUME NEW r, Apt(r), NEW x \in {"lambda", "block", NIX_IN_SCOPE, ATTRS_SCOPE},
         NEW D, NEW E, NEW L, NEW vs
  PROVE  Moves(Closing(x), Plus(Within(x, r, D, E, L), {}, E),
               State(r.fr, r.rest, L, r.w), vs)
<1> DEFINE i == Within(x, r, D, E, L)
           p == Plus(i, {}, E)
           z == State(r.fr, r.rest, L, r.w)
           c == Close(x, "")
<1> DEFINE o == Into(x, r, D, E)
<1>0. Shape(x, r, D, E, L, o, i, p)
  BY WithinFacts
<1> HIDE DEF o, i, p
<1>4. /\ p.fr.x = x /\ p.fr.v = "" /\ p.fr.D = D /\ p.fr.E = E /\ p.fr.d = D
      /\ p.fr.a = E /\ p.rest = Append(r.rest, r.fr) /\ p.L = L /\ p.w = r.w
  BY <1>0 DEF Shape
<1>9. Moves(c, p, z, vs)
  <2>1. c.t = "close" /\ c.x = x /\ c.v = "" /\ x # "set"
    BY DEF Close, NIX_IN_SCOPE, ATTRS_SCOPE
  <2>2. z.rest = r.rest /\ IsState(z) /\ Stacked(z)
    BY DEF State, IsState, Apt, Stacked
  <2>3. p.fr.d = D /\ p.fr.a = E
    BY <1>4
  <2> HIDE DEF c
  <2>4. Closes(c, p, z)
    <3> DEFINE u == State(r.fr, z.rest, p.L, p.w)
    <3>1. u = z
      BY <1>4, <2>2
    <3>2. p.rest = Append(z.rest, r.fr) /\ IsState(u)
          /\ z = IF c.x = "set" THEN Plus(u, {}, {c.v}) ELSE u
      BY <1>4, <2>1, <2>2, <3>1
    <3> QED  BY <1>4, <2>1, <2>2, <2>3, <3>2 DEF Closes
  <2> QED  BY <2>1, <2>4 DEF Moves
<1> QED  BY <1>9 DEF i, p, z, c, Closing

LEMMA EntriesPath ==
  ASSUME NEW n, n.entries \in Seq(Entry), NEW scope, NEW q, Apt(q), Cov(q),
         EntrySets(n, scope) \subseteq q.fr.E, NEW vs
  PROVE  Path([j \in DOMAIN n.entries |-> Kv(n.entries[j], scope)],
              q, Plus(q, {}, EntrySets(n, scope)), vs)
<1> DEFINE u == n.entries
           M == [j \in DOMAIN u |-> Kv(u[j], scope)]
           B == [j \in DOMAIN u |-> {}]
           A == [j \in DOMAIN u |-> Sets(u[j], scope)]
           X == {M[j] : j \in DOMAIN u}
<1>1. M \in [DOMAIN u -> X]
  OBVIOUS
<1>2. \A j \in DOMAIN u : /\ M[j].t = "kv" /\ M[j].entry = u[j] /\ M[j].scope = scope
                          /\ B[j] = {} /\ A[j] = Sets(u[j], scope)
  BY DEF Kv
<1> HIDE DEF X, M, B, A
<1>3. M \in Seq(X)
  BY <1>1, MapSeq
<1>4. DOMAIN u = 1 .. Len(M)
  BY <1>1, <1>3
<1>5. ASSUME NEW j \in 1 .. Len(M), NEW Y, NEW Z
      PROVE  Moves(M[j], Plus(q, Y, Z), Plus(q, Y \cup B[j], Z \cup A[j]), vs)
  <2> DEFINE p == Plus(q, Y, Z)
  <2>1. Apt(p) /\ Cov(p) /\ p.fr.E = q.fr.E
    BY PlusApt, PlusFacts
  <2>2. Plus(p, {}, A[j]) = Plus(q, Y \cup {}, Z \cup A[j])
    BY PlusPlus
  <2>3. A[j] \subseteq q.fr.E
    BY <1>2, <1>4 DEF EntrySets
  <2> HIDE DEF p
  <2>4. Moves(M[j], p, Plus(p, {}, A[j]), vs)
    <3>1. M[j].t = "kv" /\ Sets(M[j].entry, M[j].scope) = A[j]
      BY <1>2, <1>4
    <3> QED  BY <2>1, <2>3, <3>1 DEF Moves, Apt
  <2>5. B[j] = {}
    BY <1>2, <1>4
  <2> QED  BY <2>2, <2>4, <2>5 DEF p
<1>6. /\ \A v : v \in {} <=> \E j \in 1 .. Len(M) : v \in B[j]
      /\ \A v : v \in EntrySets(n, scope) <=> \E j \in 1 .. Len(M) : v \in A[j]
  BY <1>2, <1>4 DEF EntrySets
<1>7. \A j \in 1 .. Len(M) : \A Y, Z :
        Moves(M[j], Plus(q, Y, Z), Plus(q, Y \cup B[j], Z \cup A[j]), vs)
  BY <1>5
<1>8. Path(M, q, Plus(q, {}, EntrySets(n, scope)), vs)
  <2> HIDE DEF u
  <2> QED  BY <1>3, <1>6, <1>7, PlusAll DEF Apt
<1> QED  BY <1>8 DEF M

LEMMA InheritsPath ==
  ASSUME NEW n, n.inherits \in Seq(Inherits), NEW q, Apt(q),
         InheritIds(n) \subseteq q.fr.E, NEW vs
  PROVE  Path([j \in DOMAIN n.inherits |-> Inh(n.inherits[j])],
              q, Plus(q, {}, InheritIds(n)), vs)
<1> DEFINE u == n.inherits
           M == [j \in DOMAIN u |-> Inh(u[j])]
           B == [j \in DOMAIN u |-> {}]
           A == [j \in DOMAIN u |-> Ids(u[j])]
           X == {M[j] : j \in DOMAIN u}
<1>1. M \in [DOMAIN u -> X]
  OBVIOUS
<1>2. \A j \in DOMAIN u : /\ M[j].t = "inh" /\ M[j].inh = u[j]
                          /\ B[j] = {} /\ A[j] = Ids(u[j])
  BY DEF Inh
<1> HIDE DEF X, M, B, A
<1>3. M \in Seq(X)
  BY <1>1, MapSeq
<1>4. DOMAIN u = 1 .. Len(M)
  BY <1>1, <1>3
<1>5. ASSUME NEW j \in 1 .. Len(M), NEW Y, NEW Z
      PROVE  Moves(M[j], Plus(q, Y, Z), Plus(q, Y \cup B[j], Z \cup A[j]), vs)
  <2> DEFINE p == Plus(q, Y, Z)
  <2>1. Apt(p) /\ p.fr.E = q.fr.E
    BY PlusApt, PlusFacts
  <2>2. Plus(p, {}, A[j]) = Plus(q, Y \cup {}, Z \cup A[j])
    BY PlusPlus
  <2>3. A[j] \subseteq q.fr.E
    BY <1>2, <1>4 DEF InheritIds
  <2> HIDE DEF p
  <2>4. Moves(M[j], p, Plus(p, {}, A[j]), vs)
    <3>1. M[j].t = "inh" /\ Ids(M[j].inh) = A[j]
      BY <1>2, <1>4
    <3> QED  BY <2>1, <2>3, <3>1 DEF Moves, Apt
  <2>5. B[j] = {}
    BY <1>2, <1>4
  <2> QED  BY <2>2, <2>4, <2>5 DEF p
<1>6. /\ \A v : v \in {} <=> \E j \in 1 .. Len(M) : v \in B[j]
      /\ \A v : v \in InheritIds(n) <=> \E j \in 1 .. Len(M) : v \in A[j]
  BY <1>2, <1>4 DEF InheritIds
<1>7. \A j \in 1 .. Len(M) : \A Y, Z :
        Moves(M[j], Plus(q, Y, Z), Plus(q, Y \cup B[j], Z \cup A[j]), vs)
  BY <1>5
<1>8. Path(M, q, Plus(q, {}, InheritIds(n)), vs)
  <2> HIDE DEF u
  <2> QED  BY <1>3, <1>6, <1>7, PlusAll DEF Apt
<1> QED  BY <1>8 DEF M

(* Entries, then inherits: everything the bracket assigns. *)
LEMMA AssignsPath ==
  ASSUME NEW n, n.entries \in Seq(Entry), n.inherits \in Seq(Inherits), NEW scope,
         NEW q, Apt(q), Cov(q), Assigns(n, scope) \subseteq q.fr.E, NEW vs
  PROVE  \E p : /\ Path([j \in DOMAIN n.entries |-> Kv(n.entries[j], scope)], q, p, vs)
                /\ Path([j \in DOMAIN n.inherits |-> Inh(n.inherits[j])],
                        p, Plus(q, {}, Assigns(n, scope)), vs)
<1> DEFINE p == Plus(q, {}, EntrySets(n, scope))
<1>1. Path([j \in DOMAIN n.entries |-> Kv(n.entries[j], scope)], q, p, vs)
  BY EntriesPath DEF Assigns
<1>2. Apt(p) /\ p.fr.E = q.fr.E
  BY PlusApt, PlusFacts
<1>3. Plus(p, {}, InheritIds(n)) = Plus(q, {}, Assigns(n, scope))
  <2>1. {} \cup {} = {}
    OBVIOUS
  <2> QED  BY <2>1, PlusPlus DEF Assigns
<1> HIDE DEF p
<1>4. Path([j \in DOMAIN n.inherits |-> Inh(n.inherits[j])], p,
           Plus(p, {}, InheritIds(n)), vs)
  BY <1>2, InheritsPath DEF Assigns
<1> QED  BY <1>1, <1>3, <1>4

LEMMA KeysMoves ==
  ASSUME NEW x \in {"block", NIX_IN_SCOPE}, NEW r, Apt(r), NEW K, NEW D, NEW E, NEW vs,
         D = IF x = "block" THEN K ELSE {}
  PROVE  Moves(Keys(K, Way(x)), Into(x, r, D, E),
               Within(x, r, D, E, [v \in NameSet |-> IF v \in K THEN Way(x) ELSE r.L[v]]), vs)
<1> DEFINE o == Into(x, r, D, E)
           L == [v \in NameSet |-> IF v \in K THEN Way(x) ELSE r.L[v]]
           i == Within(x, r, D, E, L)
           k == Keys(K, Way(x))
<1>1. /\ o.fr.D = D /\ "mrg" \notin o.fr.has
      /\ o.L = r.L /\ o.w = r.w /\ o.rest = Append(r.rest, r.fr)
  BY DEF Into, Enter, State, Frame, NIX_IN_SCOPE
<1>2. k.t = "keys" /\ k.keys = K /\ k.categ = Way(x)
  BY DEF Keys
<1>3. D = IF k.categ = "LetLetVar" THEN k.keys ELSE {}
  BY <1>2 DEF Way, NIX_IN_SCOPE
<1>4. i = State(Plus(o, D, {}).fr, o.rest,
                [v \in NameSet |-> IF v \in k.keys THEN k.categ ELSE o.L[v]], o.w)
  BY <1>1, <1>2 DEF Within
<1> HIDE DEF o, i, k
<1>5. Moves(k, o, i, vs)
  BY <1>1, <1>2, <1>3, <1>4 DEF Moves
<1> QED  BY <1>5 DEF o, i, k, L

(* The names a scope function assigns are the ones registered for it. *)
LEMMA KeysAssigned ==
  ASSUME NEW n, n.entries \in Seq(Entry), n.inherits \in Seq(Inherits),
         NEW v \in NameSet
  PROVE  v \in Assigns(n, NIX_IN_SCOPE) <=> v \in getkeys(n)
<1>1. v # "" /\ NIX_IN_SCOPE # NO_SCOPE
  BY NodesAssumption DEF NIX_IN_SCOPE, NO_SCOPE
<1>2. ASSUME NEW j \in DOMAIN n.entries
      PROVE  v \in Sets(n.entries[j], NIX_IN_SCOPE) <=>
               LET key == n.entries[j].key
               IN key # <<>> /\ key[1].k = "Ident" /\ key[1].id = v
  BY <1>1 DEF Sets, KeyName
<1>3. ASSUME NEW j \in DOMAIN n.inherits
      PROVE  v \in Ids(n.inherits[j]) <=>
               \E m \in DOMAIN n.inherits[j].ids : n.inherits[j].ids[m] = v
  BY DEF Ids
<1>4. v \in EntrySets(n, NIX_IN_SCOPE) <=>
        \E j \in DOMAIN n.entries : v \in Sets(n.entries[j], NIX_IN_SCOPE)
  BY DEF EntrySets
<1>5. v \in InheritIds(n) <=> \E j \in DOMAIN n.inherits : v \in Ids(n.inherits[j])
  BY DEF InheritIds
<1> QED  BY <1>2, <1>3, <1>4, <1>5 DEF Assigns, getkeys

LEMMA LetLiteralPath ==
  ASSUME NEW n, n.entries \in Seq(Entry), n.inherits \in Seq(Inherits), NEW s \in Ctx,
         NEW q, Apt(q), s # NW => Firm(q), NEW vs
  PROVE  Path(LetLiteral(n, s), q, q, vs)
<1> DEFINE A == [j \in DOMAIN n.entries |-> Sub(n.entries[j].value, NW)]
           B == [j \in DOMAIN n.inherits |-> PropInh(n.inherits[j])]
           T == <<Open("obj", "")>> \o A \o B \o <<Close("obj", "")>>
           L == lazyness_incoming(s, "Forward", "Forward", "Front")
<1>1. PICK r : Apt(r) /\ \A U : Path(U, r, r, vs) => Path(Wrap(L, U), q, q, vs)
  BY WrapPath
<1> DEFINE i == In("obj", r)
<1>2. /\ Apt(i) /\ Moves(Open("obj", ""), r, i, vs) /\ Moves(Close("obj", ""), i, r, vs)
  <2>1. "obj" \notin Bindings /\ "obj" \in Passing /\ "obj" # "set"
    BY DEF Bindings, Passing, NIX_IN_SCOPE
  <2> QED  BY <1>1, <2>1, AptBracket
<1> HIDE DEF i, L
<1>3. Path(A, i, i, vs)
  <2>1. \A j \in DOMAIN n.entries : Moves(A[j], i, i, vs)
    BY <1>2, SubMoves
  <2>2. DOMAIN A = DOMAIN n.entries /\ A = [j \in DOMAIN n.entries |-> A[j]]
    OBVIOUS
  <2> HIDE DEF A
  <2> QED  BY <2>1, <2>2, MapPath
<1>4. Path(B, i, i, vs)
  <2>1. \A j \in DOMAIN n.inherits : Moves(B[j], i, i, vs)
    BY <1>2 DEF Moves, PropInh, Apt
  <2>2. DOMAIN B = DOMAIN n.inherits /\ B = [j \in DOMAIN n.inherits |-> B[j]]
    OBVIOUS
  <2> HIDE DEF B
  <2> QED  BY <2>1, <2>2, MapPath
<1> HIDE DEF A, B
<1>5. Path(<<Open("obj", "")>> \o A, r, i, vs)
  BY <1>2, <1>3, OnePath, ConcatPath
<1>6. Path(<<Open("obj", "")>> \o A \o B, r, i, vs)
  BY <1>4, <1>5, ConcatPath
<1>7. Path(T, r, r, vs)
  BY <1>2, <1>6, OnePath, ConcatPath
<1>8. Path(Wrap(L, T), q, q, vs)
  BY <1>1, <1>7
<1> QED  BY <1>8 DEF LetLiteral, L, A, B

LEMMA TruncateMoves ==
  ASSUME NEW r, Apt(r), NEW L, NEW m, NEW vs, Table(SubSeq(vs, 1, m)) = r.L
  PROVE  Moves(Truncate(m), State(r.fr, r.rest, L, r.w), r, vs)
<1> DEFINE t == Truncate(m)
           z == State(r.fr, r.rest, L, r.w)
<1>1. t.t = "trunc" /\ t.len = m
  BY DEF Truncate
<1>2. z.fr = r.fr /\ z.rest = r.rest /\ z.w = r.w
  BY DEF State
<1> HIDE DEF t, z
<1>3. r = State(z.fr, z.rest, Table(SubSeq(vs, 1, t.len)), z.w)
  BY <1>1, <1>2 DEF Apt, IsState
<1>4. Moves(t, z, r, vs)
  BY <1>1, <1>2, <1>3 DEF Moves, Apt
<1> QED  BY <1>4 DEF t, z

LEMMA LetVariablesPath ==
  ASSUME NEW n, n.entries \in Seq(Entry), n.inherits \in Seq(Inherits), NEW s \in Ctx,
         NEW body, NEW m, NEW q, Apt(q), s # NW => Firm(q), NEW vs,
         Table(SubSeq(vs, 1, m)) = q.L
  PROVE  Path(LetVariables(n, body, s, m), q, q, vs)
<1> DEFINE K == getkeys(n)
           E == Assigns(n, NO_SCOPE)
           A == [j \in DOMAIN n.entries |-> Kv(n.entries[j], NO_SCOPE)]
           B == [j \in DOMAIN n.inherits |-> Inh(n.inherits[j])]
           C == <<Sub(body, WN), Close("block", ""), Truncate(m)>>
           T == <<Keys(K, "LetLetVar")>> \o A \o B \o C
           U == <<Open("block", "")>> \o T
           I == lazyness_incoming(s, "Forward", "Force", "Front")
<1>1. PICK r : Firm(r) /\ r.L = q.L /\ \A V : Path(V, r, r, vs) => Path(Wrap(I, V), q, q, vs)
  BY WrapPath
<1> DEFINE L == [v \in NameSet |-> IF v \in K THEN Way("block") ELSE r.L[v]]
           o == Into("block", r, K, E)
           i == Within("block", r, K, E, L)
           z == State(r.fr, r.rest, L, r.w)
<1>2. Way("block") = "LetLetVar" /\ Brings("block", K, E) = K
  BY DEF Way, Brings
<1> HIDE DEF I, K, E
<1>3. /\ Moves(Opening("block"), r, o, vs) /\ Apt(i) /\ Cov(i) /\ i.fr.E = E
      /\ Firm(Plus(i, {}, E))
      /\ Moves(Closing("block"), Plus(i, {}, E), z, vs)
  <2>1. Registers(L, r, Brings("block", K, E), Way("block"))
    BY <1>2 DEF Registers
  <2>2. "block" # ATTRS_SCOPE
    BY DEF ATTRS_SCOPE
  <2> HIDE DEF L
  <2> QED  BY <1>1, <2>1, <2>2, WithinMoves, WithinClose DEF Firm
<1>4. Moves(Keys(K, "LetLetVar"), o, i, vs)
  BY <1>1, <1>2, KeysMoves DEF Firm
<1> HIDE DEF o, i
<1>5. PICK p : Path(A, i, p, vs) /\ Path(B, p, Plus(i, {}, E), vs)
  <2>1. Assigns(n, NO_SCOPE) \subseteq i.fr.E
    BY <1>3 DEF E
  <2> QED  BY <1>3, <2>1, AssignsPath DEF E
<1>6. Moves(Truncate(m), z, r, vs)
  BY <1>1, TruncateMoves DEF Firm
<1> HIDE DEF z, A, B
<1>7. Path(C, Plus(i, {}, E), r, vs)
  <2>1. Moves(Sub(body, WN), Plus(i, {}, E), Plus(i, {}, E), vs)
    BY <1>3, FirmSub
  <2> QED  BY <1>3, <1>6, <2>1, ThreePath DEF Closing
<1> HIDE DEF C
<1>8. Path(<<Keys(K, "LetLetVar")>> \o A, o, p, vs)
  BY <1>4, <1>5, OnePath, ConcatPath
<1>9. Path(<<Keys(K, "LetLetVar")>> \o A \o B, o, Plus(i, {}, E), vs)
  BY <1>5, <1>8, ConcatPath
<1>10. Path(T, o, r, vs)
  BY <1>7, <1>9, ConcatPath
<1> HIDE DEF T
<1>11. Path(U, r, r, vs)
  BY <1>3, <1>10, OnePath, ConcatPath DEF Opening
<1>12. Path(Wrap(I, U), q, q, vs)
  BY <1>1, <1>11
<1> QED  BY <1>12 DEF LetVariables, I, T, A, B, C, K

LEMMA LetScopePath ==
  ASSUME NEW n, n.entries \in Seq(Entry), n.inherits \in Seq(Inherits), NEW s \in Ctx,
         NEW body, NEW scope \in {NIX_IN_SCOPE, ATTRS_SCOPE}, NEW m,
         scope = ATTRS_SCOPE => body = ExtractScope,
         NEW q, Apt(q), s # NW => Firm(q), NEW vs, Table(SubSeq(vs, 1, m)) = q.L
  PROVE  Path(LetScope(n, body, scope, s, m), q, q, vs)
<1> DEFINE K == getkeys(n)
           E == Assigns(n, scope)
           R == IF scope = NIX_IN_SCOPE THEN <<Keys(K, "LetInScopeVar")>> ELSE <<>>
           A == [j \in DOMAIN n.entries |-> Kv(n.entries[j], scope)]
           B == [j \in DOMAIN n.inherits |-> Inh(n.inherits[j])]
           C == IF body = ExtractScope THEN <<Lit("extract", "")>> ELSE <<Sub(body, WN)>>
           Z == <<Closing(scope), Truncate(m)>>
           U == <<Opening(scope)>> \o R \o A \o B \o C \o Z
           I == lazyness_incoming(s, "Need", "Forward", "Front")
<1>0. /\ NIX_IN_SCOPE # ATTRS_SCOPE /\ NIX_IN_SCOPE # "block" /\ NIX_IN_SCOPE # "lambda"
      /\ ATTRS_SCOPE # "block" /\ ATTRS_SCOPE # "lambda"
  BY DEF NIX_IN_SCOPE, ATTRS_SCOPE
<1>1. PICK r : Apt(r) /\ r.L = q.L /\ \A V : Path(V, r, r, vs) => Path(Wrap(I, V), q, q, vs)
  BY WrapPath
<1> DEFINE L == IF scope = NIX_IN_SCOPE
                THEN [v \in NameSet |-> IF v \in K THEN Way(scope) ELSE r.L[v]] ELSE r.L
           o == Into(scope, r, {}, E)
           i == Within(scope, r, {}, E, L)
           z == State(r.fr, r.rest, L, r.w)
<1>2. Way(NIX_IN_SCOPE) = "LetInScopeVar" /\ Brings(NIX_IN_SCOPE, {}, E) = E
      /\ Brings(ATTRS_SCOPE, {}, E) = {}
  BY DEF Way, Brings, NIX_IN_SCOPE, ATTRS_SCOPE
<1>3. Registers(L, r, Brings(scope, {}, E), Way(scope))
  <2>1. CASE scope = NIX_IN_SCOPE
    <3>1. \A v \in NameSet : v \in E <=> v \in K
      BY <2>1, KeysAssigned
    <3> HIDE DEF E, K
    <3> QED  BY <1>2, <2>1, <3>1 DEF Registers
  <2>2. CASE scope = ATTRS_SCOPE
    <3> HIDE DEF E, K
    <3> QED  BY <1>0, <1>2, <2>2 DEF Registers
  <2> QED  BY <2>1, <2>2
<1> HIDE DEF I, E
<1>4. /\ Moves(Opening(scope), r, o, vs) /\ Apt(i) /\ Cov(i) /\ i.fr.E = E
      /\ scope # ATTRS_SCOPE => Firm(Plus(i, {}, E))
      /\ Moves(Closing(scope), Plus(i, {}, E), z, vs)
  <2> HIDE DEF L
  <2>1. scope \in {"lambda", "block", NIX_IN_SCOPE, ATTRS_SCOPE}
    OBVIOUS
  <2>2. scope # "block" /\ scope # "lambda"
    BY <1>0
  <2> QED  BY <1>1, <1>3, <2>1, <2>2, WithinMoves, WithinClose
<1>5. Path(R, o, i, vs)
  <2>1. CASE scope = NIX_IN_SCOPE
    <3>1. {} = IF NIX_IN_SCOPE = "block" THEN K ELSE {}
      BY <1>0
    <3>2. L = [v \in NameSet |-> IF v \in K THEN Way(NIX_IN_SCOPE) ELSE r.L[v]]
      BY <2>1
    <3> HIDE DEF L, K
    <3>3. Moves(Keys(K, Way(NIX_IN_SCOPE)), Into(NIX_IN_SCOPE, r, {}, E),
                Within(NIX_IN_SCOPE, r, {}, E, L), vs)
      BY <1>1, <3>1, <3>2, KeysMoves
    <3>4. Moves(Keys(K, "LetInScopeVar"), o, i, vs)
      BY <1>2, <2>1, <3>3
    <3> QED  BY <2>1, <3>4, OnePath
  <2>2. CASE scope = ATTRS_SCOPE
    <3>1. o = i
      <4>1. o.rest = Append(r.rest, r.fr) /\ o.L = r.L /\ o.w = r.w /\ IsState(o)
        BY DEF Into, Enter, State, Frame, IsState
      <4>2. i = State(Plus(o, {}, {}).fr, o.rest, o.L, o.w)
        BY <1>0, <2>2, <4>1 DEF Within
      <4>3. Plus(o, {}, {}) = o
        BY <4>1, PlusNone
      <4> HIDE DEF o, i
      <4> QED  BY <4>1, <4>2, <4>3 DEF IsState
    <3> QED  BY <1>0, <2>2, <3>1, NoPath
  <2> QED  BY <2>1, <2>2
<1>6. PICK p : Path(A, i, p, vs) /\ Path(B, p, Plus(i, {}, E), vs)
  <2> HIDE DEF i
  <2>1. Assigns(n, scope) \subseteq i.fr.E
    BY <1>4 DEF E
  <2> QED  BY <1>4, <2>1, AssignsPath DEF E
<1> DEFINE g == Plus(i, {}, E)
<1>7. Path(C, g, g, vs)
  <2>1. Apt(g)
    BY <1>4, PlusApt
  <2>2. body # ExtractScope => Firm(g)
    BY <1>4
  <2> HIDE DEF g
  <2>3. "extract" # "builtin"
    OBVIOUS
  <2> QED  BY <2>1, <2>2, <2>3, LitMoves, FirmSub, OnePath
<1>8. Path(Z, g, r, vs)
  <2>1. Moves(Truncate(m), z, r, vs)
    BY <1>1, TruncateMoves
  <2> HIDE DEF g, z
  <2> QED  BY <1>4, <2>1, TwoPath DEF g
<1> HIDE DEF g, R, A, B, C, Z, o, i
<1>9. Path(<<Opening(scope)>> \o R, r, i, vs)
  BY <1>4, <1>5, OnePath, ConcatPath
<1>10. Path(<<Opening(scope)>> \o R \o A, r, p, vs)
  BY <1>6, <1>9, ConcatPath
<1>11. Path(<<Opening(scope)>> \o R \o A \o B, r, g, vs)
  BY <1>6, <1>10, ConcatPath DEF g
<1>12. Path(<<Opening(scope)>> \o R \o A \o B \o C, r, g, vs)
  BY <1>7, <1>11, ConcatPath
<1>13. Path(U, r, r, vs)
  BY <1>8, <1>12, ConcatPath
<1>14. Path(Wrap(I, U), q, q, vs)
  BY <1>1, <1>13
<1> QED  BY <1>14 DEF LetScope, I, R, A, B, C, Z, K, Opening, Closing

LEMMA LetPath ==
  ASSUME NEW n, n.entries \in Seq(Entry), n.inherits \in Seq(Inherits), NEW s \in Ctx,
         NEW body, NEW scope \in {NIX_IN_SCOPE, ATTRS_SCOPE}, NEW m,
         scope = ATTRS_SCOPE => body = ExtractScope,
         NEW q, Apt(q), s # NW => Firm(q), NEW vs, Table(SubSeq(vs, 1, m)) = q.L
  PROVE  Path(translate_let(n, body, scope, s, m), q, q, vs)
<1>1. Path(<<Lit("empty", "")>>, q, q, vs)
  BY LitMoves, OnePath
<1>2. Path(<<Sub(body, s)>>, q, q, vs)
  BY SubMoves, OnePath
<1>3. Path(LetLiteral(n, s), q, q, vs)
  BY LetLiteralPath
<1>4. Path(LetVariables(n, body, s, m), q, q, vs)
  BY LetVariablesPath
<1>5. Path(LetScope(n, body, scope, s, m), q, q, vs)
  BY LetScopePath
<1> QED  BY <1>1, <1>2, <1>3, <1>4, <1>5 DEF translate_let

(* A let leaves the table as it found it. *)
LEMMA LetFlow ==
  ASSUME TypeOK, FlowInv, Running("node"), S \in Ctx,
         N.entries \in Seq(Entry), N.inherits \in Seq(Inherits),
         NEW body, NEW scope \in {NIX_IN_SCOPE, ATTRS_SCOPE},
         scope = ATTRS_SCOPE => body = ExtractScope,
         Replace(translate_let(N, body, scope, S, Len(vars)))
  PROVE  FlowInv'
<1>1. SubSeq(vars, 1, Len(vars)) = vars
  BY DEF TypeOK
<1>2. ASSUME NEW q, Apt(q), S # NW => Firm(q), q.L = Table(vars)
      PROVE  Path(translate_let(N, body, scope, S, Len(vars)), q, q, vars)
  <2>1. Table(SubSeq(vars, 1, Len(vars))) = q.L
    BY <1>1, <1>2
  <2> QED  BY <1>2, <2>1, LetPath
<1> QED  BY <1>2, NodeFlow

LEMMA AttrSetFlow == ASSUME TypeOK, FlowInv, AttrSet PROVE FlowInv'
<1> DEFINE scope == IF N.recursive THEN NIX_IN_SCOPE ELSE ATTRS_SCOPE
<1>1. N \in Node /\ N.k = "AttrSet" /\ NodeShape(N) /\ S \in Ctx
  BY VisitNode DEF AttrSet
<1>2. N.entries \in Seq(Entry) /\ N.inherits \in Seq(Inherits)
  BY <1>1 DEF NodeShape
<1>3. Running("node") /\ Replace(translate_let(N, ExtractScope, scope, S, Len(vars)))
  BY DEF AttrSet, Visit
<1>4. scope \in {NIX_IN_SCOPE, ATTRS_SCOPE}
  OBVIOUS
<1> HIDE DEF scope
<1> QED  BY <1>1, <1>2, <1>3, <1>4, LetFlow

LEMMA LetInFlow == ASSUME TypeOK, FlowInv, LetIn PROVE FlowInv'
<1>1. N \in Node /\ N.k = "LetIn" /\ NodeShape(N) /\ S \in Ctx
  BY VisitNode DEF LetIn
<1>2. N.entries \in Seq(Entry) /\ N.inherits \in Seq(Inherits)
  BY <1>1 DEF NodeShape
<1>3. Running("node") /\ Replace(translate_let(N, N.body, NIX_IN_SCOPE, S, Len(vars)))
  BY DEF LetIn, Visit
<1>4. NIX_IN_SCOPE # ATTRS_SCOPE
  BY DEF NIX_IN_SCOPE, ATTRS_SCOPE
<1> QED  BY <1>1, <1>2, <1>3, <1>4, LetFlow

LEMMA LegacyLetFlow == ASSUME TypeOK, FlowInv, LegacyLet PROVE FlowInv'
<1>1. N \in Node /\ N.k = "LegacyLet" /\ NodeShape(N) /\ S \in Ctx
  BY VisitNode DEF LegacyLet
<1>2. N.entries \in Seq(Entry) /\ N.inherits \in Seq(Inherits)
  BY <1>1 DEF NodeShape
<1>3. PICK b : Replace(translate_let(N, b, NIX_IN_SCOPE, S, Len(vars)))
  BY DEF LegacyLet
<1>4. Running("node")
  BY DEF LegacyLet, Visit
<1>5. NIX_IN_SCOPE # ATTRS_SCOPE
  BY DEF NIX_IN_SCOPE, ATTRS_SCOPE
<1> QED  BY <1>1, <1>2, <1>3, <1>4, <1>5, LetFlow

----------------------------------------------------------------------------
(* The table: the last entry of a name counts.                             *)
Less == {ss \in Nat \X Nat : ss[1] < ss[2]}

(* The least-number principle. *)
LEMMA LeastNumber ==
  ASSUME NEW T \in SUBSET Nat, T # {}
  PROVE  \E x \in T : \A y \in T : x <= y
<1>1. Less = OpToRel(<, Nat)
  BY DEF Less, OpToRel
<1>2. IsWellFoundedOn(Less, Nat)
  BY <1>1, NatLessThanWellFounded
<1>3. PICK x \in T : \A y \in T : ~(<<y, x>> \in Less)
  BY <1>2, WFMin
<1>4. ASSUME NEW y \in T PROVE x <= y
  <2>1. x \in Nat /\ y \in Nat /\ <<y, x>> \notin Less
    BY <1>3
  <2>2. ~(y < x)
    BY <2>1 DEF Less
  <2> QED  BY <2>1, <2>2
<1> QED  BY <1>4

LEMMA LastExists ==
  ASSUME NEW X, NEW s \in Seq(X), NEW v, NEW k \in DOMAIN s, s[k].n = v
  PROVE  \E j : Last(s, v, j)
<1> DEFINE T == {i \in Nat : \E j \in DOMAIN s : s[j].n = v /\ i = Len(s) - j}
<1>1. Len(s) \in Nat /\ DOMAIN s = 1 .. Len(s)
  OBVIOUS
<1>2. Len(s) - k \in T
  BY <1>1
<1>3. T \in SUBSET Nat /\ T # {}
  BY <1>2
<1>4. PICK i \in T : \A y \in T : i <= y
  BY <1>3, LeastNumber
<1>5. PICK j \in DOMAIN s : s[j].n = v /\ i = Len(s) - j
  BY <1>4
<1>6. ASSUME NEW h \in DOMAIN s, h > j PROVE s[h].n # v
  <2>1. SUFFICES ASSUME s[h].n = v PROVE FALSE
    OBVIOUS
  <2>2. Len(s) - h \in T /\ Len(s) - h < i
    BY <1>1, <1>5, <1>6, <2>1
  <2> QED  BY <1>1, <1>4, <1>5, <2>2
<1> QED  BY <1>5, <1>6 DEF Last

LEMMA TableLast ==
  ASSUME NEW X, NEW s \in Seq(X), NEW v \in NameSet, NEW j, Last(s, v, j)
  PROVE  Table(s)[v] = s[j].c
<1> DEFINE c == CHOOSE i \in DOMAIN s : s[i].n = v /\ \A h \in DOMAIN s : h > i => s[h].n # v
<1>1. c \in DOMAIN s /\ s[c].n = v /\ \A h \in DOMAIN s : h > c => s[h].n # v
  BY DEF Last
<1>2. DOMAIN s = 1 .. Len(s) /\ Len(s) \in Nat
  OBVIOUS
<1>3. Table(s)[v] = s[c].c
  BY DEF Table, Last
<1> HIDE DEF c
<1>4. c = j
  BY <1>1, <1>2 DEF Last
<1> QED  BY <1>3, <1>4

LEMMA TableNone ==
  ASSUME NEW s, NEW v \in NameSet, \A j \in DOMAIN s : s[j].n # v
  PROVE  Table(s)[v] = "none"
  BY DEF Table

(* Entries of category c for the names of V on top of a table. *)
Adds(t, V, c) ==
  /\ \A j \in DOMAIN t : t[j].c = c
  /\ \A v \in NameSet : v \in V <=> \E j \in DOMAIN t : t[j].n = v

LEMMA TableOver ==
  ASSUME NEW X, NEW s \in Seq(X), NEW t \in Seq(X), NEW c, NEW V, Adds(t, V, c),
         NEW v \in NameSet
  PROVE  /\ v \in V => Table(s \o t)[v] = c
         /\ v \notin V => Table(s \o t)[v] = Table(s)[v]
<1> DEFINE u == s \o t
<1>0. /\ \A j \in DOMAIN t : t[j].c = c
      /\ v \in V <=> \E j \in DOMAIN t : t[j].n = v
  BY DEF Adds
<1>1. /\ u \in Seq(X) /\ Len(u) = Len(s) + Len(t) /\ Len(s) \in Nat /\ Len(t) \in Nat
      /\ DOMAIN s = 1 .. Len(s) /\ DOMAIN t = 1 .. Len(t) /\ DOMAIN u = 1 .. Len(u)
      /\ \A i \in 1 .. Len(s) : u[i] = s[i]
      /\ \A i \in 1 .. Len(t) : u[Len(s) + i] = t[i]
  OBVIOUS
<1> HIDE DEF u
<1>2. CASE \E j \in DOMAIN t : t[j].n = v
  <2>1. PICK j : Last(t, v, j)
    BY <1>2, LastExists
  <2>2. Last(u, v, Len(s) + j)
    <3>1. Len(s) + j \in DOMAIN u /\ u[Len(s) + j].n = v
      BY <1>1, <2>1 DEF Last
    <3>2. ASSUME NEW i \in DOMAIN u, i > Len(s) + j PROVE u[i].n # v
      <4> DEFINE h == i - Len(s)
      <4>1. h \in DOMAIN t /\ h > j /\ i = Len(s) + h
        BY <1>1, <2>1, <3>2 DEF Last
      <4> HIDE DEF h
      <4> QED  BY <1>1, <2>1, <4>1 DEF Last
    <3> QED  BY <3>1, <3>2 DEF Last
  <2>3. Table(u)[v] = u[Len(s) + j].c
    BY <1>1, <2>2, TableLast
  <2>4. u[Len(s) + j].c = c
    BY <1>0, <1>1, <2>1 DEF Last
  <2> QED  BY <1>0, <1>2, <2>3, <2>4 DEF u
<1>3. CASE ~(\E j \in DOMAIN t : t[j].n = v) /\ \E j \in DOMAIN s : s[j].n = v
  <2>1. PICK j : Last(s, v, j)
    BY <1>3, LastExists
  <2>2. Last(u, v, j)
    <3>1. j \in DOMAIN u /\ u[j] = s[j] /\ u[j].n = v
      BY <1>1, <2>1 DEF Last
    <3>2. ASSUME NEW i \in DOMAIN u, i > j PROVE u[i].n # v
      <4>1. CASE i <= Len(s)
        <5>1. i \in DOMAIN s /\ u[i] = s[i]
          BY <1>1, <4>1
        <5> QED  BY <2>1, <3>2, <5>1 DEF Last
      <4>2. CASE i > Len(s)
        <5> DEFINE h == i - Len(s)
        <5>1. h \in DOMAIN t /\ i = Len(s) + h
          BY <1>1, <4>2
        <5> HIDE DEF h
        <5> QED  BY <1>1, <1>3, <5>1
      <4> QED  BY <1>1, <4>1, <4>2
    <3> QED  BY <3>1, <3>2 DEF Last
  <2>3. Table(u)[v] = u[j].c /\ Table(s)[v] = s[j].c /\ u[j] = s[j]
    BY <1>1, <2>1, <2>2, TableLast, ZenonT(30) DEF Last
  <2> QED  BY <1>0, <1>3, <2>3 DEF u
<1>4. CASE ~(\E j \in DOMAIN t : t[j].n = v) /\ ~(\E j \in DOMAIN s : s[j].n = v)
  <2>1. ASSUME NEW i \in DOMAIN u PROVE u[i].n # v
    <3>1. CASE i <= Len(s)
      BY <1>1, <1>4, <3>1
    <3>2. CASE i > Len(s)
      <4> DEFINE h == i - Len(s)
      <4>1. h \in DOMAIN t /\ i = Len(s) + h
        BY <1>1, <3>2
      <4> HIDE DEF h
      <4> QED  BY <1>1, <1>4, <4>1
    <3> QED  BY <1>1, <3>1, <3>2
  <2>2. Table(u)[v] = "none" /\ Table(s)[v] = "none"
    BY <1>4, <2>1, TableNone
  <2> QED  BY <1>0, <1>4, <2>2 DEF u
<1> QED  BY <1>2, <1>3, <1>4

(* Entries on top are out of the reach of the truncations on the stack. *)
LEMMA BelowKept ==
  ASSUME NEW X, NEW s \in Seq(X), NEW t \in Seq(X), NEW m \in Nat, m <= Len(s)
  PROVE  SubSeq(s \o t, 1, m) = SubSeq(s, 1, m)
  OBVIOUS

----------------------------------------------------------------------------
(* Handlers that change the table or the depth of `with': the walk over    *)
(* the new stack starts with the new table and depth.                      *)
LEMMA ChangeFlow ==
  ASSUME TypeOK, FlowInv, status = "running", todo # <<>>, UNCHANGED <<status, acc>>,
         \A j \in 1 .. Len(Tail(todo)) : Tail(todo)[j].t = "trunc" =>
           Table(SubSeq(vars', 1, Tail(todo)[j].len))
             = Table(SubSeq(vars, 1, Tail(todo)[j].len)),
         \A q, r, e : /\ IsState(q) /\ q.L = Table(vars) /\ q.w = with_stack
                      /\ Moves(Head(todo), q, r, vars) /\ Path(Tail(todo), r, e, vars')
                      => Path(todo', State(q.fr, q.rest, Table(vars'), with_stack'), e, vars')
  PROVE  FlowInv'
<1>1. PICK p, q, r, e :
           /\ IsState(p) /\ IsState(q) /\ p.fr = q.fr /\ p.rest = q.rest
           /\ q.L = Table(vars) /\ q.w = with_stack
           /\ Path(acc, Start0, p, <<>>)
           /\ Moves(Head(todo), q, r, vars) /\ Path(Tail(todo), r, e, vars)
           /\ e.rest = <<>>
  BY HeadMoves
<1>2. Path(Tail(todo), r, e, vars')
  BY <1>1, OtherTable
<1> DEFINE g == State(q.fr, q.rest, Table(vars'), with_stack')
<1>3. Path(todo', g, e, vars')
  BY <1>1, <1>2
<1>4. IsState(g) /\ g.fr = q.fr /\ g.rest = q.rest /\ g.L = Table(vars') /\ g.w = with_stack'
  BY <1>1 DEF State, IsState
<1> HIDE DEF g
<1>5. status' = "running" /\ acc' = acc
  OBVIOUS
<1> QED  BY <1>1, <1>3, <1>4, <1>5 DEF FlowInv

(* What the stack says of the truncations below its first element. *)
LEMMA TailTruncs ==
  ASSUME Inv, todo # <<>>, NEW j \in 1 .. Len(Tail(todo)), Tail(todo)[j].t = "trunc"
  PROVE  /\ Tail(todo)[j].len \in Nat /\ Tail(todo)[j].len <= Len(vars)
         /\ Head(todo).t = "trunc" => /\ Head(todo).len \in Nat
                                      /\ Tail(todo)[j].len <= Head(todo).len
                                      /\ Head(todo).len <= Len(vars)
<1>1. todo \in Seq(Item)
  BY DEF Inv, TypeOK
<1>2. /\ Head(todo) = todo[1] /\ Tail(todo)[j] = todo[j + 1] /\ j + 1 \in 1 .. Len(todo)
      /\ 1 \in 1 .. Len(todo) /\ 1 < j + 1
  BY <1>1
<1>3. todo[1] \in Item /\ todo[j + 1] \in Item
  BY <1>1, <1>2
<1>4. \A x \in Item : x.t = "trunc" => x.len \in Nat
  BY ItemLen
<1> QED  BY <1>2, <1>3, <1>4 DEF Inv, Truncs

LEMMA TruncateVarsFlow == ASSUME Inv, FlowInv, TruncateVars PROVE FlowInv'
<1> DEFINE m == Head(todo).len
<1>1. /\ status = "running" /\ todo # <<>> /\ Head(todo).t = "trunc" /\ todo' = Tail(todo)
      /\ with_stack' = with_stack /\ acc' = acc /\ TypeOK
  BY DEF TruncateVars, Running, Inv
<1>2. m \in Nat /\ m <= Len(vars)
  <2>1. todo \in Seq(Item)
    BY DEF Inv, TypeOK
  <2>2. Head(todo) = todo[1] /\ 1 \in 1 .. Len(todo) /\ todo[1] \in Item
    BY <1>1, <2>1
  <2> QED  BY <1>1, <2>2, ItemLen DEF Inv, Truncs
<1>3. status' = status /\ vars' = SubSeq(vars, 1, m)
  BY <1>2 DEF TruncateVars
<1>4. ASSUME NEW j \in 1 .. Len(Tail(todo)), Tail(todo)[j].t = "trunc"
      PROVE  Table(SubSeq(vars', 1, Tail(todo)[j].len))
               = Table(SubSeq(vars, 1, Tail(todo)[j].len))
  <2> DEFINE k == Tail(todo)[j].len
  <2>1. k \in Nat /\ k <= m
    BY <1>1, <1>4, TailTruncs
  <2> HIDE DEF k, m
  <2>2. SubSeq(SubSeq(vars, 1, m), 1, k) = SubSeq(vars, 1, k)
    <3> DEFINE VV == [n : NameSet \cup {DFL_VARS[i].n : i \in DOMAIN DFL_VARS}, c : IdentCateg]
    <3>1. vars \in Seq(VV)
      BY DEF Inv, TypeOK
    <3> HIDE DEF VV
    <3> QED  BY <1>2, <2>1, <3>1
  <2> QED  BY <1>3, <2>2 DEF k
<1>5. ASSUME NEW q, NEW r, NEW e, q.w = with_stack, Moves(Head(todo), q, r, vars),
             Path(Tail(todo), r, e, vars')
      PROVE  Path(todo', State(q.fr, q.rest, Table(vars'), with_stack'), e, vars')
  <2>1. r = State(q.fr, q.rest, Table(SubSeq(vars, 1, m)), q.w)
    BY <1>1, <1>5 DEF Moves
  <2> QED  BY <1>1, <1>3, <1>5, <2>1
<1> HIDE DEF m
<1> QED  BY <1>1, <1>3, <1>4, <1>5, ChangeFlow

LEMMA TableDomain ==
  ASSUME NEW s PROVE Table(s) = [v \in NameSet |-> Table(s)[v]]
  BY DEF Table

(* Entries are only pushed: the truncations below are not affected. *)
LEMMA PushedOver ==
  ASSUME Inv, todo # <<>>, NEW X, vars \in Seq(X), NEW t \in Seq(X), vars' = vars \o t
  PROVE  \A j \in 1 .. Len(Tail(todo)) : Tail(todo)[j].t = "trunc" =>
           Table(SubSeq(vars', 1, Tail(todo)[j].len))
             = Table(SubSeq(vars, 1, Tail(todo)[j].len))
  BY TailTruncs, BelowKept

LEMMA RegisterKeyFlow == ASSUME Inv, FlowInv, RegisterKey PROVE FlowInv'
<1> DEFINE h == Head(todo)
           K == h.keys
           c == h.categ
           B == IF c = "LetLetVar" THEN K ELSE {}
<1>1. status = "running" /\ todo # <<>> /\ h.t = "keys" /\ TypeOK
  BY DEF RegisterKey, Running, Inv
<1>2. ASSUME NEW q, NEW r, Moves(Head(todo), q, r, vars)
      PROVE  /\ "mrg" \notin q.fr.has /\ B \subseteq q.fr.D
             /\ r = State(Plus(q, B, {}).fr, q.rest,
                          [v \in NameSet |-> IF v \in K THEN c ELSE q.L[v]], q.w)
  <2>1. Open("merge", "").t # "keys"
    BY DEF Open
  <2> QED  BY <1>1, <1>2, <2>1 DEF Moves
<1>3. CASE K = {} /\ Replace(<<>>)
  <2>1. ASSUME NEW q, NEW r, IsState(q), q.L = Table(vars), Moves(Head(todo), q, r, vars)
        PROVE  Path(<<>>, q, r, vars)
    <3>1. r = State(Plus(q, {}, {}).fr, q.rest, [v \in NameSet |-> q.L[v]], q.w)
      BY <1>2, <1>3, <2>1
    <3>2. Plus(q, {}, {}).fr = q.fr
      BY <2>1, PlusNone
    <3>3. [v \in NameSet |-> q.L[v]] = q.L
      BY <2>1, TableDomain
    <3>4. r = q
      BY <2>1, <3>1, <3>2, <3>3 DEF IsState
    <3> QED  BY <3>4, NoPath
  <2> QED  BY <1>1, <1>3, <2>1, ReplaceFlow
<1>4. ASSUME NEW i \in DOMAIN Names, Names[i] \in K,
             vars' = Append(vars, [n |-> Names[i], c |-> c]),
             todo' = (IF c = "LetLetVar" THEN <<Decl(Names[i])>> ELSE <<>>)
                     \o <<Keys(K \ {Names[i]}, c)>> \o Tail(todo),
             UNCHANGED <<status, with_stack, acc>>
      PROVE  FlowInv'
  <2> DEFINE v == Names[i]
             X == [n : NameSet \cup {DFL_VARS[j].n : j \in DOMAIN DFL_VARS}, c : IdentCateg]
             en == [n |-> v, c |-> c]
             Y == X \cup {en}
             t == <<en>>
             k == Keys(K \ {v}, c)
             Z == IF c = "LetLetVar" THEN <<Decl(v)>> ELSE <<>>
  <2>1. v \in NameSet
    BY DEF NameSet
  <2>2. vars \in Seq(Y) /\ t \in Seq(Y) /\ vars' = vars \o t
    <3>1. vars \in Seq(X)
      BY <1>1 DEF TypeOK
    <3>2. en \in Y
      OBVIOUS
    <3> HIDE DEF X, en
    <3>3. vars \in Seq(Y)
      BY <3>1, SeqMonotonic
    <3>4. t \in Seq(Y)
      BY <3>2
    <3>5. Append(vars, en) = vars \o <<en>>
      BY <3>2, <3>3
    <3> QED  BY <1>4, <3>3, <3>4, <3>5 DEF en
  <2>3. Adds(t, {v}, c)
    <3>1. DOMAIN t = {1} /\ t[1] = en /\ en.c = c /\ en.n = v
      OBVIOUS
    <3> HIDE DEF t, en
    <3> QED  BY <3>1 DEF Adds
  <2> HIDE DEF Y, t, v
  <2>4. \A x \in NameSet : Table(vars')[x] = IF x = v THEN c ELSE Table(vars)[x]
    <3> HIDE DEF c, K, h
    <3>1. ASSUME NEW x \in NameSet
          PROVE  /\ x \in {v} => Table(vars \o t)[x] = c
                 /\ x \notin {v} => Table(vars \o t)[x] = Table(vars)[x]
      BY <2>2, <2>3, TableOver
    <3> QED  BY <2>2, <3>1
  <2>5. ASSUME NEW q, NEW r, NEW e, IsState(q), q.L = Table(vars), q.w = with_stack,
               Moves(Head(todo), q, r, vars), Path(Tail(todo), r, e, vars')
        PROVE  Path(todo', State(q.fr, q.rest, Table(vars'), with_stack'), e, vars')
    <3> DEFINE g == State(q.fr, q.rest, Table(vars'), with_stack')
               C == IF c = "LetLetVar" THEN {v} ELSE {}
               B1 == IF c = "LetLetVar" THEN K \ {v} ELSE {}
               f == Plus(g, C, {})
    <3>1. g.fr = q.fr /\ g.rest = q.rest /\ g.L = Table(vars') /\ g.w = q.w /\ IsState(g)
      BY <1>4, <2>5 DEF State, IsState
    <3>2. "mrg" \notin g.fr.has /\ B \subseteq g.fr.D
      BY <1>2, <2>5, <3>1
    <3> HIDE DEF g
    <3>3. Path(Z, g, f, vars')
      <4>1. CASE c = "LetLetVar"
        <5>1. v \in g.fr.D
          BY <1>4, <3>2, <4>1 DEF v
        <5>2. Moves(Decl(v), g, Plus(g, {v}, {}), vars')
          BY <3>2, <5>1 DEF Moves, Decl
        <5> QED  BY <4>1, <5>2, OnePath
      <4>2. CASE c # "LetLetVar"
        BY <3>1, <4>2, PlusNone, NoPath
      <4> QED  BY <4>1, <4>2
    <3>4. Moves(k, f, r, vars')
      <4>1. k.t = "keys" /\ k.keys = K \ {v} /\ k.categ = c
        BY DEF Keys
      <4>2. /\ f.fr.D = g.fr.D /\ f.fr.has = g.fr.has /\ f.rest = q.rest
            /\ f.L = Table(vars') /\ f.w = q.w
        BY <3>1, PlusFacts
      <4>3. C \cup B1 = B
        BY <1>4 DEF v
      <4>4. Plus(f, B1, {}) = Plus(g, B, {})
        <5>1. {} \cup {} = {}
          OBVIOUS
        <5>2. Plus(f, B1, {}) = Plus(g, C \cup B1, {} \cup {})
          BY PlusPlus
        <5> HIDE DEF f, C, B1, B
        <5> QED  BY <4>3, <5>1, <5>2
      <4>5. Plus(g, B, {}).fr = Plus(q, B, {}).fr
        BY <3>1 DEF Plus, State
      <4>6. [x \in NameSet |-> IF x \in K \ {v} THEN c ELSE f.L[x]]
              = [x \in NameSet |-> IF x \in K THEN c ELSE q.L[x]]
        <5> HIDE DEF f, c, K, h
        <5>1. ASSUME NEW x \in NameSet
              PROVE  (IF x \in K \ {v} THEN c ELSE f.L[x]) = (IF x \in K THEN c ELSE q.L[x])
          <6>1. f.L[x] = IF x = v THEN c ELSE q.L[x]
            BY <2>4, <2>5, <4>2
          <6>2. v \in K
            BY <1>4 DEF v
          <6> QED  BY <6>1, <6>2
        <5> QED  BY <5>1
      <4>7. r = State(Plus(f, B1, {}).fr, f.rest,
                      [x \in NameSet |-> IF x \in k.keys THEN k.categ ELSE f.L[x]], f.w)
        <5>1. r = State(Plus(q, B, {}).fr, q.rest,
                        [x \in NameSet |-> IF x \in K THEN c ELSE q.L[x]], q.w)
          BY <1>2, <2>5
        <5> HIDE DEF f, B, B1, k, K, c, h
        <5> QED  BY <4>1, <4>2, <4>4, <4>5, <4>6, <5>1
      <4>8. B1 \subseteq f.fr.D /\ "mrg" \notin f.fr.has
        BY <3>2, <4>2
      <4>9. B1 = IF k.categ = "LetLetVar" THEN k.keys ELSE {}
        BY <4>1
      <4> HIDE DEF f, B1, k
      <4> QED  BY <4>1, <4>7, <4>8, <4>9 DEF Moves
    <3> HIDE DEF f, k, Z
    <3>5. Path(Z \o <<k>>, g, r, vars')
      BY <3>3, <3>4, OnePath, ConcatPath
    <3>6. Path((Z \o <<k>>) \o Tail(todo), g, e, vars')
      BY <2>5, <3>5, ConcatPath
    <3>7. todo' = (Z \o <<k>>) \o Tail(todo)
      BY <1>4 DEF Z, k, v
    <3> QED  BY <3>6, <3>7 DEF g
  <2>6. \A j \in 1 .. Len(Tail(todo)) : Tail(todo)[j].t = "trunc" =>
           Table(SubSeq(vars', 1, Tail(todo)[j].len))
             = Table(SubSeq(vars, 1, Tail(todo)[j].len))
    BY <1>1, <2>2, PushedOver
  <2>7. UNCHANGED <<status, acc>>
    BY <1>4
  <2> QED  BY <1>1, <2>5, <2>6, <2>7, ChangeFlow
<1> QED  BY <1>3, <1>4 DEF RegisterKey

----------------------------------------------------------------------------
(* Functions: the arguments are in the table before the bracket opens.     *)
LEMMA AptBefore ==
  ASSUME NEW q, IsState(q), NEW B, NEW A, Apt(Plus(q, B, A)), Cov(Plus(q, B, A))
  PROVE  Apt(q) /\ Cov(q)
<1> DEFINE p == Plus(q, B, A)
<1>1. p.fr.has = q.fr.has /\ p.fr.bound = q.fr.bound /\ p.L = q.L /\ p.w = q.w
      /\ p.rest = q.rest
  BY PlusFacts
<1>2. Apt(p) /\ Cov(p)
  OBVIOUS
<1> HIDE DEF p
<1> QED  BY <1>1, <1>2 DEF Apt, Cov, Stacked

LEMMA LambdaOpens ==
  ASSUME NEW q, Apt(q), NEW L, NEW D, NEW E, NEW vs, Registers(L, q, D, "LambdaArg"),
         NEW g, g = State(q.fr, q.rest, L, q.w)
  PROVE  /\ Moves(Opening("lambda"), g, Into("lambda", g, D, E), vs)
         /\ Plus(Into("lambda", g, D, E), D, {}) = Within("lambda", q, D, E, L)
         /\ IsState(Into("lambda", g, D, E)) /\ Into("lambda", g, D, E).fr.D = D
         /\ Into("lambda", g, D, E).fr.E = E
         /\ Apt(Within("lambda", q, D, E, L)) /\ Cov(Within("lambda", q, D, E, L))
         /\ Firm(Plus(Within("lambda", q, D, E, L), {}, E))
<1> DEFINE o == Into("lambda", g, D, E)
           k == Into("lambda", q, D, E)
           i == Within("lambda", q, D, E, L)
<1>1. g.fr = q.fr /\ g.rest = q.rest /\ g.L = L /\ g.w = q.w /\ "mrg" \notin g.fr.has
  BY DEF State, Apt
<1>2. Moves(Opening("lambda"), g, o, vs)
  <2>1. MayOpen(Opening("lambda"), g)
    BY DEF MayOpen, Open, Opening, Screens, Passing, Delaying
  <2>2. \E D1, E1 : o = Enter("lambda", "", g, D1, E1)
    BY DEF Into
  <2>3. Opening("lambda").t = "open" /\ Opening("lambda").x = "lambda" /\ Opening("lambda").v = ""
    BY DEF Open, Opening
  <2> HIDE DEF o
  <2> QED  BY <1>1, <2>1, <2>2, <2>3 DEF Moves
<1>3. o.fr = k.fr /\ o.rest = Append(q.rest, q.fr) /\ o.L = L /\ o.w = q.w
  BY <1>1 DEF Into, Enter, Cov, Quiet, State
<1>4. Shape("lambda", g, D, E, L, o, Within("lambda", g, D, E, L),
            Plus(Within("lambda", g, D, E, L), {}, E))
  BY WithinFacts
<1>5. o.fr.D = D /\ o.fr.E = E
  BY <1>4 DEF Shape
<1>6. IsState(o)
  BY DEF Into, Enter, State, Frame, IsState
<1>7. Plus(o, D, {}) = i
  <2> HIDE DEF o, k
  <2>1. Plus(o, D, {}).fr = Plus(k, D, {}).fr
    BY <1>3 DEF Plus, State
  <2>2. Plus(o, D, {}).rest = o.rest /\ Plus(o, D, {}).L = L /\ Plus(o, D, {}).w = q.w
        /\ IsState(Plus(o, D, {}))
    BY <1>3, PlusFacts
  <2>3. i = State(Plus(k, D, {}).fr, Append(q.rest, q.fr), L, q.w)
    BY DEF Within, k
  <2> HIDE DEF i
  <2> QED  BY <1>3, <2>1, <2>2, <2>3 DEF IsState
<1>8. Way("lambda") = "LambdaArg" /\ Brings("lambda", D, E) = D
  BY DEF Way, Brings
<1>9. Apt(i) /\ Cov(i) /\ Firm(Plus(i, {}, E))
  <2>1. "lambda" # "block" /\ "lambda" # ATTRS_SCOPE
    BY DEF ATTRS_SCOPE
  <2>2. Registers(L, q, Brings("lambda", D, E), Way("lambda"))
    BY <1>8
  <2> QED  BY <2>1, <2>2, WithinMoves
<1> HIDE DEF o, i
<1>10. /\ Moves(Opening("lambda"), g, o, vs) /\ Plus(o, D, {}) = i /\ IsState(o)
       /\ o.fr.D = D /\ o.fr.E = E /\ Apt(i) /\ Cov(i) /\ Firm(Plus(i, {}, E))
  BY <1>2, <1>5, <1>6, <1>7, <1>9
<1> QED  BY <1>10 DEF o, i

LEMMA LambdaCloses ==
  ASSUME NEW q, Apt(q), NEW L, NEW D, NEW E, NEW vs, NEW m, NEW body,
         Table(SubSeq(vs, 1, m)) = q.L, Firm(Plus(Within("lambda", q, D, E, L), {}, E))
  PROVE  Path(<<Sub(body, WN), Truncate(m), Closing("lambda")>>,
              Plus(Within("lambda", q, D, E, L), {}, E), q, vs)
<1> DEFINE p == Plus(Within("lambda", q, D, E, L), {}, E)
           z == Plus(Within("lambda", q, D, E, q.L), {}, E)
<1>1. Moves(Sub(body, WN), p, p, vs)
  BY FirmSub
<1>2. z.fr = p.fr /\ z.rest = p.rest /\ z.L = q.L /\ p.w = z.w /\ p.w = q.w /\ p.L = L
      /\ IsState(z)
  <2>1. /\ Shape("lambda", q, D, E, L, Into("lambda", q, D, E), Within("lambda", q, D, E, L), p)
        /\ Shape("lambda", q, D, E, q.L, Into("lambda", q, D, E),
                 Within("lambda", q, D, E, q.L), z)
    BY WithinFacts
  <2>2. z.fr = p.fr
    <3>1. Within("lambda", q, D, E, L).fr = Within("lambda", q, D, E, q.L).fr
      BY DEF Within, State
    <3> QED  BY <3>1 DEF Plus, State
  <2> HIDE DEF p, z
  <2> QED  BY <2>1, <2>2 DEF Shape
<1>3. Moves(Closing("lambda"), z, q, vs)
  <2>1. q = State(q.fr, q.rest, q.L, q.w)
    BY DEF Apt, IsState
  <2> QED  BY <2>1, WithinClose
<1> HIDE DEF p, z
<1>4. Apt(p)
  BY DEF p, Firm
<1>5. Moves(Truncate(m), p, z, vs)
  <2>1. Truncate(m).t = "trunc" /\ Truncate(m).len = m
    BY DEF Truncate
  <2>2. z = State(p.fr, p.rest, Table(SubSeq(vs, 1, m)), p.w)
    BY <1>2 DEF IsState
  <2>3. "mrg" \notin p.fr.has
    BY <1>4 DEF Apt
  <2> QED  BY <2>1, <2>2, <2>3 DEF Moves
<1>6. Path(<<Sub(body, WN), Truncate(m), Closing("lambda")>>, p, q, vs)
  BY <1>1, <1>3, <1>5, ThreePath
<1> QED  BY <1>6 DEF p

(* The entries a function pushes, and the table with them. *)
LEMMA ArgsRegister ==
  ASSUME TypeOK, NEW t \in Seq(VarEntry), vars' = vars \o t, NEW D, Adds(t, D, "LambdaArg"),
         NEW q, q.L = Table(vars)
  PROVE  /\ Registers(Table(vars'), q, D, "LambdaArg")
         /\ Table(SubSeq(vars', 1, Len(vars))) = q.L
<1>1. vars \in Seq(VarEntry)
  BY DEF TypeOK, VarEntry
<1>2. SubSeq(vars \o t, 1, Len(vars)) = vars
  <2>1. Len(vars) \in Nat /\ Len(vars) <= Len(vars)
    BY <1>1
  <2>2. SubSeq(vars \o t, 1, Len(vars)) = SubSeq(vars, 1, Len(vars))
    BY <1>1, <2>1, BelowKept
  <2> QED  BY <1>1, <2>2
<1>3. ASSUME NEW x \in NameSet
      PROVE  /\ x \in D => Table(vars \o t)[x] = "LambdaArg"
             /\ x \notin D => Table(vars \o t)[x] = Table(vars)[x]
  BY <1>1, TableOver
<1> QED  BY <1>2, <1>3 DEF Registers

LEMMA Quintuple ==
  ASSUME NEW a, NEW b, NEW c, NEW d, NEW e
  PROVE  <<a, b>> \o <<c, d, e>> = <<a, b, c, d, e>>
<1> DEFINE u == <<a, b>> \o <<c, d, e>>
           w == <<a, b, c, d, e>>
           X == {a, b, c, d, e}
<1>1. <<a, b>> \in Seq(X) /\ <<c, d, e>> \in Seq(X) /\ w \in Seq(X)
  OBVIOUS
<1>2. u \in Seq(X) /\ Len(u) = 5 /\ u[1] = a /\ u[2] = b /\ u[3] = c /\ u[4] = d /\ u[5] = e
  BY <1>1, ConcatProperties
<1>3. Len(w) = 5 /\ w[1] = a /\ w[2] = b /\ w[3] = c /\ w[4] = d /\ w[5] = e
  OBVIOUS
<1> HIDE DEF u, w
<1>4. \A i \in 1 .. Len(u) : u[i] = w[i]
  BY <1>2, <1>3
<1> QED  BY <1>1, <1>2, <1>3, <1>4, SeqEqual DEF u, w

LEMMA LambdaIdentFlow == ASSUME Inv, FlowInv, LambdaIdent PROVE FlowInv'
<1> DEFINE i == N.arg.id
           t == <<LambdaArg(i)>>
           m == Len(vars)
           T == <<Sub(N.body, WN), Truncate(m), Closing("lambda")>>
<1>1. /\ status = "running" /\ todo # <<>> /\ Head(todo).t = "node" /\ TypeOK
      /\ UNCHANGED <<status, acc>> /\ with_stack' = with_stack
  BY DEF LambdaIdent, Visit, Running, Inv
<1>2. i \in NameSet
  <2>1. N \in Node /\ NodeShape(N) /\ N.k = "Lambda" /\ S \in Ctx
    BY VisitNode DEF LambdaIdent, Inv
  <2>2. N.arg \in NodeOpt /\ N.arg.k = "Ident"
    BY <2>1 DEF NodeShape, LambdaIdent
  <2>3. N.arg \in Node
    BY <2>2 DEF NodeOpt, None
  <2> QED  BY <2>2, <2>3, NodesAssumption DEF NodeShape
<1>3. vars \in Seq(VarEntry) /\ t \in Seq(VarEntry) /\ vars' = vars \o t
  <2>1. vars \in Seq(VarEntry)
    BY DEF Inv, TypeOK, VarEntry
  <2>2. LambdaArg(i) \in VarEntry
    BY <1>2 DEF LambdaArg, VarEntry, IdentCateg
  <2> QED  BY <2>1, <2>2, AppendIsConcat, Tuple1 DEF LambdaIdent
<1>4. Adds(t, {i}, "LambdaArg")
  <2>1. DOMAIN t = {1} /\ t[1] = LambdaArg(i) /\ LambdaArg(i).c = "LambdaArg" /\ LambdaArg(i).n = i
    BY DEF LambdaArg
  <2> HIDE DEF t
  <2> QED  BY <2>1 DEF Adds
<1>5. todo' = <<Opening("lambda"), Decl(i)>> \o T \o Tail(todo)
  <2>2. todo' = <<Opening("lambda"), Decl(i), Sub(N.body, WN), Truncate(m),
                  Closing("lambda")>> \o Tail(todo)
    BY DEF LambdaIdent, Opening, Closing
  <2> QED  BY <2>2, Quintuple
<1> HIDE DEF t, i
<1>6. ASSUME NEW q, NEW r, NEW e, q.L = Table(vars), q.w = with_stack,
             Moves(Head(todo), q, r, vars), Path(Tail(todo), r, e, vars')
      PROVE  Path(todo', State(q.fr, q.rest, Table(vars'), with_stack'), e, vars')
  <2>1. r = q /\ Apt(q)
    BY <1>1, <1>6 DEF Moves
  <2> DEFINE L == Table(vars')
             g == State(q.fr, q.rest, L, q.w)
             o == Into("lambda", g, {i}, {})
             p == Within("lambda", q, {i}, {}, L)
  <2>2. Registers(L, q, {i}, "LambdaArg") /\ Table(SubSeq(vars', 1, m)) = q.L
    BY <1>1, <1>3, <1>4, <1>6, ArgsRegister
  <2> HIDE DEF m, L
  <2>3. /\ Moves(Opening("lambda"), g, o, vars') /\ Plus(o, {i}, {}) = p /\ IsState(o)
        /\ o.fr.D = {i} /\ Apt(p) /\ Cov(p) /\ Firm(Plus(p, {}, {}))
    BY <2>1, <2>2, LambdaOpens, SMTT(20)
  <2>4. Path(T, Plus(p, {}, {}), q, vars')
    BY <2>1, <2>2, <2>3, LambdaCloses
  <2> HIDE DEF o, p, T
  <2>5. Plus(p, {}, {}) = p
    BY <2>3, PlusNone DEF Apt
  <2>6. Moves(Decl(i), o, p, vars')
    <3>1. Apt(o)
      BY <2>3, AptBefore
    <3> QED  BY <2>3, <3>1, DeclMoves
  <2>7. Path(<<Opening("lambda"), Decl(i)>>, g, p, vars')
    BY <2>3, <2>6, TwoPath
  <2>8. Path(<<Opening("lambda"), Decl(i)>> \o T, g, q, vars')
    BY <2>4, <2>5, <2>7, ConcatPath
  <2>9. Path(todo', g, e, vars')
    BY <1>5, <1>6, <2>1, <2>8, ConcatPath
  <2> QED  BY <1>1, <1>6, <2>9 DEF L
<1>7. \A j \in 1 .. Len(Tail(todo)) : Tail(todo)[j].t = "trunc" =>
         Table(SubSeq(vars', 1, Tail(todo)[j].len))
           = Table(SubSeq(vars, 1, Tail(todo)[j].len))
  BY <1>1, <1>3, PushedOver
<1> QED  BY <1>1, <1>6, <1>7, ChangeFlow

(* Declarations, one for each name of a sequence. *)
LEMMA DeclsPath ==
  ASSUME NEW X, NEW s \in Seq(X), NEW q, Apt(q), NEW V,
         \A v : v \in V <=> \E j \in DOMAIN s : s[j] = v, V \subseteq q.fr.D, NEW vs
  PROVE  Path([j \in DOMAIN s |-> Decl(s[j])], q, Plus(q, V, {}), vs)
<1> DEFINE M == [j \in DOMAIN s |-> Decl(s[j])]
           Y == {M[j] : j \in DOMAIN s}
           B == [j \in DOMAIN s |-> {s[j]}]
           A == [j \in DOMAIN s |-> {}]
<1>1. M \in [DOMAIN s -> Y]
  OBVIOUS
<1>2. \A j \in DOMAIN s : M[j] = Decl(s[j])
  OBVIOUS
<1> HIDE DEF Y, M
<1>3. M \in Seq(Y)
  BY <1>1, MapSeq
<1>4. DOMAIN s = 1 .. Len(M)
  BY <1>1, <1>3
<1>5. ASSUME NEW j \in 1 .. Len(M), NEW C, NEW Z
      PROVE  Moves(M[j], Plus(q, C, Z), Plus(q, C \cup B[j], Z \cup A[j]), vs)
  <2> DEFINE v == s[j]
             p == Plus(q, C, Z)
  <2>1. v \in q.fr.D /\ B[j] = {v} /\ A[j] = {} /\ M[j] = Decl(v)
    BY <1>2, <1>4
  <2>2. Apt(p) /\ p.fr.D = q.fr.D
    BY PlusApt, PlusFacts
  <2>3. Plus(p, {v}, {}) = Plus(q, C \cup {v}, Z \cup {})
    BY PlusPlus
  <2> HIDE DEF p, v
  <2>4. Moves(M[j], p, Plus(p, {v}, {}), vs)
    BY <2>1, <2>2, DeclMoves
  <2> QED  BY <2>1, <2>3, <2>4 DEF p
<1>6. /\ \A v : v \in V <=> \E j \in 1 .. Len(M) : v \in B[j]
      /\ \A v : v \in {} <=> \E j \in 1 .. Len(M) : v \in A[j]
  BY <1>4
<1> HIDE DEF B, A
<1>7. IsState(q)
  BY DEF Apt
<1>8. \A j \in 1 .. Len(M) : \A C, Z :
        Moves(M[j], Plus(q, C, Z), Plus(q, C \cup B[j], Z \cup A[j]), vs)
  BY <1>5
<1>9. Path(M, q, Plus(q, V, {}), vs)
  BY <1>3, <1>6, <1>7, <1>8, PlusAll
<1> QED  BY <1>9 DEF M

LEMMA FormalsPath ==
  ASSUME NEW X, NEW s \in Seq(X), NEW q, Apt(q), NEW V,
         \A v : v \in V <=> \E j \in DOMAIN s : s[j].name = v,
         V \subseteq q.fr.D, V \subseteq q.fr.E, NEW vs
  PROVE  Path([j \in DOMAIN s |-> Formal(s[j])], q, Plus(q, V, V), vs)
<1> DEFINE M == [j \in DOMAIN s |-> Formal(s[j])]
           Y == {M[j] : j \in DOMAIN s}
           B == [j \in DOMAIN s |-> {s[j].name}]
<1>1. M \in [DOMAIN s -> Y]
  OBVIOUS
<1>2. \A j \in DOMAIN s : M[j] = Formal(s[j])
  OBVIOUS
<1> HIDE DEF Y, M
<1>3. M \in Seq(Y)
  BY <1>1, MapSeq
<1>4. DOMAIN s = 1 .. Len(M)
  BY <1>1, <1>3
<1>5. ASSUME NEW j \in 1 .. Len(M), NEW C, NEW Z
      PROVE  Moves(M[j], Plus(q, C, Z), Plus(q, C \cup B[j], Z \cup B[j]), vs)
  <2> DEFINE v == s[j].name
             p == Plus(q, C, Z)
  <2>1. v \in q.fr.D /\ v \in q.fr.E /\ B[j] = {v} /\ M[j] = Formal(s[j])
    BY <1>2, <1>4
  <2>2. Apt(p) /\ p.fr.D = q.fr.D /\ p.fr.E = q.fr.E
    BY PlusApt, PlusFacts
  <2>3. Plus(p, {v}, {v}) = Plus(q, C \cup {v}, Z \cup {v})
    BY PlusPlus
  <2>4. M[j].t = "formal" /\ M[j].formal.name = v
    BY <2>1 DEF Formal
  <2> HIDE DEF p, v
  <2>5. Moves(M[j], p, Plus(p, {v}, {v}), vs)
    BY <2>1, <2>2, <2>4 DEF Moves, Apt
  <2> QED  BY <2>1, <2>3, <2>5 DEF p
<1>6. \A v : v \in V <=> \E j \in 1 .. Len(M) : v \in B[j]
  BY <1>4
<1> HIDE DEF B
<1>7. IsState(q)
  BY DEF Apt
<1>8. \A j \in 1 .. Len(M) : \A C, Z :
        Moves(M[j], Plus(q, C, Z), Plus(q, C \cup B[j], Z \cup B[j]), vs)
  BY <1>5
<1>9. Path(M, q, Plus(q, V, V), vs)
  BY <1>3, <1>6, <1>7, <1>8, PlusAll
<1> QED  BY <1>9 DEF M

(* `let x = await arg;': the await of the argument holds nothing else. *)
LEMMA AwaitMoves ==
  ASSUME NEW q, Apt(q), Cov(q), NEW vs
  PROVE  Path(<<Opening("await"), Closing("await")>>, q, q, vs)
<1>1. "await" # "set"
  OBVIOUS
<1>2. Moves(Open("await", ""), q, In("await", q), vs)
  BY <1>1, OpenMoves DEF Apt
<1>3. Moves(Close("await", ""), In("await", q), q, vs)
  BY <1>1, CloseMoves DEF Apt
<1> QED  BY <1>2, <1>3, TwoPath DEF Opening, Closing

LEMMA LambdaPatternPath ==
  ASSUME NEW X, NEW at \in Seq(X), NEW fs \in Seq(X), NEW body, NEW m, NEW vs, NEW L,
         NEW V, \A v : v \in V <=> \E j \in DOMAIN at : at[j] = v,
         NEW W, \A v : v \in W <=> \E j \in DOMAIN fs : fs[j].name = v,
         NEW q, Apt(q), Registers(L, q, V \cup W, "LambdaArg"),
         Table(SubSeq(vs, 1, m)) = q.L
  PROVE  Path(<<Opening("lambda")>> \o [j \in DOMAIN at |-> Decl(at[j])]
                \o <<Opening("await"), Closing("await")>>
                \o [j \in DOMAIN fs |-> Formal(fs[j])]
                \o <<Sub(body, WN), Truncate(m), Closing("lambda")>>,
              State(q.fr, q.rest, L, q.w), q, vs)
<1> DEFINE D == V \cup W
           g == State(q.fr, q.rest, L, q.w)
           o == Into("lambda", g, D, W)
           p == Within("lambda", q, D, W, L)
           T2 == [j \in DOMAIN at |-> Decl(at[j])]
           T3 == <<Opening("await"), Closing("await")>>
           T4 == [j \in DOMAIN fs |-> Formal(fs[j])]
           T5 == <<Sub(body, WN), Truncate(m), Closing("lambda")>>
           o1 == Plus(o, V, {})
<1>0. V \subseteq D /\ W \subseteq D /\ V \cup W = D
  OBVIOUS
<1>1. Registers(L, q, D, "LambdaArg")
  OBVIOUS
<1> HIDE DEF D
<1>2. /\ Moves(Opening("lambda"), g, o, vs) /\ Plus(o, D, {}) = p /\ IsState(o)
      /\ o.fr.D = D /\ o.fr.E = W /\ Apt(p) /\ Cov(p) /\ Firm(Plus(p, {}, W))
  <2>1. g = State(q.fr, q.rest, L, q.w)
    OBVIOUS
  <2> HIDE DEF g
  <2>2. Apt(q)
    OBVIOUS
  <2>3. Moves(Opening("lambda"), g, Into("lambda", g, D, W), vs)
    BY <1>1, <2>1, <2>2, LambdaOpens
  <2>4. Plus(Into("lambda", g, D, W), D, {}) = Within("lambda", q, D, W, L)
    BY <1>1, <2>1, <2>2, LambdaOpens
  <2>5. IsState(o) /\ o.fr.D = D /\ o.fr.E = W
    BY <1>1, <2>1, <2>2, LambdaOpens
  <2>6. Apt(p) /\ Cov(p) /\ Firm(Plus(p, {}, W))
    BY <1>1, <2>1, <2>2, LambdaOpens
  <2> QED  BY <2>3, <2>4, <2>5, <2>6
<1>3. Path(T5, Plus(p, {}, W), q, vs)
  BY <1>2, LambdaCloses
<1> HIDE DEF o, p, T5, g
<1>4. Apt(o) /\ Cov(o)
  BY <1>2, AptBefore
<1>5. Path(T2, o, o1, vs)
  BY <1>0, <1>2, <1>4, DeclsPath
<1>6. Apt(o1) /\ Cov(o1) /\ o1.fr.D = D /\ o1.fr.E = W
  BY <1>2, <1>4, PlusApt, PlusFacts
<1>7. Plus(o1, W, W) = Plus(p, {}, W)
  <2>1. Plus(o1, W, W) = Plus(o, V \cup W, {} \cup W)
    BY PlusPlus
  <2>2. Plus(p, {}, W) = Plus(o, D \cup {}, {} \cup W)
    BY <1>2, PlusPlus
  <2>3. D \cup {} = D
    OBVIOUS
  <2> QED  BY <1>0, <2>1, <2>2, <2>3
<1> HIDE DEF o1
<1>8. Path(T3, o1, o1, vs)
  BY <1>6, AwaitMoves
<1>9. Path(T4, o1, Plus(o1, W, W), vs)
  BY <1>0, <1>6, FormalsPath
<1> HIDE DEF T2, T3, T4
<1>10. Path(<<Opening("lambda")>> \o T2, g, o1, vs)
  BY <1>2, <1>5, OnePath, ConcatPath
<1>11. Path(<<Opening("lambda")>> \o T2 \o T3, g, o1, vs)
  BY <1>8, <1>10, ConcatPath
<1>12. Path(<<Opening("lambda")>> \o T2 \o T3 \o T4, g, Plus(p, {}, W), vs)
  BY <1>7, <1>9, <1>11, ConcatPath
<1>13. Path(<<Opening("lambda")>> \o T2 \o T3 \o T4 \o T5, g, q, vs)
  BY <1>3, <1>12, ConcatPath
<1> QED  BY <1>13 DEF T2, T3, T4, T5, g

LEMMA LambdaPatternFlow == ASSUME Inv, FlowInv, LambdaPattern PROVE FlowInv'
<1> DEFINE p == N.arg
           fs == p.formals
           at == IF p.at = "" THEN <<>> ELSE <<p.at>>
           A == [j \in DOMAIN at |-> LambdaArg(at[j])]
           B == [j \in DOMAIN fs |-> LambdaArg(fs[j].name)]
           V == {at[j] : j \in DOMAIN at}
           W == {fs[j].name : j \in DOMAIN fs}
           m == Len(vars)
           T == <<Opening("lambda")>> \o [j \in DOMAIN at |-> Decl(at[j])]
                \o <<Opening("await"), Closing("await")>>
                \o [j \in DOMAIN fs |-> Formal(fs[j])]
                \o <<Sub(N.body, WN), Truncate(m), Closing("lambda")>>
<1>1. /\ status = "running" /\ todo # <<>> /\ Head(todo).t = "node" /\ TypeOK
      /\ UNCHANGED <<status, acc>> /\ with_stack' = with_stack
  BY DEF LambdaPattern, Visit, Running, Inv
<1>2. p.at \in NameSet \cup {""} /\ fs \in Seq(PatEntry) /\ ~BadArg(p) /\ p.k = "Pattern"
  <2>1. N \in Node /\ NodeShape(N) /\ N.k = "Lambda" /\ S \in Ctx
    BY VisitNode DEF LambdaPattern, Inv
  <2>2. p \in NodeOpt /\ p.k = "Pattern" /\ ~BadArg(p)
    BY <2>1 DEF NodeShape, LambdaPattern, Visit, Malformed, N
  <2>3. p \in Node
    BY <2>2 DEF NodeOpt, None
  <2> QED  BY <2>2, <2>3, NodesAssumption DEF NodeShape
<1>3. \A j \in DOMAIN fs : fs[j].name \in NameSet
  <2>1. \A j \in DOMAIN fs : fs[j] \in PatEntry
    BY <1>2, Element
  <2> QED  BY <1>2, <2>1 DEF BadArg, PatEntry
<1>4. at \in Seq(NameSet)
  BY <1>2, Tuple0, Tuple1
<1>5. \A i \in NameSet : LambdaArg(i) \in VarEntry
  BY DEF LambdaArg, VarEntry, IdentCateg
<1>6. /\ vars' = (vars \o A) \o B /\ todo' = T \o Tail(todo)
  BY DEF LambdaPattern, Opening, Closing
<1> HIDE DEF at, fs, p
<1>7. A \in Seq(VarEntry)
  <2>1. \A j \in DOMAIN at : at[j] \in NameSet
    BY <1>4, Element
  <2>2. A \in [DOMAIN at -> VarEntry]
    BY <1>5, <2>1
  <2> HIDE DEF A
  <2> QED  BY <1>4, <2>2, MapSeq
<1>8. B \in Seq(VarEntry)
  <2>1. B \in [DOMAIN fs -> VarEntry]
    BY <1>3, <1>5
  <2> HIDE DEF B
  <2> QED  BY <1>2, <2>1, MapSeq
<1>9. \A j \in DOMAIN at : A[j].c = "LambdaArg" /\ A[j].n = at[j]
  BY DEF LambdaArg
<1>10. \A j \in DOMAIN fs : B[j].c = "LambdaArg" /\ B[j].n = fs[j].name
  BY DEF LambdaArg
<1>11. DOMAIN A = DOMAIN at /\ DOMAIN B = DOMAIN fs
  OBVIOUS
<1> HIDE DEF A, B
<1>12. Adds(A \o B, V \cup W, "LambdaArg")
  <2> DEFINE t == A \o B
  <2>1. /\ DOMAIN t = 1 .. (Len(A) + Len(B)) /\ DOMAIN A = 1 .. Len(A)
        /\ DOMAIN B = 1 .. Len(B) /\ Len(A) \in Nat /\ Len(B) \in Nat
        /\ \A i \in 1 .. Len(A) : t[i] = A[i]
        /\ \A i \in 1 .. Len(B) : t[Len(A) + i] = B[i]
    BY <1>7, <1>8
  <2> HIDE DEF t
  <2>2. ASSUME NEW j \in DOMAIN t
        PROVE  t[j].c = "LambdaArg" /\ t[j].n \in V \cup W
    <3>1. CASE j <= Len(A)
      <4>1. j \in DOMAIN A /\ t[j] = A[j]
        BY <2>1, <3>1
      <4> QED  BY <1>9, <1>11, <4>1
    <3>2. CASE j > Len(A)
      <4> DEFINE i == j - Len(A)
      <4>1. i \in 1 .. Len(B) /\ j = Len(A) + i
        BY <2>1, <3>2
      <4> HIDE DEF i
      <4>2. t[j] = B[i] /\ i \in DOMAIN fs
        BY <1>11, <2>1, <4>1
      <4> QED  BY <1>10, <4>2
    <3> QED  BY <2>1, <3>1, <3>2
  <2>3. ASSUME NEW v, v \in V PROVE \E j \in DOMAIN t : t[j].n = v
    <3>1. PICK i \in DOMAIN at : at[i] = v
      BY <2>3
    <3>2. i \in DOMAIN t /\ t[i] = A[i]
      BY <1>11, <2>1, <3>1
    <3> QED  BY <1>9, <3>1, <3>2
  <2>4. ASSUME NEW v, v \in W PROVE \E j \in DOMAIN t : t[j].n = v
    <3>1. PICK i \in DOMAIN fs : fs[i].name = v
      BY <2>4
    <3>2. Len(A) + i \in DOMAIN t /\ t[Len(A) + i] = B[i]
      BY <1>11, <2>1, <3>1
    <3> QED  BY <1>10, <3>1, <3>2
  <2> HIDE DEF V, W
  <2>5. Adds(t, V \cup W, "LambdaArg")
    BY <2>2, <2>3, <2>4 DEF Adds
  <2> QED  BY <2>5 DEF t
<1>13. vars \in Seq(VarEntry) /\ A \o B \in Seq(VarEntry) /\ vars' = vars \o (A \o B)
  <2>1. vars \in Seq(VarEntry)
    BY DEF Inv, TypeOK, VarEntry
  <2>2. (vars \o A) \o B = vars \o (A \o B)
    BY <1>7, <1>8, <2>1, ConcatAssociative
  <2> QED  BY <1>6, <1>7, <1>8, <2>1, <2>2, Concat2
<1>14. /\ \A v : v \in V <=> \E j \in DOMAIN at : at[j] = v
       /\ \A v : v \in W <=> \E j \in DOMAIN fs : fs[j].name = v
  OBVIOUS
<1> HIDE DEF V, W
<1>15. ASSUME NEW q, NEW r, NEW e, q.L = Table(vars), q.w = with_stack,
              Moves(Head(todo), q, r, vars), Path(Tail(todo), r, e, vars')
       PROVE  Path(todo', State(q.fr, q.rest, Table(vars'), with_stack'), e, vars')
  <2>1. r = q /\ Apt(q)
    BY <1>1, <1>15 DEF Moves
  <2> DEFINE L == Table(vars')
             g == State(q.fr, q.rest, L, q.w)
             X == NameSet \cup PatEntry
  <2>2. Registers(L, q, V \cup W, "LambdaArg") /\ Table(SubSeq(vars', 1, m)) = q.L
    BY <1>1, <1>12, <1>13, <1>15, ArgsRegister
  <2>3. at \in Seq(X) /\ fs \in Seq(X)
    BY <1>2, <1>4, SeqMonotonic
  <2> HIDE DEF m, L, X
  <2>4. Path(T, g, q, vars')
    BY <1>14, <2>1, <2>2, <2>3, LambdaPatternPath
  <2> HIDE DEF T
  <2>5. Path(todo', g, e, vars')
    BY <1>6, <1>15, <2>1, <2>4, ConcatPath
  <2> QED  BY <1>1, <1>15, <2>5 DEF L
<1>16. \A j \in 1 .. Len(Tail(todo)) : Tail(todo)[j].t = "trunc" =>
          Table(SubSeq(vars', 1, Tail(todo)[j].len))
            = Table(SubSeq(vars, 1, Tail(todo)[j].len))
  BY <1>1, <1>13, PushedOver
<1> QED  BY <1>1, <1>15, <1>16, ChangeFlow

(* `with': the depth is counted up before the bracket opens. *)
LEMMA WithOpens ==
  ASSUME NEW q, Apt(q), NEW k, NEW vs, NEW g, g = State(q.fr, q.rest, q.L, k)
  PROVE  /\ Moves(Opening("with"), g, In("with", g), vs) /\ Firm(In("with", g))
         /\ Moves(Unwith(q.w), In("with", g), In("with", q), vs)
<1> DEFINE i == In("with", g)
           u == In("with", q)
<1>0. "with" \notin Bindings /\ "with" \in Screens /\ "with" \in Shelters /\ "with" # "set"
      /\ "with" # "await"
  BY DEF Bindings, Screens, Shelters, AsyncFns, NIX_IN_SCOPE
<1>1. g.fr = q.fr /\ g.rest = q.rest /\ g.L = q.L /\ g.w = k
  BY DEF State
<1>2. Firm(u)
  BY <1>0, AptBracket
<1>3. i.fr = u.fr /\ i.rest = u.rest /\ i.L = q.L /\ i.w = k /\ IsState(i) /\ u.L = q.L /\ u.w = q.w
      /\ "inw" \in i.fr.has
  <2>1. i.rest = u.rest /\ i.L = q.L /\ i.w = k /\ u.L = q.L /\ u.w = q.w
    BY <1>1 DEF In, Enter, State
  <2>2. i.fr = u.fr
    BY <1>1 DEF In, Enter, State, Cov, Quiet
  <2>3. IsState(i) /\ "inw" \in i.fr.has
    BY DEF In, Enter, State, Frame, IsState
  <2> QED  BY <2>1, <2>2, <2>3
<1>4. Moves(Open("with", ""), g, i, vs)
  <2>1. "mrg" \notin g.fr.has
    BY <1>1 DEF Apt
  <2> QED  BY <1>0, <2>1, OpenMoves
<1> HIDE DEF i, u
<1>5. Firm(i)
  <2>1. Apt(u) /\ Cov(u) /\ Quiet(u)
    BY <1>2 DEF Firm
  <2>2. Apt(i)
    BY <1>3, <2>1 DEF Apt, Stacked
  <2> QED  BY <1>3, <2>1, <2>2 DEF Firm, Cov, Quiet
<1>6. Moves(Unwith(q.w), i, u, vs)
  <2>1. Unwith(q.w).t = "unwith" /\ Unwith(q.w).d = q.w
    BY DEF Unwith
  <2>2. u = State(i.fr, i.rest, i.L, q.w)
    BY <1>2, <1>3 DEF Firm, Apt, IsState
  <2>3. "mrg" \notin i.fr.has
    BY <1>5 DEF Firm, Apt
  <2> QED  BY <2>1, <2>2, <2>3 DEF Moves
<1> QED  BY <1>4, <1>5, <1>6 DEF i, u, Opening

LEMMA NamespacePath ==
  ASSUME NEW q, Apt(q), NEW n, NEW vs
  PROVE  Path((<<Close("with", ""), Open("ns", "")>> \o Use(n, WN)) \o <<Close("ns", "")>>,
              In("with", q), q, vs)
<1> DEFINE i == In("ns", q)
           U == Use(n, WN)
           A == <<Close("with", ""), Open("ns", "")>>
           C == <<Close("ns", "")>>
<1>0. /\ "with" \notin Bindings /\ "with" \in Screens /\ "with" # "set"
      /\ "ns" \notin Bindings /\ "ns" \in Screens /\ "ns" # "set" /\ "ns" \in Shelters
  BY DEF Bindings, Screens, Shelters, Gaps, NIX_IN_SCOPE
<1>1. Moves(Close("with", ""), In("with", q), q, vs)
  BY <1>0, AptBracket
<1>2. /\ Moves(Open("ns", ""), q, i, vs) /\ Moves(Close("ns", ""), i, q, vs)
      /\ Apt(i) /\ Cov(i)
  BY <1>0, AptBracket
<1> HIDE DEF i
<1>3. Path(A, In("with", q), i, vs)
  BY <1>1, <1>2, TwoPath
<1>4. Path(U, i, i, vs)
  BY <1>2, UsePath
<1>5. Path(C, i, q, vs)
  BY <1>2, OnePath
<1> HIDE DEF A, U, C
<1>6. Path(A \o U, In("with", q), i, vs)
  BY <1>3, <1>4, ConcatPath
<1>7. Path((A \o U) \o C, In("with", q), q, vs)
  BY <1>5, <1>6, ConcatPath
<1> QED  BY <1>7 DEF A, U, C

LEMMA WithFlow == ASSUME Inv, FlowInv, With PROVE FlowInv'
<1> DEFINE w == with_stack
           R == (<<Close("with", ""), Open("ns", "")>> \o Use(N.namespace, WN))
                  \o <<Close("ns", "")>>
           P == <<Opening("with"), Sub(N.body, WN)>>
<1>1. /\ status = "running" /\ todo # <<>> /\ Head(todo).t = "node" /\ TypeOK
      /\ UNCHANGED <<status, acc>> /\ with_stack' = w + 1 /\ vars' = vars
      /\ todo' = P \o (<<Unwith(w)>> \o (R \o Tail(todo)))
  BY DEF With, Visit, Running, Inv, Opening
<1>2. ASSUME NEW q, NEW r, NEW e, IsState(q), q.L = Table(vars), q.w = with_stack,
             Moves(Head(todo), q, r, vars), Path(Tail(todo), r, e, vars')
      PROVE  Path(todo', State(q.fr, q.rest, Table(vars'), with_stack'), e, vars')
  <2>1. r = q /\ Apt(q)
    BY <1>1, <1>2 DEF Moves
  <2> DEFINE g == State(q.fr, q.rest, q.L, w + 1)
             i == In("with", g)
             u == In("with", q)
  <2>2. /\ Moves(Opening("with"), g, i, vars') /\ Firm(i)
        /\ Moves(Unwith(w), i, u, vars')
    BY <1>2, <2>1, WithOpens
  <2>3. Path(R, u, q, vars')
    BY <2>1, NamespacePath
  <2> HIDE DEF g, i, u, R
  <2>4. Path(P, g, i, vars')
    BY <2>2, FirmSub, TwoPath
  <2>5. Path(<<Unwith(w)>>, i, u, vars')
    BY <2>2, OnePath
  <2> HIDE DEF P
  <2>6. Path(R \o Tail(todo), u, e, vars')
    BY <1>2, <2>1, <2>3, ConcatPath
  <2>7. Path(<<Unwith(w)>> \o (R \o Tail(todo)), i, e, vars')
    BY <2>5, <2>6, ConcatPath
  <2>8. Path(todo', g, e, vars')
    BY <1>1, <2>4, <2>7, ConcatPath
  <2>9. g = State(q.fr, q.rest, Table(vars'), with_stack')
    BY <1>1, <1>2 DEF g
  <2> QED  BY <2>8, <2>9
<1>3. \A j \in 1 .. Len(Tail(todo)) : Tail(todo)[j].t = "trunc" =>
         Table(SubSeq(vars', 1, Tail(todo)[j].len))
           = Table(SubSeq(vars, 1, Tail(todo)[j].len))
  BY <1>1
<1> HIDE DEF P, R
<1> QED  BY <1>1, <1>2, <1>3, ChangeFlow

LEMMA WithEndFlow == ASSUME Inv, FlowInv, WithEnd PROVE FlowInv'
<1>1. /\ status = "running" /\ todo # <<>> /\ Head(todo).t = "unwith" /\ TypeOK
      /\ UNCHANGED <<status, acc>> /\ with_stack' = with_stack - 1 /\ vars' = vars
      /\ todo' = Tail(todo)
  BY DEF WithEnd, Running, Inv
<1>2. Head(todo).d = with_stack - 1
  <2>1. todo \in Seq(Item) /\ with_stack \in Nat
    BY DEF Inv, TypeOK
  <2>2. 1 \in 1 .. Len(todo) /\ todo[1] = Head(todo) /\ todo[1] \in Item
    BY <1>1, <2>1
  <2>3. \A i \in 1 .. (1 - 1) : todo[i].t # "unwith"
    OBVIOUS
  <2>4. Withs(todo, with_stack) /\ RestoresWith(todo, with_stack)
    BY <1>1 DEF Inv, Restores
  <2>5. with_stack = todo[1].d + 1
    BY <1>1, <2>1, <2>2, <2>3, <2>4, InnermostWith
  <2>6. todo[1].d \in Nat
    BY <1>1, <2>2, ItemLen
  <2> QED  BY <2>2, <2>5, <2>6
<1>3. ASSUME NEW q, NEW r, NEW e, q.L = Table(vars), Moves(Head(todo), q, r, vars),
             Path(Tail(todo), r, e, vars')
      PROVE  Path(todo', State(q.fr, q.rest, Table(vars'), with_stack'), e, vars')
  <2>1. r = State(q.fr, q.rest, q.L, Head(todo).d)
    BY <1>1, <1>3 DEF Moves
  <2> QED  BY <1>1, <1>2, <1>3, <2>1
<1>4. \A j \in 1 .. Len(Tail(todo)) : Tail(todo)[j].t = "trunc" =>
         Table(SubSeq(vars', 1, Tail(todo)[j].len))
           = Table(SubSeq(vars, 1, Tail(todo)[j].len))
  BY <1>1
<1> QED  BY <1>1, <1>3, <1>4, ChangeFlow

----------------------------------------------------------------------------
(* The steps that move a token to the output, and the first and last ones. *)
LEMMA TokenMoves ==
  ASSUME NEW x \in Token, NEW q, NEW r, NEW vs, Moves(x, q, r, vs), IsState(q),
         NEW p, IsState(p), p.fr = q.fr, p.rest = q.rest, NEW us
  PROVE  /\ Moves(x, p, State(r.fr, r.rest, p.L, p.w), us)
         /\ r.L = q.L /\ r.w = q.w /\ IsState(r)
<1> DEFINE s == State(r.fr, r.rest, p.L, p.w)
<1>1. s.fr = r.fr /\ s.rest = r.rest /\ s.L = p.L /\ s.w = p.w
  BY DEF State
<1>2. x.t \in TokenKinds
  BY DEF Token
<1>3. "mrg" \in p.fr.has => x.t = "close" \/ x = Open("merge", "")
  BY DEF Moves
<1>4. CASE x.t = "open"
  <2>1. MayOpen(x, q) /\ \E D, E : r = Enter(x.x, x.v, q, D, E)
    BY <1>4 DEF Moves
  <2>2. PICK D, E : r = Enter(x.x, x.v, q, D, E)
    BY <2>1
  <2>3. s = Enter(x.x, x.v, p, D, E)
    <3>1. r.fr = Enter(x.x, x.v, p, D, E).fr
      BY <2>2 DEF Enter, State, Cov, Quiet
    <3>2. r.rest = Append(p.rest, p.fr)
      BY <2>2 DEF Enter, State
    <3> QED  BY <3>1, <3>2 DEF Enter, State
  <2>4. MayOpen(x, p)
    BY <2>1 DEF MayOpen, Cov, Quiet
  <2>5. r.L = q.L /\ r.w = q.w /\ IsState(r)
    BY <2>2 DEF Enter, State, Frame, IsState
  <2> HIDE DEF s
  <2>6. \E D1, E1 : s = Enter(x.x, x.v, p, D1, E1)
    BY <2>3
  <2>7. Moves(x, p, s, us)
    BY <1>3, <1>4, <2>4, <2>6 DEF Moves
  <2> QED  BY <2>5, <2>7 DEF s
<1>5. CASE x.t = "close"
  <2>1. Closes(x, q, r)
    BY <1>5 DEF Moves
  <2>2. PICK f : /\ q.rest = Append(r.rest, f) /\ IsState(State(f, r.rest, q.L, q.w))
                 /\ r = IF x.x = "set" THEN Plus(State(f, r.rest, q.L, q.w), {}, {x.v})
                        ELSE State(f, r.rest, q.L, q.w)
    BY <2>1 DEF Closes
  <2> DEFINE o == State(f, r.rest, q.L, q.w)
             k == State(f, r.rest, p.L, p.w)
  <2>3. o.fr = f /\ o.rest = r.rest /\ o.L = q.L /\ o.w = q.w /\ k.fr = f /\ k.rest = r.rest
        /\ k.L = p.L /\ k.w = p.w
    BY DEF State
  <2>4. IsState(k)
    BY <2>2, <2>3 DEF IsState
  <2>5. r.L = q.L /\ r.w = q.w /\ IsState(r)
    <3> HIDE DEF o
    <3>1. r = o \/ r = Plus(o, {}, {x.v})
      BY <2>2 DEF o
    <3>2. IsState(o)
      BY <2>2 DEF o
    <3> QED  BY <2>3, <3>1, <3>2, PlusFacts
  <2>6. s = IF x.x = "set" THEN Plus(k, {}, {x.v}) ELSE k
    <3>1. CASE x.x = "set"
      <4>1. r.fr = Plus(k, {}, {x.v}).fr
        <5>1. r = Plus(o, {}, {x.v})
          BY <2>2, <3>1
        <5> HIDE DEF o, k
        <5> QED  BY <2>3, <5>1 DEF Plus, State
      <4>2. Plus(k, {}, {x.v}) = State(Plus(k, {}, {x.v}).fr, r.rest, p.L, p.w)
        BY <2>3 DEF Plus, State
      <4> HIDE DEF k
      <4> QED  BY <3>1, <4>1, <4>2
    <3>2. CASE x.x # "set"
      <4>1. r.fr = f
        BY <2>2, <2>3, <3>2
      <4> QED  BY <3>2, <4>1
    <3> QED  BY <3>1, <3>2
  <2>7. Closes(x, p, s)
    <3>1. p.rest = Append(s.rest, f) /\ k = State(f, s.rest, p.L, p.w)
      BY <1>1, <2>2
    <3>2. p.fr.x = x.x /\ p.fr.v = x.v /\ p.fr.d = p.fr.D /\ p.fr.a = p.fr.E
      BY <2>1 DEF Closes
    <3>3. Stacked(s)
      BY <1>1, <2>1 DEF Closes, Stacked
    <3> HIDE DEF s, k
    <3> QED  BY <2>4, <2>6, <3>1, <3>2, <3>3 DEF Closes
  <2> HIDE DEF s
  <2>8. Moves(x, p, s, us)
    BY <1>5, <2>7 DEF Moves
  <2> QED  BY <2>5, <2>8 DEF s
<1>6. CASE x.t = "decl"
  <2>1. x.v \in q.fr.D /\ r = Plus(q, {x.v}, {})
    BY <1>6 DEF Moves
  <2>2. s = Plus(p, {x.v}, {})
    BY <2>1 DEF Plus, State
  <2>3. r.L = q.L /\ r.w = q.w /\ IsState(r)
    BY <2>1, PlusFacts
  <2> HIDE DEF s
  <2>4. Moves(x, p, s, us)
    BY <1>3, <1>6, <2>1, <2>2 DEF Moves
  <2> QED  BY <2>3, <2>4 DEF s
<1>7. CASE x.t \in {"read", "lit"}
  <2>1. r = q
    BY <1>7 DEF Moves
  <2>2. s = p
    BY <2>1 DEF IsState
  <2> HIDE DEF s
  <2>3. Moves(x, p, s, us)
    BY <1>3, <1>7, <2>1, <2>2 DEF Moves
  <2> QED  BY <2>1, <2>3 DEF s
<1> QED  BY <1>2, <1>4, <1>5, <1>6, <1>7 DEF TokenKinds

LEMMA PushFlow == ASSUME TypeOK, FlowInv, Push PROVE FlowInv'
<1>1. /\ status = "running" /\ todo # <<>> /\ Head(todo).t \in TokenKinds
      /\ acc' = Append(acc, Head(todo)) /\ todo' = Tail(todo)
      /\ status' = status /\ vars' = vars /\ with_stack' = with_stack
  BY DEF Push
<1>2. Head(todo) \in Token
  <2>1. Head(todo) \in Item
    BY <1>1 DEF TypeOK
  <2> QED  BY <1>1, <2>1 DEF Item, KvItem, TokenKinds
<1>3. PICK p, q, r, e :
           /\ IsState(p) /\ IsState(q) /\ p.fr = q.fr /\ p.rest = q.rest
           /\ q.L = Table(vars) /\ q.w = with_stack
           /\ Path(acc, Start0, p, <<>>)
           /\ Moves(Head(todo), q, r, vars) /\ Path(Tail(todo), r, e, vars)
           /\ e.rest = <<>>
  BY <1>1, HeadMoves
<1> DEFINE s == State(r.fr, r.rest, p.L, p.w)
<1>4. Moves(Head(todo), p, s, <<>>) /\ r.L = q.L /\ r.w = q.w /\ IsState(r)
  BY <1>2, <1>3, TokenMoves
<1>5. IsState(s) /\ s.fr = r.fr /\ s.rest = r.rest
  BY <1>4 DEF State, IsState
<1>6. acc' = acc \o <<Head(todo)>>
  BY <1>1, <1>2, AppendIsConcat DEF TypeOK
<1> HIDE DEF s
<1>7. Path(acc \o <<Head(todo)>>, Start0, s, <<>>)
  BY <1>3, <1>4, OnePath, ConcatPath
<1>8. status' = "running" /\ Path(acc', Start0, s, <<>>) /\ Path(todo', r, e, vars')
      /\ r.L = Table(vars') /\ r.w = with_stack'
  BY <1>1, <1>3, <1>4, <1>6, <1>7
<1> QED  BY <1>3, <1>4, <1>5, <1>8 DEF FlowInv

LEMMA StartApt == Apt(Start0) /\ Start0.L = Table(DFL_VARS) /\ Start0.w = 0 /\ Start0.rest = <<>>
<1>1. /\ Start0.L = Table(DFL_VARS) /\ Start0.w = 0 /\ Start0.rest = <<>>
      /\ Start0.fr.has = {"calm"} /\ Start0.fr.bound = [v \in NameSet |-> "none"]
  BY DEF Start0, State, Frame
<1>2. IsState(Start0)
  BY DEF Start0, IsState, State, Frame
<1>3. Stacked(Start0)
  BY <1>1, Tuple0 DEF Stacked
<1> QED  BY <1>1, <1>2, <1>3 DEF Apt

LEMMA StartFlow == ASSUME FlowInv, Start PROVE FlowInv'
<1>1. CASE prog.k = "Error"
  BY <1>1 DEF Start, FlowInv
<1>2. CASE prog.k # "Error"
  <2>1. /\ status' = "running" /\ todo' = <<Sub(prog, NW)>> /\ acc' = <<>> /\ vars' = DFL_VARS
        /\ with_stack' = 0
    BY <1>2 DEF Start, FlowInv
  <2>2. Moves(Sub(prog, NW), Start0, Start0, DFL_VARS)
    BY StartApt, SubMoves
  <2>3. Path(todo', Start0, Start0, vars')
    BY <2>1, <2>2, OnePath
  <2>4. Path(acc', Start0, Start0, <<>>)
    BY <2>1, NoPath
  <2>5. IsState(Start0)
    BY StartApt DEF Apt
  <2> QED  BY <2>1, <2>3, <2>4, <2>5, StartApt DEF FlowInv
<1> QED  BY <1>1, <1>2

LEMMA IdleFlow ==
  ASSUME FlowInv, Finish \/ UNCHANGED allvars
  PROVE  FlowInv'
<1>1. CASE Finish
  <2>1. status = "running" /\ status' = "done"
        /\ todo' = todo /\ vars' = vars /\ with_stack' = with_stack /\ acc' = acc
    BY <1>1 DEF Finish
  <2> QED  BY <2>1 DEF FlowInv
<1>2. CASE UNCHANGED allvars
  <2>1. status' = status /\ todo' = todo /\ vars' = vars /\ with_stack' = with_stack
        /\ acc' = acc
    BY <1>2 DEF allvars
  <2> QED  BY <2>1 DEF FlowInv
<1> QED  BY <1>1, <1>2

LEMMA FailFlow == ASSUME Fail \/ Panic PROVE FlowInv'
  BY AbortFlow DEF Fail, Panic

LEMMA NextFlow == ASSUME Inv, FlowInv, [Next]_allvars PROVE FlowInv'
<1>0. TypeOK
  BY DEF Inv
<1>1. ASSUME Expression PROVE FlowInv'
  BY <1>0, <1>1, ApplyFlow, AssertFlow, AttrSetFlow, BinOpFlow, IsSetFlow, TransparentFlow,
     IdentFlow, IfElseFlow, LambdaIdentFlow, LambdaPatternFlow, LegacyLetFlow, LetInFlow,
     ListFlow, OrDefaultFlow, SelectFlow, StrFlow, UnaryOpFlow, ValueFlow, WithFlow
     DEF Expression
<1>2. ASSUME Continuation PROVE FlowInv'
  BY <1>0, <1>2, PushFlow, PatternFormalFlow, RegisterKeyFlow, TruncateVarsFlow, KeyValueFlow,
     KeyElementFlow, InheritFlow, InheritIdentFlow, PropInheritFlow, IdentRawFlow,
     StringPartFlow, WithEndFlow
     DEF Continuation
<1>3. ASSUME Fail \/ Panic PROVE FlowInv'
  BY <1>3, FailFlow
<1>4. ASSUME Finish \/ Terminated \/ UNCHANGED allvars PROVE FlowInv'
  BY <1>4, IdleFlow DEF Terminated
<1>5. ASSUME Start PROVE FlowInv'
  BY <1>5, StartFlow
<1> QED  BY <1>1, <1>2, <1>3, <1>4, <1>5 DEF Next

(***************************************************************************)
(* FlowInvariance: at every step, the output and the stack together are a  *)
(* walk in which every token, and every call still to be made, is allowed  *)
(* where it stands.                                                        *)
(***************************************************************************)
THEOREM FlowInvariance == Spec => []FlowInv
<1>1. Init => FlowInv
  BY DEF Init, FlowInv
<1>2. Inv /\ FlowInv /\ [Next]_allvars => FlowInv'
  BY NextFlow
<1> QED  BY <1>1, <1>2, Invariance, PTL DEF Spec

----------------------------------------------------------------------------
(***************************************************************************)
(* From the walk to the brackets of the output.  First, what the recursive *)
(* definition of Enclosing says.                                           *)
(***************************************************************************)
After(s, j) ==
  IF acc[j].t = "open" THEN Append(s, j)
  ELSE IF acc[j].t = "close" THEN SubSeq(s, 1, Len(s) - 1)
  ELSE s

Nests(O) ==
  /\ O \in Seq(Seq(Nat)) /\ Len(O) = Len(acc) + 1 /\ O[1] = <<>>
  /\ \A j \in 1 .. Len(acc) : O[j + 1] = After(O[j], j)

Longer(u, j) == Append(u[j - 1], After(u[j - 1][j], j))

LEMMA AfterSeq ==
  ASSUME NEW s \in Seq(Nat), NEW j \in Nat
  PROVE  After(s, j) \in Seq(Nat)
<1>1. SubSeq(s, 1, Len(s) - 1) \in Seq(Nat)
  <2>1. CASE s = <<>>
    <3>1. SubSeq(s, 1, Len(s) - 1) = <<>>
      BY <2>1
    <3> QED  BY <3>1
  <2>2. CASE s # <<>>
    <3>1. Len(s) \in Nat /\ Len(s) > 0
      BY <2>2
    <3> QED  BY <3>1
  <2> QED  BY <2>1, <2>2
<1> QED  BY <1>1 DEF After

LEMMA UptoExists ==
  ASSUME Len(acc) \in Nat
  PROVE  \E u : u = [j \in 0 .. Len(acc) |-> IF j = 0 THEN << <<>> >> ELSE Longer(u, j)]
<1> DEFINE n == Len(acc)
           SS == Seq(Seq(Nat))
           Right(u, k) == /\ u[0] = << <<>> >>
                          /\ \A j \in 1 .. k : u[j] = Longer(u, j)
                          /\ \A j \in 0 .. k : u[j] \in SS /\ Len(u[j]) = j + 1
           Bad == {k \in 0 .. n : ~\E u : Right(u, k)}
<1>1. Bad = {}
  <2> SUFFICES ASSUME Bad # {} PROVE FALSE
    OBVIOUS
  <2>1. Bad \in SUBSET Nat
    OBVIOUS
  <2>2. PICK k \in Bad : \A y \in Bad : k <= y
    BY <2>1, LeastNumber
  <2>3. k \in 0 .. n /\ ~\E u : Right(u, k)
    BY <2>2
  <2>4. k # 0
    <3> DEFINE z == << <<>> >>
               u == [j \in {0} |-> z]
    <3>1. z \in SS /\ Len(z) = 1
      OBVIOUS
    <3>2. u[0] = z /\ 1 .. 0 = {} /\ 0 .. 0 = {0}
      OBVIOUS
    <3> HIDE DEF u, z
    <3>3. Right(u, 0)
      <4>1. u[0] = << <<>> >>
        BY <3>2 DEF z
      <4>2. \A j \in 1 .. 0 : u[j] = Longer(u, j)
        BY <3>2
      <4>3. \A j \in 0 .. 0 : u[j] \in SS /\ Len(u[j]) = j + 1
        BY <3>1, <3>2
      <4> QED  BY <4>1, <4>2, <4>3
    <3> QED  BY <2>3, <3>3
  <2>5. k - 1 \in 0 .. n /\ k - 1 \notin Bad
    <3> HIDE DEF Bad
    <3>1. k - 1 \in 0 .. n /\ ~(k <= k - 1)
      BY <2>3, <2>4
    <3> QED  BY <2>2, <3>1
  <2>6. PICK f : Right(f, k - 1)
    BY <2>5
  <2> DEFINE s == Longer(f, k)
             g == [j \in 0 .. n |-> IF j = k THEN s ELSE f[j]]
  <2>7. f[k - 1] \in SS /\ Len(f[k - 1]) = k
    BY <2>3, <2>4, <2>6
  <2>8. s \in SS /\ Len(s) = k + 1
    <3>1. f[k - 1][k] \in Seq(Nat)
      BY <2>3, <2>4, <2>7
    <3>2. After(f[k - 1][k], k) \in Seq(Nat)
      <4> DEFINE y == f[k - 1][k]
      <4>1. y \in Seq(Nat) /\ k \in Nat
        BY <2>1, <3>1
      <4> HIDE DEF y
      <4>2. After(y, k) \in Seq(Nat)
        BY <4>1, AfterSeq
      <4> QED  BY <4>2 DEF y
    <3> QED  BY <2>3, <2>7, <3>2 DEF Longer
  <2>9. g[k] = s /\ \A j \in 0 .. (k - 1) : g[j] = f[j]
    BY <2>3, <2>4
  <2> HIDE DEF g, s
  <2>10. Right(g, k)
    <3>1. g[0] = << <<>> >>
      BY <2>3, <2>4, <2>6, <2>9
    <3>2. ASSUME NEW j \in 1 .. k PROVE g[j] = Longer(g, j)
      <4>1. g[j - 1] = f[j - 1]
        BY <2>3, <2>9
      <4>2. Longer(g, j) = Longer(f, j)
        BY <4>1 DEF Longer
      <4>3. CASE j = k
        BY <2>9, <4>2, <4>3 DEF s
      <4>4. CASE j # k
        <5>1. j \in 1 .. (k - 1) /\ j \in 0 .. (k - 1)
          BY <2>3, <4>4
        <5> QED  BY <2>6, <2>9, <4>2, <5>1
      <4> QED  BY <4>3, <4>4
    <3>3. ASSUME NEW j \in 0 .. k PROVE g[j] \in SS /\ Len(g[j]) = j + 1
      <4>1. CASE j = k
        BY <2>8, <2>9, <4>1
      <4>2. CASE j # k
        <5>1. j \in 0 .. (k - 1)
          BY <2>3, <4>2
        <5> QED  BY <2>6, <2>9, <5>1
      <4> QED  BY <4>1, <4>2
    <3> QED  BY <3>1, <3>2, <3>3
  <2> QED  BY <2>3, <2>10
<1>2. PICK u : Right(u, n)
  <2>1. n \in 0 .. n
    OBVIOUS
  <2> QED  BY <1>1, <2>1
<1> DEFINE w == [j \in 0 .. n |-> u[j]]
<1>3. w = [j \in 0 .. n |-> IF j = 0 THEN << <<>> >> ELSE Longer(w, j)]
  <2>1. \A j \in 0 .. n : w[j] = u[j]
    OBVIOUS
  <2>2. ASSUME NEW j \in 0 .. n
        PROVE  u[j] = IF j = 0 THEN << <<>> >> ELSE Longer(w, j)
    <3>1. CASE j = 0
      BY <1>2, <3>1
    <3>2. CASE j # 0
      <4>1. j \in 1 .. n /\ j - 1 \in 0 .. n
        BY <3>2
      <4>2. w[j - 1] = u[j - 1]
        BY <2>1, <4>1
      <4> HIDE DEF w
      <4>3. Longer(w, j) = Longer(u, j)
        BY <4>2 DEF Longer
      <4> QED  BY <1>2, <3>2, <4>1, <4>3
    <3> QED  BY <3>1, <3>2
  <2> QED  BY <2>2
<1> QED  BY <1>3

LEMMA EnclosingNests == ASSUME Len(acc) \in Nat PROVE Nests(Enclosing)
<1> DEFINE n == Len(acc)
           Eq(u) == u = [j \in 0 .. n |-> IF j = 0 THEN << <<>> >> ELSE Longer(u, j)]
           U == CHOOSE u : Eq(u)
<1>1. Enclosing = U[n]
  BY DEF Enclosing, Longer, After
<1>2. \E u : Eq(u)
  BY UptoExists
<1> HIDE DEF Eq
<1>3. Eq(U)
  BY <1>2
<1> HIDE DEF U
<1>4. /\ U[0] = << <<>> >>
      /\ \A j \in 1 .. n : U[j] = Longer(U, j)
  <2>1. U = [j \in 0 .. n |-> IF j = 0 THEN << <<>> >> ELSE Longer(U, j)]
    BY <1>3 DEF Eq
  <2>2. \A j \in 0 .. n : U[j] = IF j = 0 THEN << <<>> >> ELSE Longer(U, j)
    BY <2>1
  <2>3. 0 \in 0 .. n /\ \A j \in 1 .. n : j \in 0 .. n /\ j # 0
    OBVIOUS
  <2> QED  BY <2>2, <2>3
<1> DEFINE SS == Seq(Seq(Nat))
           Nice(k) == /\ U[k] \in SS /\ Len(U[k]) = k + 1 /\ U[k][1] = <<>>
                      /\ \A j \in 1 .. k : U[k][j + 1] = After(U[k][j], j)
           Bad == {k \in 0 .. n : ~Nice(k)}
<1>5. Bad = {}
  <2> SUFFICES ASSUME Bad # {} PROVE FALSE
    OBVIOUS
  <2>1. Bad \in SUBSET Nat
    OBVIOUS
  <2>2. PICK k \in Bad : \A y \in Bad : k <= y
    BY <2>1, LeastNumber
  <2>3. k \in 0 .. n /\ ~Nice(k)
    BY <2>2
  <2>4. k # 0
    <3> DEFINE z == << <<>> >>
    <3>1. z \in SS /\ Len(z) = 1 /\ z[1] = <<>> /\ 1 .. 0 = {}
      OBVIOUS
    <3> HIDE DEF z
    <3>2. U[0] = z
      BY <1>4 DEF z
    <3>3. Nice(0)
      BY <3>1, <3>2
    <3> QED  BY <2>3, <3>3
  <2>5. Nice(k - 1)
    <3>1. k - 1 \in 0 .. n /\ ~(k <= k - 1)
      BY <2>3, <2>4
    <3> HIDE DEF Nice
    <3> QED  BY <2>2, <3>1
  <2> DEFINE s == U[k - 1]
             x == After(s[k], k)
  <2>6. s \in SS /\ Len(s) = k /\ s[1] = <<>>
        /\ \A j \in 1 .. (k - 1) : s[j + 1] = After(s[j], j)
    <3>1. (k - 1) + 1 = k
      BY <2>3
    <3> HIDE DEF SS
    <3>2. s \in SS /\ Len(s) = (k - 1) + 1 /\ s[1] = <<>>
      BY <2>5
    <3>3. \A j \in 1 .. (k - 1) : s[j + 1] = After(s[j], j)
      BY <2>5
    <3> QED  BY <3>1, <3>2, <3>3
  <2>7. U[k] = Append(s, x)
    <3>1. k \in 1 .. n
      BY <2>3, <2>4
    <3> HIDE DEF SS, Nice, Bad
    <3>2. U[k] = Longer(U, k)
      BY <1>4, <3>1
    <3>3. Longer(U, k) = Append(s, x)
      BY Zenon DEF Longer
    <3> QED  BY <3>2, <3>3
  <2> HIDE DEF s
  <2>8. x \in Seq(Nat)
    <3>1. s[k] \in Seq(Nat)
      BY <2>3, <2>4, <2>6
    <3>2. k \in Nat
      BY <2>3
    <3> DEFINE y == s[k]
    <3>3. y \in Seq(Nat)
      BY <3>1
    <3> HIDE DEF y
    <3>4. After(y, k) \in Seq(Nat)
      BY <3>2, <3>3, AfterSeq
    <3> QED  BY <3>4 DEF y
  <2> HIDE DEF x
  <2>9. /\ Append(s, x) \in SS /\ Len(Append(s, x)) = k + 1
        /\ \A j \in 1 .. k : Append(s, x)[j] = s[j]
        /\ Append(s, x)[k + 1] = x
    BY <2>3, <2>4, <2>6, <2>8
  <2> DEFINE t == U[k]
  <2>10. t \in SS /\ Len(t) = k + 1 /\ t[k + 1] = x /\ \A j \in 1 .. k : t[j] = s[j]
    BY <2>7, <2>9
  <2> HIDE DEF t
  <2>11. t[1] = <<>>
    BY <2>3, <2>4, <2>6, <2>10
  <2>12. ASSUME NEW j \in 1 .. k PROVE t[j + 1] = After(t[j], j)
    <3>1. CASE j = k
      BY <2>10, <3>1 DEF x
    <3>2. CASE j # k
      <4>1. j \in 1 .. (k - 1) /\ j + 1 \in 1 .. k
        BY <2>3, <3>2
      <4> QED  BY <2>6, <2>10, <4>1
    <3> QED  BY <3>1, <3>2
  <2>13. Nice(k)
    BY <2>10, <2>11, <2>12 DEF t
  <2> QED  BY <2>3, <2>13
<1>6. Nice(n)
  <2>1. n \in 0 .. n
    OBVIOUS
  <2> HIDE DEF Nice
  <2> QED  BY <1>5, <2>1
<1> QED  BY <1>1, <1>6 DEF Nests

(***************************************************************************)
(* The frames of the walk and the open brackets correspond: a frame is the *)
(* one its bracket was entered with, but for what has been declared and    *)
(* assigned since, and every name declared or assigned has its token.      *)
(***************************************************************************)
Walk(Q) ==
  /\ acc \in Seq(Token) /\ Q[1] = Start0
  /\ \A j \in 1 .. Len(acc) : Moves(acc[j], Q[j], Q[j + 1], <<>>)

Frm(q, i) == IF i < Len(q.rest) THEN q.rest[i + 1] ELSE q.fr
Pos(s, i) == IF i = 0 THEN 0 ELSE s[i]

Declared(O, b, v, j) ==
  \E k \in 1 .. (j - 1) : acc[k].t = "decl" /\ acc[k].v = v /\ Innermost(O, k) = b
Given(O, b, v, j) ==
  \E k \in 1 .. (j - 1) : acc[k] = Close("set", v) /\ Innermost(O, k + 1) = b

Same(f, g) ==
  /\ f.x = g.x /\ f.v = g.v /\ f.has = g.has /\ f.bound = g.bound
  /\ f.D = g.D /\ f.E = g.E

Fits(f, Q, O, b, j) ==
  /\ Same(f, Q[b + 1].fr)
  /\ \A v \in f.d : Declared(O, b, v, j)
  /\ \A v \in f.a : Given(O, b, v, j)

Nested(O, j) ==
  \A i \in 1 .. Len(O[j]) :
    /\ O[j][i] \in 1 .. (j - 1) /\ acc[O[j][i]].t = "open"
    /\ Len(O[O[j][i]]) = i - 1
    /\ \A k \in 1 .. (i - 1) : O[O[j][i]][k] = O[j][k]

Frames(Q, O, j) ==
  /\ Stacked(Q[j]) /\ Len(Q[j].rest) = Len(O[j])
  /\ \A i \in 0 .. Len(O[j]) : Fits(Frm(Q[j], i), Q, O, Pos(O[j], i), j)

LEMMA PlusFields ==
  ASSUME NEW q, NEW B, NEW A, NEW r, r = Plus(q, B, A)
  PROVE  /\ r.fr.E = q.fr.E /\ r.fr.D = q.fr.D /\ r.fr.d = q.fr.d \cup B
         /\ r.fr.a = q.fr.a \cup A
         /\ r.fr.x = q.fr.x /\ r.fr.v = q.fr.v /\ r.fr.has = q.fr.has
         /\ r.fr.bound = q.fr.bound /\ r.rest = q.rest
BY DEF Plus, State, Frame

LEMMA ShorterSeq ==
  ASSUME NEW s \in Seq(Nat), Len(s) > 0
  PROVE  /\ SubSeq(s, 1, Len(s) - 1) \in Seq(Nat)
         /\ Len(SubSeq(s, 1, Len(s) - 1)) = Len(s) - 1
         /\ \A i \in 1 .. (Len(s) - 1) : SubSeq(s, 1, Len(s) - 1)[i] = s[i]
<1> DEFINE n == Len(s) - 1
<1>1. Len(s) \in Nat
  OBVIOUS
<1>2. 1 \in 1 .. (Len(s) + 1) /\ n \in (1 - 1) .. Len(s) /\ n - 1 + 1 = n
  BY <1>1
<1> HIDE DEF n
<1>3. /\ SubSeq(s, 1, n) \in Seq(Nat)
      /\ Len(SubSeq(s, 1, n)) = n - 1 + 1
      /\ \A i \in 1 .. (n - 1 + 1) : SubSeq(s, 1, n)[i] = s[1 + i - 1]
  BY <1>2, SubSeqProperties
<1>4. \A i \in 1 .. n : 1 + i - 1 = i
  BY <1>2
<1>5. /\ SubSeq(s, 1, n) \in Seq(Nat) /\ Len(SubSeq(s, 1, n)) = n
      /\ \A i \in 1 .. n : SubSeq(s, 1, n)[i] = s[i]
  BY <1>2, <1>3, <1>4
<1> QED  BY <1>5 DEF n

LEMMA FitsLater ==
  ASSUME NEW f, NEW Q, NEW O, NEW b, NEW j \in Nat, Fits(f, Q, O, b, j)
  PROVE  Fits(f, Q, O, b, j + 1)
<1>1. \A k \in 1 .. (j - 1) : k \in 1 .. ((j + 1) - 1)
  OBVIOUS
<1>2. \A v : Declared(O, b, v, j) => Declared(O, b, v, j + 1)
  BY <1>1 DEF Declared
<1>3. \A v : Given(O, b, v, j) => Given(O, b, v, j + 1)
  BY <1>1 DEF Given
<1> QED  BY <1>2, <1>3 DEF Fits

LEMMA NestsFacts ==
  ASSUME NEW O, Nests(O), NEW Q, Walk(Q), NEW j \in 1 .. Len(acc)
  PROVE  /\ O[j] \in Seq(Nat) /\ O[j + 1] = After(O[j], j) /\ acc[j] \in Token
         /\ Moves(acc[j], Q[j], Q[j + 1], <<>>) /\ j \in Nat /\ Len(acc) \in Nat
         /\ Len(O[j]) \in Nat
<1>1. Len(acc) \in Nat /\ acc[j] \in Token
  BY DEF Walk
<1>2. j \in 1 .. Len(O) /\ j \in Nat
  BY <1>1 DEF Nests
<1>3. O[j] \in Seq(Nat)
  BY <1>2 DEF Nests
<1> QED  BY <1>1, <1>2, <1>3 DEF Nests, Walk

LEMMA OpenFrames ==
  ASSUME NEW O, Nests(O), NEW Q, Walk(Q), NEW j \in 1 .. Len(acc), acc[j].t = "open",
         Nested(O, j), Frames(Q, O, j)
  PROVE  Nested(O, j + 1) /\ Frames(Q, O, j + 1)
<1> DEFINE s == O[j]
           m == Len(s)
           t == O[j + 1]
           q == Q[j]
           r == Q[j + 1]
<1>1. /\ s \in Seq(Nat) /\ t = Append(s, j) /\ Moves(acc[j], q, r, <<>>) /\ j \in Nat
      /\ m \in Nat
  BY NestsFacts DEF After
<1>2. Len(t) = m + 1 /\ t[m + 1] = j /\ \A i \in 1 .. m : t[i] = s[i]
  BY <1>1
<1>3. PICK D, E : r = Enter(acc[j].x, acc[j].v, q, D, E)
  BY <1>1 DEF Moves
<1>4. r.rest = Append(q.rest, q.fr) /\ r.fr.d = {} /\ r.fr.a = {}
  BY <1>3 DEF Enter, State, Frame
<1>5. Stacked(q) /\ Len(q.rest) = m
  BY DEF Frames
<1>6. Stacked(r)
  BY <1>3, <1>5, EnterStacked
<1>7. Len(r.rest) = m + 1 /\ r.rest[m + 1] = q.fr /\ \A i \in 1 .. m : r.rest[i] = q.rest[i]
  <2>1. PICK X : q.rest \in Seq(X)
    BY <1>5 DEF Stacked
  <2> DEFINE u == q.rest
             f == q.fr
             Y == X \cup {f}
  <2>2. u \in Seq(Y) /\ f \in Y /\ Len(u) = m
    BY <1>5, <2>1, SeqMonotonic
  <2> HIDE DEF u, f, Y, m
  <2>3. Len(Append(u, f)) = m + 1 /\ Append(u, f)[m + 1] = f
        /\ \A i \in 1 .. m : Append(u, f)[i] = u[i]
    BY <1>1, <2>2
  <2> QED  BY <1>4, <2>3 DEF u, f
<1>8. Nested(O, j + 1)
  <2> SUFFICES ASSUME NEW i \in 1 .. Len(t)
               PROVE  /\ t[i] \in 1 .. ((j + 1) - 1) /\ acc[t[i]].t = "open"
                      /\ Len(O[t[i]]) = i - 1
                      /\ \A k \in 1 .. (i - 1) : O[t[i]][k] = t[k]
    BY DEF Nested
  <2>1. CASE i = m + 1
    <3>1. t[i] = j /\ i - 1 = m
      BY <1>1, <1>2, <2>1
    <3>2. \A k \in 1 .. (i - 1) : s[k] = t[k]
      BY <1>2, <3>1
    <3> QED  BY <1>1, <3>1, <3>2
  <2>2. CASE i # m + 1
    <3>1. i \in 1 .. m /\ t[i] = s[i] /\ \A k \in 1 .. (i - 1) : t[k] = s[k]
      BY <1>1, <1>2, <2>2, SMTT(20)
    <3>2. /\ s[i] \in 1 .. (j - 1) /\ acc[s[i]].t = "open" /\ Len(O[s[i]]) = i - 1
          /\ \A k \in 1 .. (i - 1) : O[s[i]][k] = s[k]
      BY <3>1 DEF Nested
    <3>3. s[i] \in 1 .. ((j + 1) - 1)
      BY <1>1, <3>2
    <3> QED  BY <3>1, <3>2, <3>3
  <2> QED  BY <2>1, <2>2
<1>9. ASSUME NEW i \in 0 .. Len(t)
      PROVE  Fits(Frm(r, i), Q, O, Pos(t, i), j + 1)
  <2>1. CASE i = m + 1
    <3>1. Frm(r, i) = r.fr /\ Pos(t, i) = j
      BY <1>1, <1>2, <1>7, <2>1 DEF Frm, Pos
    <3>2. Fits(r.fr, Q, O, j, j + 1)
      BY <1>4 DEF Fits, Same
    <3> QED  BY <3>1, <3>2
  <2>2. CASE i # m + 1
    <3>1. i \in 0 .. m
      BY <1>1, <1>2, <2>2
    <3>2. Frm(r, i) = Frm(q, i)
      <4>1. i < Len(r.rest) /\ (i < m => i + 1 \in 1 .. m) /\ (~(i < m) => i + 1 = m + 1)
        BY <1>1, <1>7, <3>1
      <4> HIDE DEF r, q, m
      <4> QED  BY <1>5, <1>7, <4>1 DEF Frm
    <3>3. Pos(t, i) = Pos(s, i)
      <4>1. i = 0 \/ i \in 1 .. m
        BY <1>1, <3>1
      <4> HIDE DEF t, s, m
      <4> QED  BY <1>2, <4>1 DEF Pos
    <3>4. Fits(Frm(q, i), Q, O, Pos(s, i), j)
      BY <3>1 DEF Frames
    <3> QED  BY <1>1, <3>2, <3>3, <3>4, FitsLater
  <2> QED  BY <2>1, <2>2
<1>10. Len(r.rest) = Len(t)
  BY <1>2, <1>7
<1> QED  BY <1>6, <1>8, <1>9, <1>10 DEF Frames

LEMMA InnerPos ==
  ASSUME NEW O, NEW j, O[j] \in Seq(Nat)
  PROVE  Innermost(O, j) = Pos(O[j], Len(O[j]))
<1> DEFINE s == O[j]
<1>1. s \in Seq(Nat)
  OBVIOUS
<1>2. (IF s = <<>> THEN 0 ELSE s[Len(s)]) = Pos(s, Len(s))
  <2> HIDE DEF s
  <2>1. s = <<>> <=> Len(s) = 0
    BY <1>1
  <2> QED  BY <2>1 DEF Pos
<1> QED  BY <1>2 DEF Innermost

LEMMA CloseFrames ==
  ASSUME NEW O, Nests(O), NEW Q, Walk(Q), NEW j \in 1 .. Len(acc), acc[j].t = "close",
         Nested(O, j), Frames(Q, O, j)
  PROVE  /\ Nested(O, j + 1) /\ Frames(Q, O, j + 1)
         /\ Len(O[j]) > 0 /\ Len(O[j + 1]) = Len(O[j]) - 1
         /\ \A i \in 1 .. Len(O[j + 1]) : O[j + 1][i] = O[j][i]
<1> DEFINE s == O[j]
           m == Len(s)
           t == O[j + 1]
           q == Q[j]
           r == Q[j + 1]
           x == acc[j]
<1>1. /\ s \in Seq(Nat) /\ t = SubSeq(s, 1, m - 1) /\ Moves(x, q, r, <<>>) /\ j \in Nat
      /\ m \in Nat /\ x \in Token
  BY NestsFacts DEF After
<1>2. Closes(x, q, r)
  BY <1>1 DEF Moves
<1>3. PICK f : /\ q.rest = Append(r.rest, f) /\ Stacked(r)
               /\ r = IF x.x = "set" THEN Plus(State(f, r.rest, q.L, q.w), {}, {x.v})
                      ELSE State(f, r.rest, q.L, q.w)
  BY <1>2 DEF Closes
<1>4. Stacked(q) /\ Len(q.rest) = m
  BY DEF Frames
<1>5. /\ m > 0 /\ Len(r.rest) = m - 1 /\ q.rest[m] = f
      /\ \A i \in 1 .. (m - 1) : r.rest[i] = q.rest[i]
  <2>1. PICK X : r.rest \in Seq(X)
    BY <1>3 DEF Stacked
  <2> DEFINE u == r.rest
             Y == X \cup {f}
  <2>2. u \in Seq(Y) /\ f \in Y /\ q.rest = Append(u, f)
    BY <1>3, <2>1, SeqMonotonic
  <2> HIDE DEF u, Y, m, q
  <2>3. Len(Append(u, f)) = Len(u) + 1 /\ Append(u, f)[Len(u) + 1] = f /\ Len(u) \in Nat
        /\ \A i \in 1 .. Len(u) : Append(u, f)[i] = u[i]
    BY <1>1, <2>2
  <2>4. m = Len(u) + 1 /\ Len(u) = m - 1 /\ m > 0
    BY <1>1, <1>4, <2>2, <2>3
  <2> QED  BY <2>2, <2>3, <2>4 DEF u
<1>6. Len(t) = m - 1 /\ t \in Seq(Nat) /\ \A i \in 1 .. (m - 1) : t[i] = s[i]
  <2>1. s \in Seq(Nat) /\ Len(s) > 0 /\ t = SubSeq(s, 1, Len(s) - 1)
    BY <1>1, <1>5
  <2> HIDE DEF s, t
  <2> QED  BY <2>1, ShorterSeq
<1>7. Nested(O, j + 1)
  <2> SUFFICES ASSUME NEW i \in 1 .. Len(t)
               PROVE  /\ t[i] \in 1 .. ((j + 1) - 1) /\ acc[t[i]].t = "open"
                      /\ Len(O[t[i]]) = i - 1
                      /\ \A k \in 1 .. (i - 1) : O[t[i]][k] = t[k]
    BY DEF Nested
  <2>1. i \in 1 .. m /\ t[i] = s[i] /\ \A k \in 1 .. (i - 1) : t[k] = s[k]
    BY <1>1, <1>6
  <2>2. /\ s[i] \in 1 .. (j - 1) /\ acc[s[i]].t = "open" /\ Len(O[s[i]]) = i - 1
        /\ \A k \in 1 .. (i - 1) : O[s[i]][k] = s[k]
    BY <2>1 DEF Nested
  <2>3. s[i] \in 1 .. ((j + 1) - 1)
    <3> DEFINE y == s[i]
    <3>1. y \in 1 .. (j - 1) /\ j \in Nat
      BY <1>1, <2>2
    <3> HIDE DEF y
    <3>2. y \in 1 .. ((j + 1) - 1)
      BY <3>1
    <3> QED  BY <3>2 DEF y
  <2> QED  BY <2>1, <2>2, <2>3
<1>8. /\ Same(r.fr, f) /\ r.fr.d = f.d
      /\ \A v \in r.fr.a : v \in f.a \/ x = Close("set", v)
  <2> DEFINE o == State(f, r.rest, q.L, q.w)
  <2>1. o.fr = f
    BY DEF State
  <2>2. CASE x.x = "set"
    <3> DEFINE A == {x.v}
               B == {}
    <3>1. r = Plus(o, B, A)
      BY <1>3, <2>2
    <3> HIDE DEF o, A, B
    <3>2. /\ r.fr.E = f.E /\ r.fr.D = f.D /\ r.fr.d = f.d \cup B /\ r.fr.a = f.a \cup A
          /\ r.fr.x = f.x /\ r.fr.v = f.v /\ r.fr.has = f.has /\ r.fr.bound = f.bound
      BY <2>1, <3>1, PlusFields
    <3> USE DEF A, B
    <3>3. x = Close("set", x.v)
      BY <1>1, <2>2 DEF Token, Close
    <3>4. f.d \cup {} = f.d
      OBVIOUS
    <3> HIDE DEF x, r
    <3> QED  BY <3>2, <3>3, <3>4 DEF Same
  <2>3. CASE x.x # "set"
    BY <1>3, <2>1, <2>3 DEF Same
  <2> QED  BY <2>2, <2>3
<1>9. ASSUME NEW i \in 0 .. Len(t)
      PROVE  Fits(Frm(r, i), Q, O, Pos(t, i), j + 1)
  <2>0. i \in 0 .. m
    BY <1>1, <1>5, <1>6
  <2>1. Fits(Frm(q, i), Q, O, Pos(s, i), j)
    BY <2>0 DEF Frames
  <2>2. Fits(Frm(q, i), Q, O, Pos(s, i), j + 1)
    BY <1>1, <2>1, FitsLater
  <2>3. Pos(t, i) = Pos(s, i)
    <3>1. i = 0 \/ i \in 1 .. (m - 1)
      BY <1>1, <1>6
    <3> HIDE DEF t, s, m
    <3> QED  BY <1>6, <3>1 DEF Pos
  <2>4. CASE i = m - 1
    <3>1. Frm(r, i) = r.fr /\ Frm(q, i) = f
      BY <1>1, <1>4, <1>5, <2>4 DEF Frm
    <3>2. Innermost(O, j + 1) = Pos(t, i)
      BY <1>6, <2>4, InnerPos
    <3> DEFINE b == Pos(t, i)
               g == r.fr
    <3>3. Fits(f, Q, O, b, j + 1)
      BY <2>2, <2>3, <3>1
    <3>4. \A v : x = Close("set", v) => Given(O, b, v, j + 1)
      <4>1. j \in 1 .. ((j + 1) - 1)
        BY <1>1
      <4> QED  BY <3>2, <4>1 DEF Given
    <3> HIDE DEF b
    <3>5. Fits(g, Q, O, b, j + 1)
      <4>1. Same(g, Q[b + 1].fr)
        BY <1>8, <3>3 DEF Fits, Same
      <4>2. \A v \in g.d : Declared(O, b, v, j + 1)
        BY <1>8, <3>3 DEF Fits
      <4>3. \A v \in g.a : Given(O, b, v, j + 1)
        BY <1>8, <3>3, <3>4 DEF Fits
      <4> HIDE DEF g
      <4> QED  BY <4>1, <4>2, <4>3 DEF Fits
    <3> QED  BY <3>1, <3>5 DEF b
  <2>5. CASE i # m - 1
    <3>1. i < Len(r.rest) /\ i < Len(q.rest) /\ i + 1 \in 1 .. (m - 1)
      <4>1. m \in Nat /\ i \in 0 .. (m - 1) /\ Len(r.rest) = m - 1 /\ Len(q.rest) = m
        BY <1>1, <1>4, <1>5, <1>6
      <4> HIDE DEF m, r, q
      <4> QED  BY <2>5, <4>1
    <3>2. Frm(r, i) = Frm(q, i)
      BY <1>5, <3>1 DEF Frm
    <3> QED  BY <2>2, <2>3, <3>2
  <2> QED  BY <2>4, <2>5
<1>10. Len(r.rest) = Len(t)
  BY <1>5, <1>6
<1> QED  BY <1>3, <1>5, <1>6, <1>7, <1>9, <1>10 DEF Frames

LEMMA StayFrames ==
  ASSUME NEW O, Nests(O), NEW Q, Walk(Q), NEW j \in 1 .. Len(acc),
         acc[j].t \notin {"open", "close"}, Nested(O, j), Frames(Q, O, j)
  PROVE  Nested(O, j + 1) /\ Frames(Q, O, j + 1) /\ O[j + 1] = O[j]
<1> DEFINE s == O[j]
           m == Len(s)
           q == Q[j]
           r == Q[j + 1]
           x == acc[j]
<1>1. /\ s \in Seq(Nat) /\ O[j + 1] = s /\ Moves(x, q, r, <<>>) /\ j \in Nat
      /\ m \in Nat /\ x \in Token
  BY NestsFacts DEF After
<1>2. Nested(O, j + 1)
  <2>1. \A b : b \in 1 .. (j - 1) => b \in 1 .. ((j + 1) - 1)
    BY <1>1
  <2> HIDE DEF s
  <2> QED  BY <1>1, <2>1 DEF Nested, s
<1>3. Stacked(q) /\ Len(q.rest) = m
  BY DEF Frames
<1>4. /\ r.rest = q.rest /\ Same(r.fr, q.fr) /\ r.fr.a = q.fr.a
      /\ \A v \in r.fr.d : v \in q.fr.d \/ (x.t = "decl" /\ v = x.v)
  <2>1. CASE x.t = "decl"
    <3> DEFINE B == {x.v}
               A == {}
    <3>1. r = Plus(q, B, A)
      BY <1>1, <2>1 DEF Moves
    <3> HIDE DEF q, x, r, A, B
    <3>2. /\ r.fr.E = q.fr.E /\ r.fr.D = q.fr.D /\ r.fr.d = q.fr.d \cup B
          /\ r.fr.a = q.fr.a \cup A
          /\ r.fr.x = q.fr.x /\ r.fr.v = q.fr.v /\ r.fr.has = q.fr.has
          /\ r.fr.bound = q.fr.bound /\ r.rest = q.rest
      BY <3>1, PlusFields
    <3> USE DEF A, B
    <3>3. q.fr.a \cup {} = q.fr.a
      OBVIOUS
    <3> QED  BY <2>1, <3>2, <3>3 DEF Same
  <2>2. CASE x.t # "decl"
    <3>1. x.t \in {"read", "lit"}
      BY <1>1, <2>2 DEF Token, TokenKinds
    <3>2. r = q
      BY <1>1, <3>1 DEF Moves
    <3> QED  BY <3>2 DEF Same
  <2> QED  BY <2>1, <2>2
<1>5. ASSUME NEW i \in 0 .. m
      PROVE  Fits(Frm(r, i), Q, O, Pos(s, i), j + 1)
  <2>1. Fits(Frm(q, i), Q, O, Pos(s, i), j)
    BY DEF Frames
  <2>2. Fits(Frm(q, i), Q, O, Pos(s, i), j + 1)
    BY <1>1, <2>1, FitsLater
  <2>3. CASE i < m
    BY <1>3, <1>4, <2>2, <2>3 DEF Frm
  <2>4. CASE ~(i < m)
    <3> DEFINE b == Pos(s, i)
               g == r.fr
               f == q.fr
    <3>1. Frm(r, i) = g /\ Frm(q, i) = f /\ i = m
      BY <1>1, <1>3, <1>4, <2>4 DEF Frm
    <3>2. Innermost(O, j) = b
      BY <1>1, <3>1, InnerPos
    <3>3. Fits(f, Q, O, b, j + 1)
      BY <2>2, <3>1
    <3>4. \A v : x.t = "decl" /\ v = x.v => Declared(O, b, v, j + 1)
      <4>1. j \in 1 .. ((j + 1) - 1)
        BY <1>1
      <4> QED  BY <3>2, <4>1 DEF Declared
    <3> HIDE DEF b
    <3>5. Fits(g, Q, O, b, j + 1)
      <4>1. Same(g, Q[b + 1].fr)
        BY <1>4, <3>3 DEF Fits, Same
      <4>2. \A v \in g.d : Declared(O, b, v, j + 1)
        BY <1>4, <3>3, <3>4 DEF Fits
      <4>3. \A v \in g.a : Given(O, b, v, j + 1)
        BY <1>4, <3>3 DEF Fits
      <4> HIDE DEF g
      <4> QED  BY <4>1, <4>2, <4>3 DEF Fits
    <3> QED  BY <3>1, <3>5 DEF b
  <2> QED  BY <2>3, <2>4
<1>6. Stacked(r) /\ Len(r.rest) = m
  BY <1>3, <1>4 DEF Stacked
<1> QED  BY <1>1, <1>2, <1>5, <1>6 DEF Frames

LEMMA AllFrames ==
  ASSUME NEW O, Nests(O), NEW Q, Walk(Q)
  PROVE  \A j \in 1 .. (Len(acc) + 1) : Nested(O, j) /\ Frames(Q, O, j)
<1> DEFINE n == Len(acc)
           Bad == {j \in 1 .. (n + 1) : ~(Nested(O, j) /\ Frames(Q, O, j))}
<1>0. n \in Nat
  BY DEF Walk
<1> SUFFICES ASSUME Bad # {} PROVE FALSE
  OBVIOUS
<1>1. Bad \in SUBSET Nat
  BY <1>0
<1>2. PICK k \in Bad : \A y \in Bad : k <= y
  BY <1>1, LeastNumber
<1>3. k \in 1 .. (n + 1) /\ ~(Nested(O, k) /\ Frames(Q, O, k))
  BY <1>2
<1>4. k # 1
  <2>1. O[1] = <<>> /\ Len(O[1]) = 0 /\ Q[1] = Start0
    BY DEF Nests, Walk
  <2>2. Nested(O, 1)
    BY <2>1 DEF Nested
  <2>3. Start0.rest = <<>> /\ Start0.fr.d = {} /\ Start0.fr.a = {}
    BY DEF Start0, State, Frame
  <2>4. Stacked(Start0) /\ Len(Start0.rest) = 0
    BY <2>3, StartApt DEF Apt
  <2>5. Fits(Start0.fr, Q, O, 0, 1)
    <3>1. Q[0 + 1] = Start0
      BY <2>1
    <3> QED  BY <2>3, <3>1 DEF Fits, Same
  <2>6. ASSUME NEW i \in 0 .. Len(O[1])
        PROVE  Fits(Frm(Q[1], i), Q, O, Pos(O[1], i), 1)
    <3>1. i = 0
      BY <2>1
    <3> QED  BY <2>1, <2>4, <2>5, <3>1 DEF Frm, Pos
  <2>7. Frames(Q, O, 1)
    BY <2>1, <2>4, <2>6 DEF Frames
  <2> QED  BY <1>3, <2>2, <2>7
<1>5. k - 1 \in 1 .. n /\ k - 1 \in 1 .. (n + 1) /\ (k - 1) + 1 = k /\ ~(k <= k - 1)
  BY <1>0, <1>3, <1>4
<1>6. Nested(O, k - 1) /\ Frames(Q, O, k - 1)
  BY <1>2, <1>5
<1> DEFINE j == k - 1
<1>7. j \in 1 .. n /\ Nested(O, j) /\ Frames(Q, O, j)
  BY <1>5, <1>6
<1>8. ~(Nested(O, j + 1) /\ Frames(Q, O, j + 1))
  BY <1>3, <1>5
<1> HIDE DEF j, Bad
<1> QED  BY <1>7, <1>8, OpenFrames, CloseFrames, StayFrames

(***************************************************************************)
(* What one token does to the brackets around, and what a bracket knows of *)
(* the ones around it.                                                     *)
(***************************************************************************)
Ready(O, Q) ==
  /\ Nests(O) /\ Walk(Q) /\ Len(acc) \in Nat
  /\ \A j \in 1 .. (Len(acc) + 1) : O[j] \in Seq(Nat) /\ Nested(O, j) /\ Frames(Q, O, j)

LEMMA IsReady == ASSUME NEW O, Nests(O), NEW Q, Walk(Q) PROVE Ready(O, Q)
<1>1. Len(acc) \in Nat
  BY DEF Walk
<1>2. \A j \in 1 .. (Len(acc) + 1) : O[j] \in Seq(Nat)
  <2>1. O \in Seq(Seq(Nat)) /\ Len(O) = Len(acc) + 1
    BY DEF Nests
  <2> QED  BY <2>1
<1> QED  BY <1>1, <1>2, AllFrames DEF Ready

(* The innermost bracket. *)
LEMMA TopFrame ==
  ASSUME NEW O, NEW Q, Ready(O, Q), NEW j \in 1 .. (Len(acc) + 1)
  PROVE  Fits(Q[j].fr, Q, O, Innermost(O, j), j)
<1> DEFINE m == Len(O[j])
<1>1. O[j] \in Seq(Nat) /\ Frames(Q, O, j)
  BY DEF Ready
<1>2. m \in Nat /\ m \in 0 .. m /\ ~(m < m)
  BY <1>1
<1>3. Len(Q[j].rest) = m /\ Fits(Frm(Q[j], m), Q, O, Pos(O[j], m), j)
  BY <1>1, <1>2 DEF Frames
<1>4. Frm(Q[j], m) = Q[j].fr
  BY <1>2, <1>3 DEF Frm
<1> QED  BY <1>1, <1>3, <1>4, InnerPos

LEMMA AroundRange ==
  ASSUME NEW O, NEW Q, Ready(O, Q), NEW j \in 1 .. (Len(acc) + 1), NEW c \in Around(O, j)
  PROVE  /\ c \in 1 .. (j - 1) /\ c \in 1 .. Len(acc) /\ acc[c].t = "open"
         /\ c < j /\ j \in Nat /\ c \in Nat
<1>1. O[j] \in Seq(Nat) /\ Nested(O, j) /\ Len(acc) \in Nat
  BY DEF Ready
<1>2. PICK i \in DOMAIN O[j] : c = O[j][i]
  BY DEF Around
<1>3. i \in 1 .. Len(O[j])
  BY <1>1, <1>2
<1>4. c \in 1 .. (j - 1) /\ acc[c].t = "open"
  BY <1>1, <1>2, <1>3 DEF Nested
<1> QED  BY <1>1, <1>4

(* The brackets around a bracket that is open are the ones below it. *)
LEMMA AroundInner ==
  ASSUME NEW O, NEW Q, Ready(O, Q), NEW j \in 1 .. (Len(acc) + 1), NEW c \in Around(O, j)
  PROVE  Around(O, c) \subseteq Around(O, j)
<1>1. O[j] \in Seq(Nat) /\ Nested(O, j)
  BY DEF Ready
<1>2. PICK i \in DOMAIN O[j] : c = O[j][i]
  BY DEF Around
<1>3. i \in 1 .. Len(O[j]) /\ DOMAIN O[j] = 1 .. Len(O[j]) /\ Len(O[j]) \in Nat
  BY <1>1, <1>2
<1>4. Len(O[c]) = i - 1 /\ \A k \in 1 .. (i - 1) : O[c][k] = O[j][k]
  BY <1>1, <1>2, <1>3 DEF Nested
<1>5. O[c] \in Seq(Nat)
  BY AroundRange DEF Ready
<1>6. DOMAIN O[c] = 1 .. (i - 1)
  BY <1>4, <1>5
<1>7. \A k \in 1 .. (i - 1) : k \in DOMAIN O[j] /\ O[c][k] = O[j][k]
  BY <1>3, <1>4
<1> QED  BY <1>6, <1>7 DEF Around

LEMMA AroundTop ==
  ASSUME NEW O, NEW Q, Ready(O, Q), NEW j \in 1 .. (Len(acc) + 1)
  PROVE  /\ Innermost(O, j) = 0 => Around(O, j) = {}
         /\ Innermost(O, j) # 0 =>
              /\ Innermost(O, j) \in Around(O, j)
              /\ Around(O, j) = Around(O, Innermost(O, j)) \cup {Innermost(O, j)}
<1> DEFINE m == Len(O[j])
           b == Innermost(O, j)
<1>1. O[j] \in Seq(Nat) /\ Nested(O, j) /\ m \in Nat
  BY DEF Ready
<1>2. b = Pos(O[j], m) /\ DOMAIN O[j] = 1 .. m
  BY <1>1, InnerPos
<1>3. CASE m = 0
  <2>1. b = 0 /\ DOMAIN O[j] = {}
    BY <1>2, <1>3 DEF Pos
  <2>2. Around(O, j) = {}
    BY <2>1 DEF Around
  <2> QED  BY <2>1, <2>2
<1>4. CASE m # 0
  <2>1. b = O[j][m] /\ m \in 1 .. m
    BY <1>1, <1>2, <1>4 DEF Pos
  <2>2. b \in Around(O, j)
    BY <1>2, <2>1 DEF Around
  <2>3. Around(O, b) \subseteq Around(O, j)
    <3> HIDE DEF b
    <3> QED  BY <2>2, AroundInner
  <2>4. Len(O[b]) = m - 1 /\ (\A k \in 1 .. (m - 1) : O[b][k] = O[j][k]) /\ b \in 1 .. (j - 1)
    BY <1>1, <2>1 DEF Nested
  <2>5. O[b] \in Seq(Nat)
    <3> HIDE DEF b
    <3> QED  BY <2>2, AroundRange DEF Ready
  <2>6. DOMAIN O[b] = 1 .. (m - 1)
    BY <2>4, <2>5
  <2> HIDE DEF b
  <2>7. ASSUME NEW c \in Around(O, j), c # b PROVE c \in Around(O, b)
    <3>1. PICK i \in 1 .. m : c = O[j][i]
      BY <1>2 DEF Around
    <3>2. i \in 1 .. (m - 1)
      BY <1>1, <2>1, <2>7, <3>1
    <3> QED  BY <2>4, <2>6, <3>1, <3>2 DEF Around
  <2>8. b # 0
    BY <2>4
  <2>9. Around(O, j) = Around(O, b) \cup {b}
    BY <2>2, <2>3, <2>7
  <2> QED  BY <2>2, <2>8, <2>9 DEF b
<1> QED  BY <1>3, <1>4

(* One token. *)
LEMMA OpenStep ==
  ASSUME NEW O, NEW Q, Ready(O, Q), NEW j \in 1 .. Len(acc), acc[j].t = "open"
  PROVE  Around(O, j + 1) = Around(O, j) \cup {j} /\ Innermost(O, j + 1) = j
<1> DEFINE s == O[j]
           t == O[j + 1]
<1>1. s \in Seq(Nat) /\ t = Append(s, j) /\ j \in Nat /\ Len(s) \in Nat
  <2>1. t = After(s, j)
    BY DEF Ready, Nests
  <2> QED  BY <2>1 DEF Ready, After
<1>2. /\ t \in Seq(Nat) /\ Len(t) = Len(s) + 1 /\ t[Len(s) + 1] = j /\ t # <<>>
      /\ \A i \in 1 .. Len(s) : t[i] = s[i]
  <2> HIDE DEF s, t
  <2>1. t \in Seq(Nat) /\ Len(t) = Len(s) + 1 /\ t[Len(s) + 1] = j
        /\ \A i \in 1 .. Len(s) : t[i] = s[i]
    BY <1>1
  <2> QED  BY <1>1, <2>1
<1>3. DOMAIN s = 1 .. Len(s) /\ DOMAIN t = 1 .. (Len(s) + 1)
  BY <1>1, <1>2
<1>4. Innermost(O, j + 1) = j
  BY <1>2 DEF Innermost
<1>5. ASSUME NEW c PROVE c \in Around(O, j + 1) <=> c \in Around(O, j) \/ c = j
  <2>1. ASSUME c \in Around(O, j + 1) PROVE c \in Around(O, j) \/ c = j
    <3>1. PICK i \in 1 .. (Len(s) + 1) : c = t[i]
      BY <1>3, <2>1 DEF Around
    <3>2. i \in 1 .. Len(s) \/ i = Len(s) + 1
      BY <1>1
    <3> HIDE DEF t, s
    <3> QED  BY <1>2, <1>3, <3>1, <3>2 DEF Around, s
  <2>2. ASSUME c \in Around(O, j) PROVE c \in Around(O, j + 1)
    <3>1. PICK i \in 1 .. Len(s) : c = s[i]
      BY <1>3, <2>2 DEF Around
    <3>2. i \in 1 .. (Len(s) + 1)
      BY <1>1
    <3> HIDE DEF t, s
    <3> QED  BY <1>2, <1>3, <3>1, <3>2 DEF Around, t
  <2>3. ASSUME c = j PROVE c \in Around(O, j + 1)
    <3>1. Len(s) + 1 \in 1 .. (Len(s) + 1)
      BY <1>1
    <3> HIDE DEF t, s
    <3> QED  BY <1>2, <1>3, <2>3, <3>1 DEF Around, t
  <2> QED  BY <2>1, <2>2, <2>3
<1> QED  BY <1>4, <1>5

LEMMA CloseStep ==
  ASSUME NEW O, NEW Q, Ready(O, Q), NEW j \in 1 .. Len(acc), acc[j].t = "close",
         NEW b, b = Innermost(O, j)
  PROVE  /\ b \in Around(O, j) /\ O[j + 1] = O[b]
         /\ acc[b].x = acc[j].x /\ acc[b].v = acc[j].v
         /\ Q[j].fr.d = Q[b + 1].fr.D /\ Q[j].fr.a = Q[b + 1].fr.E
<1> DEFINE s == O[j]
           t == O[j + 1]
           m == Len(s)
<1>0. /\ Nests(O) /\ Walk(Q) /\ Len(acc) \in Nat /\ j \in 1 .. (Len(acc) + 1)
      /\ j + 1 \in 1 .. (Len(acc) + 1) /\ j \in Nat
  BY DEF Ready
<1>1. Nested(O, j) /\ Frames(Q, O, j) /\ s \in Seq(Nat) /\ t \in Seq(Nat) /\ m \in Nat
  BY <1>0 DEF Ready
<1>2. m > 0 /\ Len(t) = m - 1 /\ \A i \in 1 .. Len(t) : t[i] = s[i]
  BY <1>0, <1>1, CloseFrames
<1>3. b = s[m] /\ m \in 1 .. m
  <2>1. b = Pos(s, m)
    BY <1>1, InnerPos
  <2> QED  BY <1>1, <1>2, <2>1 DEF Pos
<1>4. b \in Around(O, j)
  BY <1>1, <1>3 DEF Around
<1>5. Len(O[b]) = m - 1 /\ \A k \in 1 .. (m - 1) : O[b][k] = s[k]
  BY <1>1, <1>3 DEF Nested
<1>6. O[b] \in Seq(Nat)
  BY <1>0, <1>4, AroundRange DEF Ready
<1>7. t = O[b]
  <2> DEFINE u == O[b]
  <2>1. t \in Seq(Nat) /\ u \in Seq(Nat) /\ Len(t) = Len(u)
        /\ \A i \in 1 .. Len(t) : t[i] = u[i]
    BY <1>1, <1>2, <1>5, <1>6
  <2> HIDE DEF t, u
  <2>2. t = u
    BY <2>1, SeqEqual
  <2> QED  BY <2>2 DEF u
<1>8. Closes(acc[j], Q[j], Q[j + 1])
  BY <1>0 DEF Walk, Moves
<1>9. Same(Q[j].fr, Q[b + 1].fr)
  BY <1>0, TopFrame DEF Fits
<1>10. Q[b + 1].fr.x = acc[b].x /\ Q[b + 1].fr.v = acc[b].v
  <2>1. b \in 1 .. Len(acc) /\ acc[b].t = "open"
    BY <1>0, <1>4, AroundRange
  <2>2. PICK D, E : Q[b + 1] = Enter(acc[b].x, acc[b].v, Q[b], D, E)
    BY <1>0, <2>1 DEF Walk, Moves
  <2> QED  BY <2>2 DEF Enter, State, Frame
<1> QED  BY <1>4, <1>7, <1>8, <1>9, <1>10 DEF Closes, Same

LEMMA StayStep ==
  ASSUME NEW O, NEW Q, Ready(O, Q), NEW j \in 1 .. Len(acc),
         acc[j].t # "open", acc[j].t # "close"
  PROVE  O[j + 1] = O[j]
BY DEF Ready, Nests, After

LEMMA Opened ==
  ASSUME NEW O, NEW Q, Ready(O, Q), NEW b \in 1 .. Len(acc), acc[b].t = "open"
  PROVE  /\ MayOpen(acc[b], Q[b])
         /\ Q[b + 1].fr.x = acc[b].x /\ Q[b + 1].fr.v = acc[b].v
         /\ "cov" \in Q[b + 1].fr.has => Cov(Q[b]) \/ acc[b].x \in Shelters
         /\ "inw" \in Q[b + 1].fr.has => "inw" \in Q[b].fr.has \/ acc[b].x = "with"
         /\ "calm" \in Q[b + 1].fr.has => Quiet(Q[b]) \/ acc[b].x \in Screens
         /\ acc[b].x = "await" /\ ~Quiet(Q[b]) => "mrg" \in Q[b + 1].fr.has
         /\ \A i \in NameSet :
              Q[b + 1].fr.bound[i] =
                IF i \in Brings(acc[b].x, Q[b + 1].fr.D, Q[b + 1].fr.E) THEN Way(acc[b].x)
                ELSE Q[b].fr.bound[i]
<1> DEFINE x == acc[b]
           q == Q[b]
           r == Q[b + 1]
<1>1. Moves(x, q, r, <<>>)
  BY DEF Ready, Walk
<1>2. MayOpen(x, q) /\ \E D, E : r = Enter(x.x, x.v, q, D, E)
  BY <1>1 DEF Moves
<1>3. PICK D, E : r = Enter(x.x, x.v, q, D, E)
  BY <1>2
<1> HIDE DEF x, q, r
<1>4. /\ r.fr.x = x.x /\ r.fr.v = x.v /\ r.fr.D = D /\ r.fr.E = E
      /\ r.fr.has = {h \in {"cov", "inw", "calm", "mrg"} :
                 \/ h = "cov" /\ (Cov(q) \/ x.x \in Shelters)
                 \/ h = "inw" /\ ("inw" \in q.fr.has \/ x.x = "with")
                 \/ h = "calm" /\ (Quiet(q) \/ x.x \in Screens)
                 \/ h = "mrg" /\ x.x = "await" /\ ~Quiet(q)}
      /\ r.fr.bound = [i \in NameSet |-> IF i \in Brings(x.x, D, E) THEN Way(x.x)
                                         ELSE q.fr.bound[i]]
  BY <1>3 DEF Enter, State, Frame
<1>5. \A i \in NameSet : r.fr.bound[i] = IF i \in Brings(x.x, r.fr.D, r.fr.E) THEN Way(x.x)
                                         ELSE q.fr.bound[i]
  BY <1>4
<1>6. "cov" \in r.fr.has => Cov(q) \/ x.x \in Shelters
  BY <1>4
<1>7. "inw" \in r.fr.has => "inw" \in q.fr.has \/ x.x = "with"
  BY <1>4
<1>8. "calm" \in r.fr.has => Quiet(q) \/ x.x \in Screens
  BY <1>4
<1>9. x.x = "await" /\ ~Quiet(q) => "mrg" \in r.fr.has
  BY <1>4
<1> QED  BY <1>2, <1>4, <1>5, <1>6, <1>7, <1>8, <1>9 DEF x, q, r

(***************************************************************************)
(* A bracket that is no longer open has declared and assigned all that it  *)
(* was said to when it was opened.                                         *)
(***************************************************************************)
Whole(O, Q, b, j) ==
  /\ \A v \in Q[b + 1].fr.D : Declared(O, b, v, j)
  /\ \A v \in Q[b + 1].fr.E : Given(O, b, v, j)

LEMMA LaterGiven ==
  ASSUME NEW O, NEW b, NEW v, NEW j \in Nat, NEW k \in Nat, j <= k
  PROVE  /\ Given(O, b, v, j) => Given(O, b, v, k)
         /\ Declared(O, b, v, j) => Declared(O, b, v, k)
<1>1. \A i \in 1 .. (j - 1) : i \in 1 .. (k - 1)
  OBVIOUS
<1> QED  BY <1>1 DEF Given, Declared

LEMMA ClosedWhole ==
  ASSUME NEW O, NEW Q, Ready(O, Q)
  PROVE  \A j \in 1 .. (Len(acc) + 1) : \A b \in 1 .. (j - 1) :
           acc[b].t = "open" /\ b \notin Around(O, j) => Whole(O, Q, b, j)
<1> DEFINE n == Len(acc)
           Good(j) == \A b \in 1 .. (j - 1) :
                        acc[b].t = "open" /\ b \notin Around(O, j) => Whole(O, Q, b, j)
           Bad == {j \in 1 .. (n + 1) : ~Good(j)}
<1>0. n \in Nat
  BY DEF Ready
<1> SUFFICES ASSUME Bad # {} PROVE FALSE
  OBVIOUS
<1>1. Bad \in SUBSET Nat
  BY <1>0
<1>2. PICK k \in Bad : \A y \in Bad : k <= y
  BY <1>1, LeastNumber
<1>3. k \in 1 .. (n + 1) /\ ~Good(k)
  BY <1>2
<1>4. k # 1
  BY <1>3
<1> DEFINE j == k - 1
<1>5. j \in 1 .. n /\ j \in 1 .. (n + 1) /\ j + 1 = k /\ j \in Nat /\ k \in Nat /\ j <= k /\ ~(k <= j)
  BY <1>0, <1>3, <1>4
<1>6. Good(j)
  <2> HIDE DEF Good, j
  <2> QED  BY <1>2, <1>5
<1>7. PICK b \in 1 .. (k - 1) : acc[b].t = "open" /\ b \notin Around(O, k) /\ ~Whole(O, Q, b, k)
  BY <1>3
<1> HIDE DEF j, Bad
<1>8. ~Whole(O, Q, b, j)
  BY <1>5, <1>7, LaterGiven DEF Whole
<1>9. b # j
  BY <1>5, <1>7, OpenStep
<1>10. b \in 1 .. (j - 1)
  BY <1>5, <1>7, <1>9
<1>11. b \in Around(O, j)
  BY <1>6, <1>7, <1>8, <1>10
<1>12. acc[j].t = "close"
  <2>1. acc[j].t # "open"
    BY <1>5, <1>7, <1>11, OpenStep
  <2>2. ASSUME acc[j].t # "close" PROVE FALSE
    <3>1. O[k] = O[j]
      BY <1>5, <2>1, <2>2, StayStep
    <3> QED  BY <1>7, <1>11, <3>1 DEF Around
  <2> QED  BY <2>2
<1> DEFINE c == Innermost(O, j)
<1>13. c \in Around(O, j) /\ O[k] = O[c] /\ Q[j].fr.d = Q[c + 1].fr.D /\ Q[j].fr.a = Q[c + 1].fr.E
  BY <1>5, <1>12, CloseStep
<1>14. c # 0
  BY <1>5, <1>13, AroundRange
<1>15. Around(O, j) = Around(O, c) \cup {c}
  BY <1>5, <1>14, AroundTop
<1>16. b = c
  BY <1>7, <1>11, <1>13, <1>15 DEF Around
<1>17. Fits(Q[j].fr, Q, O, c, j)
  BY <1>5, TopFrame
<1> HIDE DEF c
<1>18. Whole(O, Q, c, j)
  BY <1>13, <1>17 DEF Fits, Whole
<1> QED  BY <1>8, <1>16, <1>18

(***************************************************************************)
(* What a bracket brings into scope is what its tokens bind.               *)
(***************************************************************************)
Brought(Q, b) == Brings(acc[b].x, Q[b + 1].fr.D, Q[b + 1].fr.E)

LEMMA InnerSame ==
  ASSUME NEW O, NEW Q, Ready(O, Q), NEW j \in 1 .. Len(acc), NEW b, Innermost(O, j) = b
  PROVE  Q[j].fr.D = Q[b + 1].fr.D /\ Q[j].fr.E = Q[b + 1].fr.E
<1>1. j \in 1 .. (Len(acc) + 1)
  BY DEF Ready
<1> QED  BY <1>1, TopFrame DEF Fits, Same

LEMMA SetOpens ==
  ASSUME NEW O, NEW Q, Ready(O, Q), NEW j \in 1 .. Len(acc), NEW b, Innermost(O, j) = b,
         acc[j].t = "open", acc[j].x = "set"
  PROVE  acc[j].v \in Q[b + 1].fr.E
<1>1. acc[j].v \in Q[j].fr.E
  BY Opened DEF MayOpen
<1> QED  BY <1>1, InnerSame

LEMMA SetIsGiven ==
  ASSUME NEW O, NEW Q, Ready(O, Q), NEW b, NEW v, Given(O, b, v, Len(acc) + 1)
  PROVE  \E c \in 1 .. Len(acc) :
           acc[c].t = "open" /\ acc[c].x = "set" /\ acc[c].v = v /\ Innermost(O, c) = b
<1>0. Len(acc) \in Nat /\ (Len(acc) + 1) - 1 = Len(acc)
  BY DEF Ready
<1>1. PICK k \in 1 .. Len(acc) : acc[k] = Close("set", v) /\ Innermost(O, k + 1) = b
  BY <1>0 DEF Given
<1>2. acc[k].t = "close" /\ acc[k].x = "set" /\ acc[k].v = v
  BY <1>1 DEF Close
<1> DEFINE c == Innermost(O, k)
<1>3. c \in Around(O, k) /\ O[k + 1] = O[c] /\ acc[c].x = "set" /\ acc[c].v = v
  BY <1>2, CloseStep
<1>4. k \in 1 .. (Len(acc) + 1)
  BY <1>0
<1>5. c \in 1 .. Len(acc) /\ acc[c].t = "open"
  BY <1>3, <1>4, AroundRange
<1>6. Innermost(O, c) = b
  BY <1>1, <1>3 DEF Innermost
<1> HIDE DEF c
<1> QED  BY <1>3, <1>5, <1>6

LEMMA BindsBrought ==
  ASSUME NEW O, NEW Q, Ready(O, Q), Len(O[Len(acc) + 1]) = 0,
         NEW b \in 1 .. Len(acc), acc[b].t = "open", NEW v
  PROVE  Binds(O, b, v) <=> v \in Brought(Q, b)
<1>0. Len(acc) \in Nat /\ DOMAIN acc = 1 .. Len(acc) /\ NIX_IN_SCOPE \notin {"lambda", "block"}
  BY DEF Ready, Walk, NIX_IN_SCOPE
<1>1. ASSUME Binds(O, b, v) PROVE v \in Brought(Q, b)
  <2>1. PICK j \in 1 .. Len(acc) :
          /\ acc[j].v = v /\ Innermost(O, j) = b
          /\ \/ acc[b].x \in {"lambda", "block"} /\ acc[j].t = "decl"
             \/ acc[b].x = NIX_IN_SCOPE /\ acc[j].t = "open" /\ acc[j].x = "set"
    BY <1>0, <1>1 DEF Binds
  <2>2. CASE acc[b].x \in {"lambda", "block"} /\ acc[j].t = "decl"
    <3>1. acc[j].v \in Q[j].fr.D
      BY <2>2 DEF Ready, Walk, Moves
    <3> QED  BY <2>1, <2>2, <3>1, InnerSame DEF Brought, Brings
  <2>3. CASE acc[b].x = NIX_IN_SCOPE /\ acc[j].t = "open" /\ acc[j].x = "set"
    <3>1. v \in Q[b + 1].fr.E
      BY <2>1, <2>3, SetOpens
    <3> QED  BY <1>0, <2>3, <3>1 DEF Brought, Brings
  <2> QED  BY <2>1, <2>2, <2>3
<1>2. ASSUME v \in Brought(Q, b) PROVE Binds(O, b, v)
  <2>1. Whole(O, Q, b, Len(acc) + 1)
    <3> DEFINE j == Len(acc) + 1
    <3>1. j \in 1 .. (Len(acc) + 1) /\ b \in 1 .. (j - 1)
      BY <1>0
    <3>2. O[j] \in Seq(Nat)
      BY <3>1 DEF Ready
    <3>3. Around(O, j) = {}
      BY <3>2 DEF Around
    <3> HIDE DEF j
    <3>4. Whole(O, Q, b, j)
      BY <3>1, <3>3, ClosedWhole
    <3> QED  BY <3>4 DEF j
  <2>2. CASE acc[b].x \in {"lambda", "block"}
    <3>1. v \in Q[b + 1].fr.D
      BY <1>2, <2>2 DEF Brought, Brings
    <3>2. Declared(O, b, v, Len(acc) + 1)
      BY <2>1, <3>1 DEF Whole
    <3>3. PICK k \in 1 .. Len(acc) : acc[k].t = "decl" /\ acc[k].v = v /\ Innermost(O, k) = b
      BY <1>0, <3>2 DEF Declared
    <3> QED  BY <1>0, <2>2, <3>3 DEF Binds
  <2>3. CASE acc[b].x = NIX_IN_SCOPE
    <3>1. v \in Q[b + 1].fr.E
      BY <1>0, <1>2, <2>3 DEF Brought, Brings
    <3>2. Given(O, b, v, Len(acc) + 1)
      BY <2>1, <3>1 DEF Whole
    <3>3. PICK c \in 1 .. Len(acc) :
            acc[c].t = "open" /\ acc[c].x = "set" /\ acc[c].v = v /\ Innermost(O, c) = b
      BY <3>2, SetIsGiven
    <3> QED  BY <1>0, <2>3, <3>3 DEF Binds
  <2>4. acc[b].x \in {"lambda", "block"} \/ acc[b].x = NIX_IN_SCOPE
    BY <1>2 DEF Brought, Brings
  <2> QED  BY <2>2, <2>3, <2>4
<1> QED  BY <1>1, <1>2

(***************************************************************************)
(* Known: what a state of the walk tells about all the brackets around.    *)
(***************************************************************************)
Greatest(B, b) == b \in B /\ \A c \in B : c <= b

Bringers(O, Q, j, v) == {b \in Around(O, j) : v \in Brought(Q, b)}

Reaches(O, Q, j, v) ==
  \/ Bringers(O, Q, j, v) = {} /\ Q[j].fr.bound[v] = "none"
  \/ \E b : Greatest(Bringers(O, Q, j, v), b) /\ Q[j].fr.bound[v] = Way(acc[b].x)

Calmed(O, Q, j) ==
  \A b \in Around(O, j) : acc[b].x \in Bindings =>
    \/ \A v \in Q[b + 1].fr.E : Given(O, b, v, j)
    \/ \E s \in Around(O, j) : s > b /\ acc[s].x \in Screens

Known(O, Q, j) ==
  /\ \A v \in NameSet : Reaches(O, Q, j, v)
  /\ "inw" \in Q[j].fr.has => \E b \in Around(O, j) : acc[b].x = "with"
  /\ "cov" \in Q[j].fr.has => \E b \in Around(O, j) : acc[b].x \in Shelters
  /\ Quiet(Q[j]) => Calmed(O, Q, j)

LEMMA KnownOutside ==
  ASSUME NEW O, NEW Q, Ready(O, Q), NEW j \in 1 .. (Len(acc) + 1), Innermost(O, j) = 0
  PROVE  Known(O, Q, j)
<1>1. Around(O, j) = {}
  BY AroundTop
<1>2. Same(Q[j].fr, Q[1].fr)
  <2>1. Fits(Q[j].fr, Q, O, 0, j)
    BY TopFrame
  <2>2. 0 + 1 = 1
    OBVIOUS
  <2> QED  BY <2>1, <2>2 DEF Fits
<1>3. Q[1].fr.has = {"calm"} /\ Q[1].fr.bound = [v \in NameSet |-> "none"]
  <2>1. Q[1] = Start0
    BY DEF Ready, Walk
  <2>2. Start0.fr.has = {"calm"} /\ Start0.fr.bound = [v \in NameSet |-> "none"]
    BY DEF Start0, State, Frame
  <2> QED  BY <2>1, <2>2
<1>4. Q[j].fr.has = {"calm"} /\ \A v \in NameSet : Q[j].fr.bound[v] = "none"
  BY <1>2, <1>3 DEF Same
<1>5. \A v \in NameSet : Reaches(O, Q, j, v)
  BY <1>1, <1>4 DEF Reaches, Bringers
<1>6. "inw" \notin Q[j].fr.has /\ "cov" \notin Q[j].fr.has
  BY <1>4
<1>7. Calmed(O, Q, j)
  BY <1>1 DEF Calmed
<1> QED  BY <1>5, <1>6, <1>7 DEF Known

LEMMA KnownInside ==
  ASSUME NEW O, NEW Q, Ready(O, Q), NEW j \in 1 .. (Len(acc) + 1),
         NEW b, b = Innermost(O, j), b # 0, Known(O, Q, b)
  PROVE  Known(O, Q, j)
<1>1. b \in Around(O, j) /\ Around(O, j) = Around(O, b) \cup {b}
  BY AroundTop
<1>2. b \in 1 .. Len(acc) /\ acc[b].t = "open" /\ b < j /\ j \in Nat /\ b \in Nat
      /\ b \in 1 .. (Len(acc) + 1)
  <2>1. b \in 1 .. Len(acc) /\ acc[b].t = "open" /\ b < j /\ j \in Nat /\ b \in Nat
    BY <1>1, AroundRange
  <2>2. Len(acc) \in Nat
    BY DEF Ready
  <2> QED  BY <2>1, <2>2
<1>3. \A c \in Around(O, b) : c < b /\ c \in Nat
  BY <1>2, AroundRange
<1>4. Fits(Q[j].fr, Q, O, b, j)
  BY TopFrame
<1>5. /\ Q[j].fr.x = acc[b].x /\ Q[j].fr.has = Q[b + 1].fr.has
      /\ Q[j].fr.bound = Q[b + 1].fr.bound /\ Q[j].fr.E = Q[b + 1].fr.E
  BY <1>2, <1>4, Opened DEF Fits, Same
<1>6. ASSUME NEW v \in NameSet PROVE Reaches(O, Q, j, v)
  <2>1. Q[j].fr.bound[v] = IF v \in Brought(Q, b) THEN Way(acc[b].x) ELSE Q[b].fr.bound[v]
    BY <1>2, <1>5, Opened DEF Brought
  <2>2. CASE v \in Brought(Q, b)
    <3>1. Greatest(Bringers(O, Q, j, v), b)
      <4>1. b \in Bringers(O, Q, j, v)
        BY <1>1, <2>2 DEF Bringers
      <4>2. ASSUME NEW c \in Bringers(O, Q, j, v) PROVE c <= b
        <5>1. c \in Around(O, b) \/ c = b
          BY <1>1 DEF Bringers
        <5>2. ASSUME c \in Around(O, b) PROVE c <= b
          BY <1>2, <1>3, <5>2
        <5> QED  BY <1>2, <5>1, <5>2
      <4> QED  BY <4>1, <4>2 DEF Greatest
    <3> QED  BY <2>1, <2>2, <3>1 DEF Reaches
  <2>3. CASE v \notin Brought(Q, b)
    <3>1. Bringers(O, Q, j, v) = Bringers(O, Q, b, v)
      BY <1>1, <2>3 DEF Bringers
    <3>2. Reaches(O, Q, b, v)
      BY DEF Known
    <3> QED  BY <2>1, <2>3, <3>1, <3>2 DEF Reaches
  <2> QED  BY <2>2, <2>3
<1>7. ASSUME "inw" \in Q[j].fr.has PROVE \E c \in Around(O, j) : acc[c].x = "with"
  <2>1. "inw" \in Q[b].fr.has \/ acc[b].x = "with"
    BY <1>2, <1>5, <1>7, Opened
  <2>2. "inw" \in Q[b].fr.has => \E c \in Around(O, b) : acc[c].x = "with"
    BY DEF Known
  <2> QED  BY <1>1, <2>1, <2>2
<1>8. ASSUME "cov" \in Q[j].fr.has PROVE \E c \in Around(O, j) : acc[c].x \in Shelters
  <2>1. "cov" \in Q[b].fr.has \/ acc[b].x \in Shelters
    BY <1>2, <1>5, <1>8, Opened DEF Cov
  <2>2. "cov" \in Q[b].fr.has => \E c \in Around(O, b) : acc[c].x \in Shelters
    BY DEF Known
  <2> QED  BY <1>1, <2>1, <2>2
<1>9. ASSUME Quiet(Q[j]), NEW c \in Around(O, j), acc[c].x \in Bindings
      PROVE  \/ \A v \in Q[c + 1].fr.E : Given(O, c, v, j)
             \/ \E s \in Around(O, j) : s > c /\ acc[s].x \in Screens
  <2>1. CASE c = b
    <3>1. Q[j].fr.a = Q[b + 1].fr.E
      BY <1>5, <1>9, <2>1 DEF Quiet
    <3> QED  BY <1>4, <2>1, <3>1 DEF Fits
  <2>2. CASE c \in Around(O, b)
    <3>1. c < b /\ c \in Nat /\ b > c
      BY <1>2, <1>3, <2>2
    <3>2. "calm" \in Q[b + 1].fr.has
      BY <1>5, <1>9 DEF Quiet
    <3>3. Quiet(Q[b]) \/ acc[b].x \in Screens
      BY <1>2, <3>2, Opened
    <3>4. CASE acc[b].x \in Screens
      BY <1>1, <3>1, <3>4
    <3>5. CASE Quiet(Q[b])
      <4>1. Calmed(O, Q, b)
        BY <3>5 DEF Known
      <4>2. \/ \A v \in Q[c + 1].fr.E : Given(O, c, v, b)
            \/ \E s \in Around(O, b) : s > c /\ acc[s].x \in Screens
        BY <1>9, <2>2, <4>1 DEF Calmed
      <4>3. \A v : Given(O, c, v, b) => Given(O, c, v, j)
        <5>1. b <= j
          BY <1>2
        <5> QED  BY <1>2, <5>1, LaterGiven
      <4> QED  BY <1>1, <4>2, <4>3
    <3> QED  BY <3>3, <3>4, <3>5
  <2> QED  BY <1>1, <2>1, <2>2
<1>10. Quiet(Q[j]) => Calmed(O, Q, j)
  BY <1>9 DEF Calmed
<1> QED  BY <1>6, <1>7, <1>8, <1>10 DEF Known

LEMMA AllKnown ==
  ASSUME NEW O, NEW Q, Ready(O, Q)
  PROVE  \A j \in 1 .. (Len(acc) + 1) : Known(O, Q, j)
<1> DEFINE Bad == {j \in 1 .. (Len(acc) + 1) : ~Known(O, Q, j)}
<1> SUFFICES ASSUME Bad # {} PROVE FALSE
  OBVIOUS
<1>1. Bad \in SUBSET Nat
  BY DEF Ready
<1>2. PICK k \in Bad : \A y \in Bad : k <= y
  BY <1>1, LeastNumber
<1>3. k \in 1 .. (Len(acc) + 1) /\ ~Known(O, Q, k)
  BY <1>2
<1> DEFINE b == Innermost(O, k)
<1>4. b # 0
  BY <1>3, KnownOutside
<1>5. b \in Around(O, k)
  BY <1>3, <1>4, AroundTop
<1>6. b \in 1 .. Len(acc) /\ b < k /\ k \in Nat /\ b \in Nat /\ Len(acc) \in Nat
  BY <1>3, <1>5, AroundRange DEF Ready
<1>7. Known(O, Q, b)
  <2> HIDE DEF b
  <2>1. b \in 1 .. (Len(acc) + 1) /\ ~(k <= b)
    BY <1>6
  <2> QED  BY <1>2, <2>1
<1> QED  BY <1>3, <1>4, <1>7, KnownInside

(* A bracket that is open has been open ever since. *)
LEMMA StaysOpen ==
  ASSUME NEW O, NEW Q, Ready(O, Q), NEW j \in 1 .. (Len(acc) + 1), NEW w \in Around(O, j),
         NEW m \in 1 .. j, w < m
  PROVE  w \in Around(O, m)
<1> SUFFICES ASSUME w \notin Around(O, m) PROVE FALSE
  OBVIOUS
<1> DEFINE T == {i \in m .. j : w \in Around(O, i)}
<1>0. j \in Nat /\ m \in Nat /\ Len(acc) \in Nat /\ m <= j /\ w \in Nat
  <2>1. w \in Nat
    BY AroundRange
  <2> QED  BY <2>1 DEF Ready
<1>1. T \in SUBSET Nat /\ j \in T
  BY <1>0
<1>2. PICK k \in T : \A y \in T : k <= y
  BY <1>1, LeastNumber
<1>3. k \in m .. j /\ w \in Around(O, k) /\ k # m
  BY <1>2
<1> DEFINE i == k - 1
<1>4. i \in m .. j /\ i \in 1 .. Len(acc) /\ i \in 1 .. (Len(acc) + 1) /\ i + 1 = k /\ ~(k <= i)
      /\ w # i
  BY <1>0, <1>3
<1>5. w \notin Around(O, i)
  <2> HIDE DEF i
  <2> QED  BY <1>2, <1>4
<1> HIDE DEF i
<1>6. CASE acc[i].t = "open"
  BY <1>3, <1>4, <1>5, <1>6, OpenStep
<1>7. CASE acc[i].t = "close"
  <2> DEFINE c == Innermost(O, i)
  <2>1. c \in Around(O, i) /\ O[k] = O[c]
    BY <1>4, <1>7, CloseStep
  <2> HIDE DEF c
  <2>2. Around(O, c) \subseteq Around(O, i)
    BY <1>4, <2>1, AroundInner
  <2>3. Around(O, k) = Around(O, c)
    BY <2>1 DEF Around
  <2> QED  BY <1>3, <1>5, <2>2, <2>3
<1>8. CASE acc[i].t # "open" /\ acc[i].t # "close"
  <2>1. O[k] = O[i]
    BY <1>4, <1>8, StayStep
  <2>2. Around(O, k) = Around(O, i)
    BY <2>1 DEF Around
  <2> QED  BY <1>3, <1>5, <2>2
<1> QED  BY <1>6, <1>7, <1>8

(* A bracket that may open only in a quiet place, or is a merge's await. *)
LEMMA StrictIsQuiet ==
  ASSUME NEW O, NEW Q, Ready(O, Q), NEW j \in 1 .. Len(acc), acc[j].t = "read",
         NEW w \in Around(O, j), ~Unwrapped(w), acc[w].x \notin Screens
  PROVE  Quiet(Q[w])
<1> SUFFICES ASSUME ~Quiet(Q[w]) PROVE FALSE
  OBVIOUS
<1>0. Len(acc) \in Nat /\ j \in 1 .. (Len(acc) + 1)
  BY DEF Ready
<1>1. w \in 1 .. Len(acc) /\ acc[w].t = "open" /\ w < j /\ w \in Nat
  BY <1>0, AroundRange
<1>2. acc[w].x = "await"
  <2>1. MayOpen(acc[w], Q[w])
    BY <1>1, Opened
  <2>2. acc[w].x \notin Passing
    BY DEF Unwrapped, Passing
  <2> QED  BY <2>1, <2>2 DEF MayOpen
<1>3. "mrg" \in Q[w + 1].fr.has
  BY <1>1, <1>2, Opened
<1> DEFINE k == w + 1
<1>4. k \in 1 .. Len(acc) /\ k \in 1 .. j /\ k + 1 \in Nat /\ w # k
  BY <1>0, <1>1
<1>5. acc[k].t = "close" \/ acc[k] = Open("merge", "")
  <2>1. Moves(acc[k], Q[k], Q[k + 1], <<>>)
    BY <1>4 DEF Ready, Walk
  <2> HIDE DEF k
  <2> QED  BY <1>3, <2>1, Zenon DEF Moves, k
<1>6. acc[k].t = "close"
  BY <1>2, <1>5, Zenon DEF Unwrapped
<1>7. k # j
  BY <1>6
<1>8. k + 1 \in 1 .. j /\ w < k + 1
  BY <1>0, <1>1, <1>4, <1>7
<1>9. w \in Around(O, k + 1)
  BY <1>0, <1>8, StaysOpen
<1>10. Innermost(O, k) = w
  BY <1>1, OpenStep
<1>11. O[k + 1] = O[w]
  BY <1>4, <1>6, <1>10, CloseStep
<1>12. w \in Around(O, w)
  BY <1>9, <1>11 DEF Around
<1>13. w < w
  BY <1>0, <1>1, <1>12, AroundRange
<1> QED  BY <1>1, <1>13

(* A finished translation: the walk over its whole output. *)
LEMMA DoneWalk ==
  ASSUME TypeOK, Inv, FlowInv, status = "done"
  PROVE  \E Q : Ready(Enclosing, Q) /\ Len(Enclosing[Len(acc) + 1]) = 0
<1>1. acc \in Seq(Token) /\ Len(acc) \in Nat
  BY DEF TypeOK
<1>2. PICK p, q, e : /\ p.rest = q.rest /\ Path(acc, Start0, p, <<>>)
                     /\ Path(todo, q, e, vars) /\ e.rest = <<>>
  BY DEF FlowInv
<1>3. todo = <<>>
  BY DEF Inv, Restores
<1>4. q = e
  <2>1. Len(todo) = 0
    BY <1>3
  <2>2. PICK Z : Z[1] = q /\ Z[Len(todo) + 1] = e
    BY <1>2 DEF Path
  <2> QED  BY <2>1, <2>2
<1>5. PICK Q : /\ Q[1] = Start0 /\ Q[Len(acc) + 1] = p
               /\ \A j \in 1 .. Len(acc) : Moves(acc[j], Q[j], Q[j + 1], <<>>)
  BY <1>2 DEF Path
<1>6. Walk(Q)
  BY <1>1, <1>5 DEF Walk
<1>7. Ready(Enclosing, Q)
  BY <1>1, <1>6, EnclosingNests, IsReady
<1>8. Len(acc) + 1 \in 1 .. (Len(acc) + 1)
  BY <1>1
<1>9. Frames(Q, Enclosing, Len(acc) + 1)
  BY <1>7, <1>8 DEF Ready
<1>10. Len(p.rest) = 0
  BY <1>2, <1>4
<1> QED  BY <1>5, <1>7, <1>9, <1>10 DEF Frames

LEMMA LatestIs ==
  ASSUME NEW O, NEW Q, Ready(O, Q), Len(O[Len(acc) + 1]) = 0,
         NEW j \in 1 .. (Len(acc) + 1), NEW v
  PROVE  /\ Binders(O, j, v) = Bringers(O, Q, j, v)
         /\ \A b : Greatest(Bringers(O, Q, j, v), b) => Latest(Binders(O, j, v)) = b
<1>1. Binders(O, j, v) = Bringers(O, Q, j, v)
  <2>1. \A b \in Around(O, j) : Binds(O, b, v) <=> v \in Brought(Q, b)
    BY AroundRange, BindsBrought
  <2> QED  BY <2>1 DEF Binders, Bringers
<1> DEFINE B == Bringers(O, Q, j, v)
<1>2. \A c \in B : c \in Nat
  BY AroundRange DEF Bringers
<1> HIDE DEF B
<1>3. ASSUME NEW b, Greatest(B, b) PROVE Latest(B) = b
  <2>1. b \in B /\ \A c \in B : c <= b
    BY <1>3 DEF Greatest
  <2>2. Latest(B) \in B /\ \A c \in B : c <= Latest(B)
    BY <2>1 DEF Latest
  <2>3. b <= Latest(B) /\ Latest(B) <= b /\ b \in Nat /\ Latest(B) \in Nat
    BY <1>2, <2>1, <2>2
  <2> QED  BY <2>3
<1> QED  BY <1>1, <1>3 DEF B

LEMMA DoneAwaits == ASSUME TypeOK, Inv, FlowInv PROVE AwaitInAsyncButForGaps
<1> DEFINE O == Enclosing
<1> SUFFICES ASSUME status = "done", NEW j \in DOMAIN acc, OutsideAsync(O, j)
             PROVE  \E b \in Around(O, j) : acc[b].x \in {"isset", "ns", "unop", "bsel"}
  BY DEF AwaitInAsyncButForGaps
<1>1. PICK Q : Ready(O, Q)
  BY DoneWalk
<1>2. j \in 1 .. Len(acc) /\ j \in 1 .. (Len(acc) + 1)
  BY DEF TypeOK
<1> HIDE DEF O
<1>3. acc[j].t = "open" /\ acc[j].x = "await" /\ \A b \in Around(O, j) : acc[b].x \notin AsyncFns
  BY DEF OutsideAsync
<1>4. Cov(Q[j])
  BY <1>1, <1>2, <1>3, Opened DEF MayOpen
<1>5. Known(O, Q, j)
  BY <1>1, <1>2, AllKnown
<1>6. PICK b \in Around(O, j) : acc[b].x \in Shelters
  BY <1>4, <1>5 DEF Known, Cov
<1> QED  BY <1>3, <1>6 DEF Shelters, Gaps

(* A name that is read, and the binder it is read from. *)
LEMMA BinderRead ==
  ASSUME NEW O, NEW Q, Ready(O, Q), Len(O[Len(acc) + 1]) = 0, NEW j \in 1 .. Len(acc),
         acc[j].t = "read", acc[j].x # "WithScopeVar", NEW b, b = Latest(Binders(O, j, acc[j].v))
  PROVE  /\ b \in Around(O, j) /\ b \in Binders(O, j, acc[j].v) /\ acc[j].v \in Brought(Q, b)
         /\ acc[j].x = Way(acc[b].x) /\ \A c \in Binders(O, j, acc[j].v) : c <= b
<1> DEFINE v == acc[j].v
<1>1. Moves(acc[j], Q[j], Q[j + 1], <<>>) /\ j \in 1 .. (Len(acc) + 1)
  BY DEF Ready, Walk
<1>2. v \in NameSet /\ acc[j].x # "none" /\ Q[j].fr.bound[v] = acc[j].x
  BY <1>1 DEF Moves
<1>3. Known(O, Q, j)
  BY <1>1, AllKnown
<1>4. Reaches(O, Q, j, v)
  BY <1>2, <1>3 DEF Known
<1>5. PICK c : Greatest(Bringers(O, Q, j, v), c) /\ acc[j].x = Way(acc[c].x)
  BY <1>2, <1>4 DEF Reaches
<1>6. c = b /\ Binders(O, j, v) = Bringers(O, Q, j, v)
  BY <1>1, <1>5, LatestIs
<1> QED  BY <1>5, <1>6 DEF Greatest, Bringers

LEMMA NotBound ==
  ASSUME NEW O, NEW Q, Ready(O, Q), Len(O[Len(acc) + 1]) = 0, NEW j \in 1 .. Len(acc),
         NEW v \in NameSet, Q[j].fr.bound[v] = "none"
  PROVE  Binders(O, j, v) = {}
<1>1. j \in 1 .. (Len(acc) + 1)
  BY DEF Ready
<1>2. Reaches(O, Q, j, v)
  BY <1>1, AllKnown DEF Known
<1>3. \A x : Way(x) # "none"
  BY DEF Way
<1>4. Bringers(O, Q, j, v) = {}
  BY <1>2, <1>3 DEF Reaches
<1> QED  BY <1>1, <1>4, LatestIs

(* What answers JavaScript's lookup without a gap binds the name itself. *)
LEMMA AnswerBinds ==
  ASSUME NEW O, NEW j, NEW b \in Around(O, j), NEW c, NEW v, Answers(O, b, c, v),
         ~Mangled(O, b, c, v), ~Dynamic(O, b)
  PROVE  b \in Binders(O, j, v)
<1>1. PICK i \in DOMAIN acc :
        /\ Innermost(O, i) = b
        /\ \/ /\ c \in {"LambdaArg", "LetLetVar"} /\ acc[b].x \in {"lambda", "block"}
              /\ Declaration(i) /\ JsName(c, acc[i].v) = JsName(c, v)
           \/ /\ c \in {"LetInScopeVar", "WithScopeVar"} /\ acc[b].x = NIX_IN_SCOPE
              /\ Assignment(i) /\ acc[i].v \in {v, ""}
  BY Zenon DEF Answers
<1>2. acc[i].v = v
  BY <1>1, Zenon DEF Mangled, Dynamic
<1> QED  BY <1>1, <1>2 DEF Binders, Binds, Declaration, Assignment

LEMMA DoneReads == ASSUME TypeOK, Inv, FlowInv PROVE ReadsReachTheirBinder
<1> DEFINE O == Enclosing
           Bs(j) == Binders(O, j, acc[j].v)
           Finds(j) == IF acc[j].x = "WithScopeVar"
                       THEN Bs(j) = {} /\ \E b \in Around(O, j) : acc[b].x = "with"
                       ELSE Bs(j) # {} /\ acc[j].x = BinderCateg(Latest(Bs(j)))
           First(j) == \A b \in Around(O, j) :
                         Answers(O, b, acc[j].x, acc[j].v) =>
                           \/ Bs(j) # {} /\ b <= Latest(Bs(j))
                           \/ Mangled(O, b, acc[j].x, acc[j].v) \/ Dynamic(O, b)
<1> SUFFICES ASSUME status = "done", NEW j \in DOMAIN acc
             PROVE  /\ acc[j].t = "lit" /\ acc[j].x = "builtin" => Bs(j) = {}
                    /\ acc[j].t = "read" => Finds(j) /\ First(j)
  BY DEF ReadsReachTheirBinder
<1>1. PICK Q : Ready(O, Q) /\ Len(O[Len(acc) + 1]) = 0
  BY DoneWalk
<1>2. j \in 1 .. Len(acc) /\ j \in 1 .. (Len(acc) + 1)
  BY DEF TypeOK
<1> HIDE DEF O
<1>3. Moves(acc[j], Q[j], Q[j + 1], <<>>)
  BY <1>1, <1>2 DEF Ready, Walk
<1>4. ASSUME acc[j].t = "lit", acc[j].x = "builtin" PROVE Binders(O, j, acc[j].v) = {}
  <2>1. acc[j].v \in NameSet /\ Q[j].fr.bound[acc[j].v] = "none"
    BY <1>3, <1>4 DEF Moves
  <2> QED  BY <1>1, <1>2, <2>1, NotBound
<1>5. ASSUME acc[j].t = "read", acc[j].x = "WithScopeVar"
      PROVE  Bs(j) = {} /\ \E b \in Around(O, j) : acc[b].x = "with"
  <2>1. acc[j].v \in NameSet /\ Q[j].fr.bound[acc[j].v] = "none" /\ "inw" \in Q[j].fr.has
    BY <1>3, <1>5 DEF Moves
  <2>2. Known(O, Q, j)
    BY <1>1, <1>2, AllKnown
  <2>3. Binders(O, j, acc[j].v) = {}
    BY <1>1, <1>2, <2>1, NotBound
  <2> QED  BY <2>1, <2>2, <2>3 DEF Known
<1>6. ASSUME acc[j].t = "read", acc[j].x # "WithScopeVar"
      PROVE  /\ Binders(O, j, acc[j].v) # {}
             /\ acc[j].x = BinderCateg(Latest(Binders(O, j, acc[j].v)))
  <2> DEFINE b == Latest(Binders(O, j, acc[j].v))
  <2>1. b \in Binders(O, j, acc[j].v) /\ acc[j].x = Way(acc[b].x)
    BY <1>1, <1>2, <1>6, BinderRead
  <2> HIDE DEF b
  <2>2. Way(acc[b].x) = BinderCateg(b)
    BY DEF Way, BinderCateg
  <2> QED  BY <2>1, <2>2 DEF b
<1>7. ASSUME acc[j].t = "read", NEW b \in Around(O, j), Answers(O, b, acc[j].x, acc[j].v),
             ~Mangled(O, b, acc[j].x, acc[j].v), ~Dynamic(O, b)
      PROVE  Bs(j) # {} /\ b <= Latest(Bs(j))
  <2>1. b \in Bs(j)
    BY <1>7, AnswerBinds
  <2>2. acc[j].x # "WithScopeVar"
    BY <1>5, <1>7, <2>1
  <2> QED  BY <1>1, <1>2, <1>7, <2>1, <2>2, BinderRead
<1>8. acc[j].t = "read" => First(j)
  BY <1>7
<1> QED  BY <1>4, <1>5, <1>6, <1>8

LEMMA DoneEarly == ASSUME TypeOK, Inv, FlowInv PROVE EarlyReadsAreAliases
<1> DEFINE O == Enclosing
           Bd(j) == Latest(Binders(O, j, acc[j].v))
           Ws(j) == {i \in Around(O, j) : i > Bd(j) /\ ~Unwrapped(i)}
           Listed == {"isset", "unop", "with", "ns", "bsel", "use", NIX_IN_SCOPE}
<1> SUFFICES ASSUME status = "done", NEW j \in DOMAIN acc, EarlyRead(O, j)
             PROVE  \/ Ws(j) = {}
                    \/ acc[Bd(j)].x = "block" /\ NeverAssigned(O, Bd(j), acc[j].v)
                    \/ LET w == CHOOSE i \in Ws(j) : \A k \in Ws(j) : i <= k
                       IN acc[w].x \in Listed \/ Started(O, w)
  BY DEF EarlyReadsAreAliases
<1>1. PICK Q : Ready(O, Q) /\ Len(O[Len(acc) + 1]) = 0
  BY DoneWalk
<1>2. j \in 1 .. Len(acc) /\ j \in 1 .. (Len(acc) + 1) /\ DOMAIN acc = 1 .. Len(acc)
      /\ Len(acc) \in Nat
  BY DEF TypeOK
<1> HIDE DEF O
<1> DEFINE b == Bd(j)
           v == acc[j].v
           W == Ws(j)
<1>3. /\ acc[j].t = "read" /\ acc[j].x # "WithScopeVar" /\ ~Assigned(O, b, v, j)
      /\ \A i \in Around(O, j) : i > b => ~Deferred(O, i)
  BY DEF EarlyRead
<1>4. b \in Around(O, j) /\ v \in Brought(Q, b)
  BY <1>1, <1>2, <1>3, BinderRead
<1>5. b \in 1 .. Len(acc) /\ b \in Nat /\ b < j /\ j \in Nat
  BY <1>1, <1>2, <1>4, AroundRange
<1> DEFINE w == CHOOSE i \in W : \A k \in W : i <= k
<1> SUFFICES ASSUME W # {}, acc[w].x \notin Listed, ~Started(O, w)
             PROVE  acc[b].x = "block" /\ NeverAssigned(O, b, v)
  OBVIOUS
<1>6. W \in SUBSET Nat
  BY <1>1, <1>2, AroundRange
<1>7. \A i : i \in W <=> i \in Around(O, j) /\ i > b /\ ~Unwrapped(i)
  OBVIOUS
<1> HIDE DEF W, b, Bd, Ws
<1>8. w \in W /\ \A k \in W : w <= k
  BY <1>6, LeastNumber
<1> HIDE DEF w, Listed
<1>9. w \in Around(O, j) /\ w > b /\ ~Unwrapped(w)
  BY <1>7, <1>8
<1>10. w \in 1 .. j /\ w \in 1 .. (Len(acc) + 1) /\ b < w /\ w < j /\ w \in Nat
  <2>1. w < j /\ w \in 1 .. Len(acc) /\ w \in Nat
    BY <1>1, <1>2, <1>9, AroundRange
  <2> QED  BY <1>2, <1>5, <1>9, <2>1
<1>11. acc[w].x \notin Screens
  BY <1>3, <1>9 DEF Screens, Listed, Deferred
<1>12. Quiet(Q[w])
  BY <1>1, <1>2, <1>3, <1>9, <1>11, StrictIsQuiet
<1>13. b \in Around(O, w)
  BY <1>1, <1>2, <1>4, <1>10, StaysOpen
<1>14. acc[b].x \in Bindings
  BY <1>4 DEF Brought, Brings, Bindings
<1>15. \/ \A u \in Q[b + 1].fr.E : Given(O, b, u, w)
       \/ \E s \in Around(O, w) : s > b /\ acc[s].x \in Screens
  <2>1. Known(O, Q, w)
    BY <1>1, <1>10, AllKnown
  <2> QED  BY <1>12, <1>13, <1>14, <2>1 DEF Known, Calmed
<1>16. ASSUME NEW s \in Around(O, w), s > b, acc[s].x \in Screens PROVE FALSE
  <2>1. s \in Around(O, j)
    BY <1>1, <1>2, <1>9, AroundInner
  <2>2. s < w /\ s \in Nat
    BY <1>1, <1>10, AroundRange
  <2>4. acc[s].x \notin {"set", "obj", "const", "merge", ATTRS_SCOPE} /\ acc[s].x # "await"
    BY <1>16 DEF Screens, Delaying, NIX_IN_SCOPE, ATTRS_SCOPE
  <2>5. ~Unwrapped(s)
    BY <2>4, Zenon DEF Unwrapped
  <2>6. s \in W
    BY <1>7, <1>16, <2>1, <2>5
  <2> QED  BY <1>8, <1>10, <2>2, <2>6
<1>17. \A u \in Q[b + 1].fr.E : Given(O, b, u, w)
  BY <1>15, <1>16
<1>18. v \notin Q[b + 1].fr.E
  <2> SUFFICES ASSUME v \in Q[b + 1].fr.E PROVE FALSE
    OBVIOUS
  <2>1. Given(O, b, v, j)
    <3>1. w <= j
      BY <1>10, <1>5
    <3> QED  BY <1>5, <1>10, <1>17, <3>1, LaterGiven
  <2> QED  BY <1>3, <2>1 DEF Given, Assigned
<1>19. NeverAssigned(O, b, v)
  <2> SUFFICES ASSUME NEW i \in DOMAIN acc, acc[i] = Open("set", v), Innermost(O, i) = b
               PROVE  FALSE
    BY DEF NeverAssigned
  <2>1. acc[i].t = "open" /\ acc[i].x = "set" /\ acc[i].v = v /\ i \in 1 .. Len(acc)
    BY <1>2 DEF Open
  <2>2. v \in Q[b + 1].fr.E
    BY <1>1, <2>1, SetOpens
  <2> QED  BY <1>18, <2>2
<1>20. acc[b].x # "lambda"
  BY <1>3, <1>19 DEF Assigned
<1>21. acc[b].x # NIX_IN_SCOPE
  <2>1. NIX_IN_SCOPE \notin {"lambda", "block"}
    BY DEF NIX_IN_SCOPE
  <2> QED  BY <1>4, <1>18, <2>1 DEF Brought, Brings
<1> QED  BY <1>14, <1>19, <1>20, <1>21 DEF Bindings

(***************************************************************************)
(* AwaitsAreInAsync: the `await's of the output of every translation that  *)
(* returns stand in async functions, or in one of the four gaps.           *)
(***************************************************************************)
THEOREM AwaitsAreInAsync == Spec => []AwaitInAsyncButForGaps
<1>1. TypeOK /\ Inv /\ FlowInv => AwaitInAsyncButForGaps
  BY DoneAwaits
<1>2. Inv => TypeOK
  BY DEF Inv
<1> QED  BY <1>1, <1>2, Invariance, FlowInvariance, PTL

(***************************************************************************)
(* ReadsReach: in the output of every translation that returns, JavaScript *)
(* finds for each variable the binder that resolve_ident had in mind.      *)
(***************************************************************************)
THEOREM ReadsReach == Spec => []ReadsReachTheirBinder
<1>1. TypeOK /\ Inv /\ FlowInv => ReadsReachTheirBinder
  BY DoneReads
<1>2. Inv => TypeOK
  BY DEF Inv
<1> QED  BY <1>1, <1>2, Invariance, FlowInvariance, PTL

(***************************************************************************)
(* EarlyReadsExplained: in the output of every translation that returns, a *)
(* name read before the statement that assigns it is read by one of the    *)
(* unwrapped forms, or is never assigned.                                  *)
(***************************************************************************)
THEOREM EarlyReadsExplained == Spec => []EarlyReadsAreAliases
<1>1. TypeOK /\ Inv /\ FlowInv => EarlyReadsAreAliases
  BY DoneEarly
<1>2. Inv => TypeOK
  BY DEF Inv
<1> QED  BY <1>1, <1>2, Invariance, FlowInvariance, PTL
=============================================================================
