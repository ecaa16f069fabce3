-------------------------- MODULE DeepMergeProofs ---------------------------
(***************************************************************************)
(* Theorems about the entries of a set, for all names, all literals of     *)
(* any length and all enclosing scopes.                                    *)
(*                                                                         *)
(* MergedButForGaps speaks of the end only.  The invariant says what holds *)
(* before each entry: the leaves built are those of the entries that ran.  *)
(* No gap of the implementation then means that the next entry finds       *)
(* nothing at its path, and, if its path is nested, a set to go into.      *)
(***************************************************************************)
EXTENDS DeepMergeProps, SequenceTheorems, TLAPS

(* The leaves of the entries before the one that runs next. *)
Built == UNION {LeavesOf(i) : i \in 1 .. (pc - 1)}

Typed == kind \in Kinds /\ lit \in Seq(Entry) /\ pc \in 1 .. (Len(lit) + 1)

(* What a literal without a gap has led to. *)
SoFar == Valid /\ ~Gap => error = "" /\ own = Built

Inv == Typed /\ SoFar

----------------------------------------------------------------------------
(* Key paths and leaves *)

(* A prefix agrees with the sequence wherever it has an element. *)
LEMMA PrefixPointwise ==
  ASSUME NEW s \in Seq(Key), NEW t \in Seq(Key)
  PROVE  IsPrefix(s, t) <=> Len(s) <= Len(t) /\ \A j \in 1 .. Len(s) : s[j] = t[j]
BY DEF IsPrefix

(* An entry has a path of at least one key and a value with paths. *)
LEMMA EntryFacts ==
  ASSUME Typed, NEW i \in DOMAIN lit
  PROVE  /\ lit[i].path \in Seq(Key) /\ Len(lit[i].path) >= 1
         /\ lit[i].path[1] \in Key
         /\ lit[i].value \subseteq Seq(Key) /\ lit[i].value # {}
<1>1. lit[i] \in Entry
  BY DEF Typed
<1>2. lit[i].path \in Seq(Key) /\ lit[i].path # <<>>
  BY <1>1 DEF Entry, Path
<1>3. Len(lit[i].path) >= 1 /\ lit[i].path[1] \in Key
  BY <1>2
<1>4. lit[i].value \subseteq Seq(Key) /\ lit[i].value # {}
  <2>1. <<>> \in Seq(Key)
    OBVIOUS
  <2>2. Path \cup Number \subseteq Seq(Key)
    BY <2>1 DEF Path, Number
  <2>3. lit[i].value \in (SUBSET (Path \cup Number)) \ {{}}
    BY <1>1 DEF Entry
  <2> QED  BY <2>2, <2>3
<1> QED  BY <1>2, <1>3, <1>4

(* A leaf of an entry begins with the entry's path. *)
LEMMA LeafFacts ==
  ASSUME Typed, NEW i \in DOMAIN lit, NEW l \in LeavesOf(i)
  PROVE  /\ l[1] \in Seq(Key) /\ l[2] = i
         /\ Len(l[1]) >= Len(lit[i].path)
         /\ \A j \in 1 .. Len(lit[i].path) : l[1][j] = lit[i].path[j]
<1>1. PICK q \in lit[i].value : l = <<lit[i].path \o q, i>>
  BY DEF LeavesOf
<1> DEFINE p == lit[i].path
<1>2. p \in Seq(Key) /\ q \in Seq(Key)
  BY EntryFacts, <1>1
<1> HIDE DEF p
<1>3. p \o q \in Seq(Key) /\ Len(p \o q) >= Len(p)
  BY <1>2
<1>4. \A j \in 1 .. Len(p) : (p \o q)[j] = p[j]
  BY <1>2
<1>5. l[1] = p \o q /\ l[2] = i
  BY <1>1 DEF p
<1>6. /\ l[1] \in Seq(Key) /\ l[2] = i
      /\ Len(l[1]) >= Len(p)
      /\ \A j \in 1 .. Len(p) : l[1][j] = p[j]
  BY <1>3, <1>4, <1>5
<1> QED  BY <1>6 DEF p

(* Every entry has a leaf. *)
LEMMA HasLeaf ==
  ASSUME Typed, NEW i \in DOMAIN lit
  PROVE  \E l : l \in LeavesOf(i)
<1>1. PICK q : q \in lit[i].value
  BY EntryFacts
<1>2. <<lit[i].path \o q, i>> \in LeavesOf(i)
  BY <1>1 DEF LeavesOf
<1> QED  BY <1>2

(* Entries that ran are entries. *)
LEMMA BuiltFacts ==
  ASSUME Typed, NEW l \in Built
  PROVE  \E i \in DOMAIN lit : i < pc /\ l \in LeavesOf(i)
BY DEF Built, Typed

LEMMA BuiltOf ==
  ASSUME Typed, NEW i \in 1 .. (pc - 1)
  PROVE  LeavesOf(i) \subseteq Built
BY DEF Built

----------------------------------------------------------------------------
(* A literal without a gap *)

(* An entry finds nothing at its path or below. *)
LEMMA NothingThere ==
  ASSUME Typed, ~Gap, pc <= Len(lit)
  PROVE  Below(Built, lit[pc].path) = {}
<1>1. pc \in DOMAIN lit
  BY DEF Typed
<1>2. SUFFICES ASSUME NEW l \in Built, IsPrefix(lit[pc].path, l[1])
               PROVE  FALSE
  BY DEF Below
<1>3. PICK i \in DOMAIN lit : i < pc /\ l \in LeavesOf(i)
  BY BuiltFacts
<1>4. l \in Below(LeavesOf(i), lit[pc].path)
  BY <1>2, <1>3 DEF Below
<1> QED  BY <1>1, <1>3, <1>4 DEF Gap, Rewritten

(* Put then only adds. *)
LEMMA PutAdds ==
  ASSUME Typed, ~Gap, pc <= Len(lit)
  PROVE  Put(Built, lit[pc].path, pc) = Built \cup LeavesOf(pc)
BY NothingThere DEF Put, LeavesOf

(* No number stands where a nested entry needs a set. *)
LEMMA NoNumberAbove ==
  ASSUME Typed, Valid, pc <= Len(lit), Len(lit[pc].path) > 1
  PROVE  ~ \E l \in Built : l[1] = <<lit[pc].path[1]>>
<1>1. pc \in DOMAIN lit
  BY DEF Typed
<1> SUFFICES ASSUME NEW l \in Built, l[1] = <<lit[pc].path[1]>>
             PROVE  FALSE
  OBVIOUS
<1>2. PICK i \in DOMAIN lit : i < pc /\ l \in LeavesOf(i)
  BY BuiltFacts
<1>3. PICK m : m \in LeavesOf(pc)
  BY <1>1, HasLeaf
<1>4. /\ m[1] \in Seq(Key) /\ Len(m[1]) >= Len(lit[pc].path)
      /\ \A j \in 1 .. Len(lit[pc].path) : m[1][j] = lit[pc].path[j]
  BY <1>1, <1>3, LeafFacts
<1>5. l[1] \in Seq(Key)
  BY <1>2, LeafFacts
<1>6. lit[pc].path \in Seq(Key)
  BY <1>1, EntryFacts
<1>7. m[1][1] = lit[pc].path[1]
  BY <1>4, <1>6
<1>8. Len(l[1]) = 1 /\ l[1][1] = lit[pc].path[1]
  OBVIOUS
<1>9. IsPrefix(l[1], m[1])
  <2>1. Len(l[1]) <= Len(m[1])
    BY <1>4, <1>6, <1>8
  <2>2. \A j \in 1 .. Len(l[1]) : l[1][j] = m[1][j]
    BY <1>7, <1>8
  <2> QED  BY <1>4, <1>5, <2>1, <2>2, PrefixPointwise
<1>10. l \in AllLeaves /\ m \in AllLeaves
  BY <1>1, <1>2, <1>3 DEF AllLeaves
<1>11. l = m
  BY <1>9, <1>10 DEF Valid, Tree
<1> QED  BY <1>4, <1>6, <1>8, <1>11

(* In a let, the set a nested entry goes into has been assigned. *)
LEMMA Declared ==
  ASSUME Typed, ~Gap, pc <= Len(lit), Len(lit[pc].path) > 1, Form = "let"
  PROVE  Below(Built, <<lit[pc].path[1]>>) # {}
<1>1. pc \in DOMAIN lit
  BY DEF Typed
<1>2. PICK h \in 1 .. (pc - 1) : lit[h].path = <<lit[pc].path[1]>>
  BY <1>1 DEF Gap, Undeclared
<1>3. h \in DOMAIN lit
  BY <1>2 DEF Typed
<1>4. PICK l : l \in LeavesOf(h)
  BY <1>3, HasLeaf
<1>5. /\ l[1] \in Seq(Key) /\ Len(l[1]) >= Len(lit[h].path)
      /\ \A j \in 1 .. Len(lit[h].path) : l[1][j] = lit[h].path[j]
  BY <1>3, <1>4, LeafFacts
<1>6. lit[h].path \in Seq(Key)
  BY <1>3, EntryFacts
<1>7. IsPrefix(lit[h].path, l[1])
  BY <1>5, <1>6, PrefixPointwise
<1>8. l \in Built
  BY <1>2, <1>4, BuiltOf
<1> QED  BY <1>2, <1>7, <1>8 DEF Below

----------------------------------------------------------------------------
(* The steps *)

(* An entry with a simple key adds its leaves. *)
LEMMA AssignAdds ==
  ASSUME Typed, SoFar, Valid, ~Gap, pc <= Len(lit), Assign(pc)
  PROVE  error' = "" /\ own' = Built \cup LeavesOf(pc)
<1>1. error = "" /\ own = Built
  BY DEF SoFar
<1>2. own' = Put(Built, lit[pc].path, pc)
  BY <1>1, NothingThere DEF Assign
<1> QED  BY <1>1, <1>2, PutAdds DEF Assign

(* So does one with a nested key: it has two keys, and a set to go into. *)
LEMMA DeepMergeAdds ==
  ASSUME Typed, SoFar, Valid, ~Gap, pc <= Len(lit), _deepMerge(pc)
  PROVE  error' = "" /\ own' = Built \cup LeavesOf(pc)
<1>1. error = "" /\ own = Built
  BY DEF SoFar
<1>2. pc \in DOMAIN lit /\ Len(lit[pc].path) > 1
  BY DEF Typed, _deepMerge
<1>3. Len(lit[pc].path) = 2
  <2>1. PICK n \in Nat : n = Len(lit[pc].path)
    BY <1>2, EntryFacts
  <2>2. ~(n > 2)
    BY <1>2, <2>1, Zenon DEF Gap, Deep
  <2>3. n > 1
    BY <1>2, <2>1, Zenon
  <2>4. n = 2
    BY <2>2, <2>3
  <2> QED  BY <2>1, <2>4, Zenon
<1>4. Form = "scope" \/ (Form = "let" /\ kind = "letin")
  BY <1>2, <1>3 DEF Form
<1> DEFINE k     == lit[pc].path[1]
           fresh == Form = "scope" /\ Missing(k)
           mine  == fresh \/ kind # "rec" \/ Below(own, <<k>>) # {}
           base  == IF fresh THEN "object" ELSE TypeOf(IF mine THEN own ELSE outer, <<k>>)
<1>5. mine
  BY <1>4 DEF Missing
<1>6. ASSUME ~fresh
      PROVE  Below(own, <<k>>) # {}
  <2>1. CASE Form = "scope"
    BY <1>6, <2>1 DEF Missing
  <2>2. CASE Form = "let"
    BY <1>1, <1>2, <2>2, Declared
  <2> QED  BY <1>4, <2>1, <2>2
<1>7. ~ \E l \in own : l[1] = <<k>>
  BY <1>1, <1>2, NoNumberAbove
<1>8. base = "object"
  BY <1>5, <1>6, <1>7 DEF TypeOf
<1>9. /\ own' = IF mine THEN Put(own, lit[pc].path, pc) ELSE own
      /\ UNCHANGED error
  <2> HIDE DEF mine, base
  <2> USE <1>3, <1>8
  <2>1. \/ base # "object" /\ Fail("NixEvalError")
        \/ base = "object" /\ Len(lit[pc].path) > 2 /\ Fail("TypeError")
        \/ /\ base = "object" /\ Len(lit[pc].path) = 2
           /\ own' = IF mine THEN Put(own, lit[pc].path, pc) ELSE own
           /\ UNCHANGED error
    BY DEF _deepMerge, base, mine
  <2> QED  BY <2>1
<1>10. own' = Put(own, lit[pc].path, pc)
  BY <1>5, <1>9
<1> QED  BY <1>1, <1>9, <1>10, PutAdds

(* What an entry adds is what the literal has led to after it. *)
LEMMA BuiltGrows ==
  ASSUME Typed, pc <= Len(lit), pc' = pc + 1, UNCHANGED lit
  PROVE  Built' = Built \cup LeavesOf(pc)
<1>1. \A i : LeavesOf(i)' = LeavesOf(i)
  BY DEF LeavesOf
<1>2. 1 .. (pc' - 1) = 1 .. (pc - 1) \cup {pc}
  BY DEF Typed
<1>3. Built' = UNION {LeavesOf(i) : i \in 1 .. (pc' - 1)}
  BY <1>1 DEF Built
<1> QED  BY <1>2, <1>3 DEF Built

(* The literal, and with it what it means, never changes. *)
LEMMA LiteralStays ==
  ASSUME UNCHANGED <<kind, lit>>
  PROVE  Valid' = Valid /\ Gap' = Gap
<1>1. AllLeaves' = AllLeaves
  BY DEF AllLeaves, LeavesOf
<1>2. Valid' = Valid
  BY <1>1 DEF Valid, Tree
<1>3. Deep' = Deep /\ Rewritten' = Rewritten
  BY DEF Deep, Rewritten, LeavesOf, Below
<1>4. Undeclared' = Undeclared
  BY DEF Undeclared, Form
<1> QED  BY <1>2, <1>3, <1>4 DEF Gap

LEMMA StepInv ==
  ASSUME Inv, translate_node_kv
  PROVE  Inv'
<1>1. Typed /\ SoFar /\ pc <= Len(lit) /\ UNCHANGED <<kind, lit>> /\ pc' = pc + 1
  BY DEF Inv, translate_node_kv, Running
<1>2. Typed'
  BY <1>1 DEF Typed
<1>3. ASSUME Valid, ~Gap
      PROVE  error' = "" /\ own' = Built'
  <2>1. error' = "" /\ own' = Built \cup LeavesOf(pc)
    BY <1>1, <1>3, AssignAdds, DeepMergeAdds DEF translate_node_kv
  <2> QED  BY <1>1, <2>1, BuiltGrows
<1>4. Valid' = Valid /\ Gap' = Gap
  BY <1>1, LiteralStays
<1>5. SoFar'
  BY <1>3, <1>4 DEF SoFar
<1> QED  BY <1>2, <1>5 DEF Inv

----------------------------------------------------------------------------
(***************************************************************************)
(* Before each entry, a literal without a gap has built the leaves of the  *)
(* entries that ran, and no exception has been thrown.                     *)
(***************************************************************************)
THEOREM Invariance == Spec => []Inv
<1>1. Init => Inv
  <2> SUFFICES ASSUME Init PROVE Inv
    OBVIOUS
  <2>1. Typed
    <3>1. lit \in Seq(Entry)
      BY EntriesAssumption DEF Init
    <3>2. 1 \in 1 .. (Len(lit) + 1)
      BY <3>1
    <3> QED  BY <3>1, <3>2 DEF Init, Typed
  <2>2. Built = {}
    <3>1. pc = 1
      BY DEF Init
    <3>2. 1 .. (pc - 1) = {}
      BY <3>1
    <3> QED  BY <3>2 DEF Built
  <2> QED  BY <2>1, <2>2 DEF Init, Inv, SoFar
<1>2. Inv /\ [Next]_vars => Inv'
  <2> SUFFICES ASSUME Inv, [Next]_vars PROVE Inv'
    OBVIOUS
  <2>1. CASE Next
    BY <2>1, StepInv DEF Next
  <2>2. CASE UNCHANGED vars
    <3>1. Valid' = Valid /\ Gap' = Gap
      BY <2>2, LiteralStays DEF vars
    <3>2. Built' = Built
      BY <2>2 DEF vars, Built, LeavesOf
    <3> QED  BY <2>2, <3>1, <3>2 DEF vars, Inv, Typed, SoFar
  <2> QED  BY <2>1, <2>2
<1> QED  BY <1>1, <1>2, PTL DEF Spec

(***************************************************************************)
(* Outside the gaps the statements build exactly what the entries mean     *)
(* together, for literals of any length (lib.rs 226, index.ts 399).        *)
(***************************************************************************)
THEOREM Merged == Spec => []MergedButForGaps
<1>1. Inv => MergedButForGaps
  <2> SUFFICES ASSUME Inv, Valid, Finished, ~Gap
               PROVE  error = "" /\ own = AllLeaves
    BY DEF MergedButForGaps
  <2>1. error = "" /\ own = Built
    BY DEF Inv, SoFar
  <2>2. pc = Len(lit) + 1 /\ DOMAIN lit = 1 .. Len(lit)
    <3>1. lit \in Seq(Entry) /\ pc \in 1 .. (Len(lit) + 1) /\ pc > Len(lit)
      BY <2>1 DEF Finished, Inv, Typed
    <3>2. Len(lit) \in Nat /\ DOMAIN lit = 1 .. Len(lit)
      BY <3>1
    <3> QED  BY <3>1, <3>2
  <2>3. 1 .. (pc - 1) = DOMAIN lit
    BY <2>2 DEF Inv, Typed
  <2> QED  BY <2>1, <2>3 DEF Built, AllLeaves
<1> QED  BY <1>1, Invariance, PTL

(***************************************************************************)
(* No entry ever changes the enclosing scope: a nested key of a `rec' that *)
(* is missing is made first (the hasOwnProperty at lib.rs 234).            *)
(***************************************************************************)
THEOREM EnclosingUntouched == Spec => OuterUntouched
<1>1. [Next]_vars => [outer' = outer]_vars
  BY DEF Next, vars, translate_node_kv, Assign, _deepMerge, Fail, Missing, Form
<1> QED  BY <1>1, PTL DEF Spec, OuterUntouched
=============================================================================
