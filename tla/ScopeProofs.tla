---------------------------- MODULE ScopeProofs -----------------------------
(***************************************************************************)
(* Proofs about scopes: for every set of names and values and every number *)
(* of objects.  Lookups are recursive functions over the heap; that they   *)
(* are what their definitions say, and every fact about a lookup, is by    *)
(* induction on the number of the object, in the form of a least           *)
(* counterexample (LeastNumber).                                           *)
(***************************************************************************)
EXTENDS ScopeProps, SequenceTheorems, WellFoundedInduction, TLAPS
----------------------------------------------------------------------------
(***************************************************************************)
(* Induction.  The least-number principle for sets of numbers, and from it *)
(* that a function whose values depend on its values at smaller arguments  *)
(* exists; Step[<<i, f>>] is the value at i when f gives the others.       *)
(***************************************************************************)
Less == {ss \in Nat \X Nat : ss[1] < ss[2]}

LEMMA LeastNumber ==
  ASSUME NEW T \in SUBSET Nat, T # {}
  PROVE  \E x \in T : \A y \in T : x <= y
<1>1. Less = OpToRel(<, Nat)
  BY DEF Less, OpToRel
<1>2. IsWellFoundedOn(Less, Nat)
  BY <1>1, NatLessThanWellFounded
<1>3. PICK x \in T : \A y \in T : ~(<<y, x>> \in Less)
  BY <1>2, WFMin
<1>4. ASSUME NEW y \in T PROVE x <= y
  <2>1. x \in Nat /\ y \in Nat /\ <<y, x>> \notin Less
    BY <1>3
  <2>2. ~(y < x)
    BY <2>1 DEF Less
  <2> QED  BY <2>1, <2>2
<1> QED  BY <1>4

Downward(n, D, V, Step) ==
  /\ n \in Nat /\ D \in SUBSET (0 .. n) /\ V # {}
  /\ Step \in [D \X [D -> V] -> V]
  /\ \A i \in D, f, g \in [D -> V] :
       (\A j \in D : j < i => f[j] = g[j]) => Step[<<i, f>>] = Step[<<i, g>>]

LEMMA RecursionWorks ==
  ASSUME NEW n, NEW D, NEW V, NEW Step, Downward(n, D, V, Step)
  PROVE  \E f \in [D -> V] : \A i \in D : f[i] = Step[<<i, f>>]
<1>n. n \in Nat /\ D \in SUBSET (0 .. n)
  BY DEF Downward
<1>0. \A i \in D : i \in Nat /\ ~(i < 0) /\ i < n + 1
  BY <1>n
<1> USE <1>n DEF Downward
<1> PICK v0 \in V : TRUE
  OBVIOUS
<1> DEFINE Upto(k, f) == \A i \in D : i < k => f[i] = Step[<<i, f>>]
           Bad == {k \in 0 .. (n + 1) : ~\E f \in [D -> V] : Upto(k, f)}
<1>1. Bad = {}
  <2> SUFFICES ASSUME Bad # {} PROVE FALSE
    OBVIOUS
  <2>1. Bad \in SUBSET Nat
    OBVIOUS
  <2>2. PICK k \in Bad : \A y \in Bad : k <= y
    BY <2>1, LeastNumber
  <2>3. k \in 0 .. (n + 1) /\ ~\E f \in [D -> V] : Upto(k, f)
    BY <2>2
  <2>4. k # 0
    <3>1. [i \in D |-> v0] \in [D -> V] /\ Upto(0, [i \in D |-> v0])
      BY <1>0
    <3> QED  BY <2>3, <3>1
  <2> HIDE DEF Upto
  <2>5. k - 1 \in 0 .. (n + 1)
    BY <2>3, <2>4
  <2>6. PICK f \in [D -> V] : Upto(k - 1, f)
    <3> HIDE DEF Bad
    <3>1. k - 1 \notin Bad
      BY <2>1, <2>2, <2>5
    <3> QED  BY <2>5, <3>1 DEF Bad
  <2> DEFINE g == [i \in D |-> IF i = k - 1 THEN Step[<<i, f>>] ELSE f[i]]
  <2>7. g \in [D -> V]
    OBVIOUS
  <2>8. ASSUME NEW i \in D, i < k PROVE g[i] = Step[<<i, g>>]
    <3>1. \A j \in D : j < i => f[j] = g[j]
      BY <1>0, <2>3, <2>8
    <3> HIDE DEF g
    <3>2. Step[<<i, f>>] = Step[<<i, g>>]
      BY <2>7, <3>1
    <3>3. g[i] = IF i = k - 1 THEN Step[<<i, f>>] ELSE f[i]
      BY DEF g
    <3>4. i # k - 1 => f[i] = Step[<<i, f>>]
      BY <1>0, <2>3, <2>6, <2>8 DEF Upto
    <3> QED  BY <3>2, <3>3, <3>4
  <2> HIDE DEF g
  <2>9. Upto(k, g)
    BY <2>8 DEF Upto
  <2> QED  BY <2>3, <2>7, <2>9
<1>2. PICK f \in [D -> V] : Upto(n + 1, f)
  <2> HIDE DEF Upto
  <2>1. n + 1 \in 0 .. (n + 1)
    OBVIOUS
  <2> QED  BY <1>1, <2>1
<1>3. \A i \in D : f[i] = Step[<<i, f>>]
  BY <1>0, <1>2
<1> QED  BY <1>3

----------------------------------------------------------------------------
(***************************************************************************)
(* The heap: objects refer to earlier ones; only a scope has a prototype,  *)
(* and only a `with' looks through others.                                 *)
(***************************************************************************)
Built(h) ==
  /\ h \in Seq(Object)
  /\ \A o \in DOMAIN h : h[o].proto < o /\ \A j \in DOMAIN h[o].objs : h[o].objs[j] \in 1 .. (o - 1)
  /\ \A o \in DOMAIN h : /\ h[o].kind # "scope" => h[o].proto = 0
                         /\ h[o].kind # "with" => h[o].objs = <<>>

LEMMA BuiltObject ==
  ASSUME NEW h, Built(h), NEW o \in 1 .. Len(h)
  PROVE  /\ Len(h) \in Nat /\ o \in DOMAIN h /\ o \in Nat
         /\ h[o] \in Object /\ h[o].proto \in 0 .. (o - 1) /\ h[o].proto \in 0 .. Len(h)
         /\ h[o].proto < o /\ h[o].own \in Own
         /\ h[o].kind \in {"plain", "scope", "with"}
         /\ \A j \in DOMAIN h[o].objs : /\ h[o].objs[j] \in 1 .. (o - 1) /\ h[o].objs[j] < o
                                        /\ h[o].objs[j] \in 0 .. Len(h)
         /\ h[o].kind # "scope" => h[o].proto = 0
         /\ h[o].kind # "with" => h[o].objs = <<>>
         /\ h[o].objs \in Seq(Nat)
<1>1. Len(h) \in Nat /\ o \in DOMAIN h /\ o \in Nat /\ h[o] \in Object
  BY DEF Built
<1>2. h[o].proto \in Nat /\ h[o].own \in Own /\ h[o].objs \in Seq(Nat)
      /\ h[o].kind \in {"plain", "scope", "with"}
  BY <1>1 DEF Object
<1>3. /\ h[o].proto < o /\ \A j \in DOMAIN h[o].objs : h[o].objs[j] \in 1 .. (o - 1)
      /\ h[o].kind # "scope" => h[o].proto = 0
      /\ h[o].kind # "with" => h[o].objs = <<>>
  BY <1>1 DEF Built
<1>4. h[o].proto \in 0 .. (o - 1) /\ h[o].proto \in 0 .. Len(h)
  BY <1>1, <1>2, <1>3
<1>5. \A j \in DOMAIN h[o].objs : h[o].objs[j] < o /\ h[o].objs[j] \in 0 .. Len(h)
  BY <1>1, <1>3
<1> QED  BY <1>1, <1>2, <1>3, <1>4, <1>5

(* What the recursive definition of `in' says. *)
HasStep(h, key, f, i) ==
  /\ i # 0
  /\ \/ h[i].own[key] # Absent
     \/ f[h[i].proto]
     \/ \E j \in DOMAIN h[i].objs : f[h[i].objs[j]]

LEMMA HasDefined ==
  ASSUME NEW h, Built(h), NEW key
  PROVE  HasTable(h, key) = [i \in 0 .. Len(h) |-> HasStep(h, key, HasTable(h, key), i)]
<1> DEFINE D == 0 .. Len(h)
           Eq(g) == g = [i \in D |-> HasStep(h, key, g, i)]
           Step == [a \in D \X [D -> BOOLEAN] |-> HasStep(h, key, a[2], a[1])]
<1>1. Len(h) \in Nat /\ D \in SUBSET (0 .. Len(h)) /\ \A i \in D : i # 0 => i \in 1 .. Len(h)
  BY DEF Built
<1>2. Step \in [D \X [D -> BOOLEAN] -> BOOLEAN]
  BY DEF HasStep
<1>3. ASSUME NEW i \in D, NEW f \in [D -> BOOLEAN], NEW g \in [D -> BOOLEAN],
             \A j \in D : j < i => f[j] = g[j]
      PROVE  Step[<<i, f>>] = Step[<<i, g>>]
  <2>1. Step[<<i, f>>] = HasStep(h, key, f, i) /\ Step[<<i, g>>] = HasStep(h, key, g, i)
    OBVIOUS
  <2>2. i # 0 => /\ f[h[i].proto] = g[h[i].proto]
                 /\ \A j \in DOMAIN h[i].objs : f[h[i].objs[j]] = g[h[i].objs[j]]
    BY <1>1, <1>3, BuiltObject
  <2> QED  BY <2>1, <2>2 DEF HasStep
<1> HIDE DEF D, Step
<1>4. PICK f \in [D -> BOOLEAN] : \A i \in D : f[i] = Step[<<i, f>>]
  <2>1. Downward(Len(h), D, BOOLEAN, Step)
    BY <1>1, <1>2, <1>3 DEF Downward
  <2> QED  BY <2>1, RecursionWorks
<1>5. \A i \in D : f[i] = HasStep(h, key, f, i)
  BY <1>4 DEF Step
<1>6. Eq(f)
  BY <1>5
<1>7. HasTable(h, key) = CHOOSE g : Eq(g)
  BY DEF HasTable, HasStep, D
<1> HIDE DEF Eq
<1>8. Eq(CHOOSE g : Eq(g))
  BY <1>6
<1>9. Eq(HasTable(h, key))
  BY <1>7, <1>8
<1> QED  BY <1>9 DEF Eq, D

LEMMA HasRule ==
  ASSUME NEW h, Built(h), NEW key
  PROVE  /\ ~Has(h, 0, key)
         /\ \A i \in 1 .. Len(h) :
              Has(h, i, key) <=> \/ h[i].own[key] # Absent
                                 \/ Has(h, h[i].proto, key)
                                 \/ \E j \in DOMAIN h[i].objs : Has(h, h[i].objs[j], key)
<1> DEFINE T == HasTable(h, key)
<1>1. T = [i \in 0 .. Len(h) |-> HasStep(h, key, T, i)]
  BY HasDefined
<1>2. Len(h) \in Nat
  BY DEF Built
<1> HIDE DEF T
<1>3. 0 \in 0 .. Len(h) /\ \A i \in 1 .. Len(h) : i \in 0 .. Len(h) /\ i # 0
  BY <1>2
<1>4. \A i \in 0 .. Len(h) : T[i] = HasStep(h, key, T, i)
  BY <1>1
<1>5. ~T[0]
  BY <1>3, <1>4 DEF HasStep
<1>6. ASSUME NEW i \in 1 .. Len(h)
      PROVE  T[i] <=> \/ h[i].own[key] # Absent \/ T[h[i].proto]
                      \/ \E j \in DOMAIN h[i].objs : T[h[i].objs[j]]
  BY <1>3, <1>4 DEF HasStep
<1> QED  BY <1>5, <1>6 DEF Has, T

LEMMA FirstFound ==
  ASSUME NEW h, NEW key, NEW s \in Seq(Nat), \E j \in DOMAIN s : Has(h, s[j], key)
  PROVE  \E j \in DOMAIN s : Finds(h, s, key, j)
<1> DEFINE T == {j \in DOMAIN s : Has(h, s[j], key)}
<1>1. T \in SUBSET Nat /\ T # {}
  OBVIOUS
<1>2. PICK j \in T : \A i \in T : j <= i
  BY <1>1, LeastNumber
<1>3. j \in DOMAIN s /\ Has(h, s[j], key) /\ DOMAIN s = 1 .. Len(s) /\ Len(s) \in Nat
  BY <1>2
<1>4. ASSUME NEW i \in 1 .. (j - 1) PROVE ~Has(h, s[i], key)
  <2>1. i \in DOMAIN s /\ ~(j <= i)
    BY <1>3
  <2> QED  BY <1>2, <2>1
<1> QED  BY <1>3, <1>4 DEF Finds

(* What the recursive definition of lookups says. *)
Found(h, s, key) == CHOOSE j \in DOMAIN s : Finds(h, s, key, j)

HolderStep(h, key, f, i) ==
  IF i = 0 \/ h[i].own[key] # Absent THEN i
  ELSE IF h[i].kind # "with" THEN f[h[i].proto]
  ELSE IF \E j \in DOMAIN h[i].objs : Has(h, h[i].objs[j], key)
  THEN f[h[i].objs[Found(h, h[i].objs, key)]]
  ELSE 0

LEMMA FoundOne ==
  ASSUME NEW h, NEW key, NEW s \in Seq(Nat), \E j \in DOMAIN s : Has(h, s[j], key)
  PROVE  Found(h, s, key) \in DOMAIN s /\ Finds(h, s, key, Found(h, s, key))
  BY FirstFound DEF Found

LEMMA HolderDefined ==
  ASSUME NEW h, Built(h), NEW key
  PROVE  HolderTable(h, key)
           = [i \in 0 .. Len(h) |-> HolderStep(h, key, HolderTable(h, key), i)]
<1> DEFINE D == 0 .. Len(h)
           Eq(g) == g = [i \in D |-> HolderStep(h, key, g, i)]
           Step == [a \in D \X [D -> D] |-> HolderStep(h, key, a[2], a[1])]
<1>1. /\ Len(h) \in Nat /\ D \in SUBSET (0 .. Len(h)) /\ 0 \in D
      /\ \A i \in D : i # 0 => i \in 1 .. Len(h)
  BY DEF Built
<1>2. ASSUME NEW i \in D, i # 0
      PROVE  /\ h[i].proto \in D /\ h[i].proto < i
             /\ (\E j \in DOMAIN h[i].objs : Has(h, h[i].objs[j], key)) =>
                  /\ h[i].objs[Found(h, h[i].objs, key)] \in D
                  /\ h[i].objs[Found(h, h[i].objs, key)] < i
  <2>1. /\ h[i].proto \in D /\ h[i].proto < i /\ h[i].objs \in Seq(Nat)
        /\ \A j \in DOMAIN h[i].objs : h[i].objs[j] \in D /\ h[i].objs[j] < i
    BY <1>1, <1>2, BuiltObject
  <2> QED  BY <2>1, FoundOne
<1>3. ASSUME NEW i \in D, NEW f \in [D -> D]
      PROVE  HolderStep(h, key, f, i) \in D
  BY <1>1, <1>2 DEF HolderStep
<1>4. Step \in [D \X [D -> D] -> D]
  BY <1>3
<1>5. ASSUME NEW i \in D, NEW f \in [D -> D], NEW g \in [D -> D],
             \A j \in D : j < i => f[j] = g[j]
      PROVE  Step[<<i, f>>] = Step[<<i, g>>]
  <2>1. Step[<<i, f>>] = HolderStep(h, key, f, i) /\ Step[<<i, g>>] = HolderStep(h, key, g, i)
    OBVIOUS
  <2> QED  BY <1>2, <1>5, <2>1 DEF HolderStep
<1> HIDE DEF D, Step
<1>6. PICK f \in [D -> D] : \A i \in D : f[i] = Step[<<i, f>>]
  <2>1. Downward(Len(h), D, D, Step)
    BY <1>1, <1>4, <1>5 DEF Downward
  <2> QED  BY <2>1, RecursionWorks
<1>7. \A i \in D : f[i] = HolderStep(h, key, f, i)
  BY <1>6 DEF Step
<1>8. Eq(f)
  BY <1>7
<1>9. HolderTable(h, key) = CHOOSE g : Eq(g)
  BY DEF HolderTable, HolderStep, Found, D
<1> HIDE DEF Eq
<1>10. Eq(CHOOSE g : Eq(g))
  BY <1>8
<1>11. Eq(HolderTable(h, key))
  BY <1>9, <1>10
<1> QED  BY <1>11 DEF Eq, D

(* Lookup by cases. *)
LEMMA HolderRule ==
  ASSUME NEW h, Built(h), NEW key
  PROVE  /\ Holder(h, 0, key) = 0
         /\ \A i \in 1 .. Len(h) :
              /\ h[i].own[key] # Absent => Holder(h, i, key) = i
              /\ h[i].own[key] = Absent /\ h[i].kind # "with" =>
                   Holder(h, i, key) = Holder(h, h[i].proto, key)
              /\ h[i].own[key] = Absent /\ h[i].kind = "with" =>
                   \/ \E j \in DOMAIN h[i].objs :
                        /\ Finds(h, h[i].objs, key, j)
                        /\ Holder(h, i, key) = Holder(h, h[i].objs[j], key)
                   \/ /\ \A j \in DOMAIN h[i].objs : ~Has(h, h[i].objs[j], key)
                      /\ Holder(h, i, key) = 0
<1> DEFINE T == HolderTable(h, key)
<1>1. T = [i \in 0 .. Len(h) |-> HolderStep(h, key, T, i)]
  BY HolderDefined
<1>2. Len(h) \in Nat
  BY DEF Built
<1> HIDE DEF T
<1>3. 0 \in 0 .. Len(h) /\ \A i \in 1 .. Len(h) : i \in 0 .. Len(h) /\ i # 0
  BY <1>2
<1>4. \A i \in 0 .. Len(h) : T[i] = HolderStep(h, key, T, i)
  BY <1>1
<1>5. T[0] = 0
  BY <1>3, <1>4 DEF HolderStep
<1>6. ASSUME NEW i \in 1 .. Len(h)
      PROVE  /\ h[i].own[key] # Absent => T[i] = i
             /\ h[i].own[key] = Absent /\ h[i].kind # "with" => T[i] = T[h[i].proto]
             /\ h[i].own[key] = Absent /\ h[i].kind = "with" =>
                  \/ \E j \in DOMAIN h[i].objs :
                       Finds(h, h[i].objs, key, j) /\ T[i] = T[h[i].objs[j]]
                  \/ /\ \A j \in DOMAIN h[i].objs : ~Has(h, h[i].objs[j], key)
                     /\ T[i] = 0
  <2>1. h[i].objs \in Seq(Nat)
    BY BuiltObject
  <2>2. T[i] = HolderStep(h, key, T, i) /\ i # 0
    BY <1>3, <1>4
  <2>3. CASE h[i].own[key] = Absent /\ h[i].kind = "with"
             /\ \E j \in DOMAIN h[i].objs : Has(h, h[i].objs[j], key)
    <3>1. T[i] = T[h[i].objs[Found(h, h[i].objs, key)]]
      BY <2>2, <2>3 DEF HolderStep
    <3>2. /\ Found(h, h[i].objs, key) \in DOMAIN h[i].objs
          /\ Finds(h, h[i].objs, key, Found(h, h[i].objs, key))
      BY <2>1, <2>3, FoundOne
    <3> QED  BY <2>3, <3>1, <3>2
  <2>4. CASE ~(h[i].own[key] = Absent /\ h[i].kind = "with"
               /\ \E j \in DOMAIN h[i].objs : Has(h, h[i].objs[j], key))
    BY <2>2, <2>4 DEF HolderStep
  <2> QED  BY <2>3, <2>4
<1> QED  BY <1>5, <1>6 DEF Holder, T

(***************************************************************************)
(* A lookup ends in the object itself or an earlier one, which has the     *)
(* key, and `in' says whether it does.                                     *)
(***************************************************************************)
HolderFine(h, key, i) ==
  /\ Holder(h, i, key) \in 0 .. i
  /\ Holder(h, i, key) # 0 => h[Holder(h, i, key)].own[key] # Absent
  /\ Has(h, i, key) <=> Holder(h, i, key) # 0

LEMMA LookupsEnd ==
  ASSUME NEW h, Built(h), NEW key
  PROVE  \A i \in 0 .. Len(h) : HolderFine(h, key, i)
<1> DEFINE Bad == {i \in 0 .. Len(h) : ~HolderFine(h, key, i)}
<1> SUFFICES ASSUME Bad # {} PROVE FALSE
  OBVIOUS
<1>1. Bad \in SUBSET Nat /\ Len(h) \in Nat
  BY DEF Built
<1>2. PICK i \in Bad : \A y \in Bad : i <= y
  BY <1>1, LeastNumber
<1>3. i \in 0 .. Len(h) /\ i \in Nat /\ ~HolderFine(h, key, i)
  BY <1>1, <1>2
<1>4. \A j \in 0 .. (i - 1) : HolderFine(h, key, j)
  <2> SUFFICES ASSUME NEW j \in 0 .. (i - 1) PROVE HolderFine(h, key, j)
    OBVIOUS
  <2>1. j \in 0 .. Len(h) /\ ~(i <= j)
    BY <1>1, <1>3
  <2> QED  BY <1>2, <2>1
<1> HIDE DEF Bad
<1>5. i # 0
  <2>1. HolderFine(h, key, 0)
    BY HasRule, HolderRule DEF HolderFine
  <2> QED  BY <1>3, <2>1
<1>6. i \in 1 .. Len(h)
  BY <1>1, <1>3, <1>5
<1>7. /\ h[i].proto \in 0 .. (i - 1)
      /\ \A j \in DOMAIN h[i].objs : h[i].objs[j] \in 0 .. (i - 1)
      /\ h[i].kind # "scope" => h[i].proto = 0
      /\ h[i].kind # "with" => DOMAIN h[i].objs = {}
  BY <1>6, BuiltObject
<1>8. \A j \in 0 .. (i - 1) : 0 .. j \subseteq 0 .. i
  BY <1>3
<1>9. /\ ~Has(h, 0, key)
      /\ Has(h, i, key) <=> \/ h[i].own[key] # Absent
                            \/ Has(h, h[i].proto, key)
                            \/ \E j \in DOMAIN h[i].objs : Has(h, h[i].objs[j], key)
  BY <1>6, HasRule
<1>10. CASE h[i].own[key] # Absent
  <2>1. Holder(h, i, key) = i
    BY <1>6, <1>10, HolderRule
  <2>2. HolderFine(h, key, i)
    BY <1>3, <1>5, <1>9, <1>10, <2>1 DEF HolderFine
  <2> QED  BY <1>3, <2>2
<1>11. CASE h[i].own[key] = Absent /\ h[i].kind # "with"
  <2>1. Holder(h, i, key) = Holder(h, h[i].proto, key)
    BY <1>6, <1>11, HolderRule
  <2>2. HolderFine(h, key, h[i].proto)
    BY <1>4, <1>7
  <2>3. HolderFine(h, key, i)
    BY <1>7, <1>8, <1>9, <1>11, <2>1, <2>2 DEF HolderFine
  <2> QED  BY <1>3, <2>3
<1>12. CASE h[i].own[key] = Absent /\ h[i].kind = "with"
  <2>1. CASE /\ \A j \in DOMAIN h[i].objs : ~Has(h, h[i].objs[j], key)
             /\ Holder(h, i, key) = 0
    <3>1. HolderFine(h, key, i)
      BY <1>3, <1>7, <1>9, <1>12, <2>1 DEF HolderFine
    <3> QED  BY <1>3, <3>1
  <2>2. ASSUME NEW j \in DOMAIN h[i].objs, Finds(h, h[i].objs, key, j),
               Holder(h, i, key) = Holder(h, h[i].objs[j], key)
        PROVE  FALSE
    <3>1. HolderFine(h, key, h[i].objs[j]) /\ Has(h, h[i].objs[j], key)
      BY <1>4, <1>7, <2>2 DEF Finds
    <3>2. HolderFine(h, key, i)
      BY <1>7, <1>8, <1>9, <1>12, <2>2, <3>1 DEF HolderFine
    <3> QED  BY <1>3, <3>2
  <2> QED  BY <1>6, <1>12, <2>1, <2>2, HolderRule
<1> QED  BY <1>10, <1>11, <1>12

(***************************************************************************)
(* Lookups of key in g are those in h when g has grown, but the objects of *)
(* h hold key or do not, as they did.                                      *)
(***************************************************************************)
SameFor(h, g, key) ==
  /\ Len(h) <= Len(g)
  /\ \A i \in 1 .. Len(h) :
       /\ g[i].kind = h[i].kind /\ g[i].proto = h[i].proto /\ g[i].objs = h[i].objs
       /\ g[i].own[key] # Absent <=> h[i].own[key] # Absent

SameLookup(h, g, key, i) ==
  /\ Has(g, i, key) <=> Has(h, i, key)
  /\ Holder(g, i, key) = Holder(h, i, key)

LEMMA LookupsSame ==
  ASSUME NEW h, Built(h), NEW g, Built(g), NEW key, SameFor(h, g, key)
  PROVE  \A i \in 0 .. Len(h) : SameLookup(h, g, key, i)
<1> DEFINE Bad == {i \in 0 .. Len(h) : ~SameLookup(h, g, key, i)}
<1> SUFFICES ASSUME Bad # {} PROVE FALSE
  OBVIOUS
<1>1. Bad \in SUBSET Nat /\ Len(h) \in Nat /\ Len(g) \in Nat /\ Len(h) <= Len(g)
  BY DEF Built, SameFor
<1>2. PICK i \in Bad : \A y \in Bad : i <= y
  BY <1>1, LeastNumber
<1>3. i \in 0 .. Len(h) /\ i \in Nat /\ ~SameLookup(h, g, key, i)
  BY <1>1, <1>2
<1>4. \A j \in 0 .. (i - 1) : SameLookup(h, g, key, j)
  <2> SUFFICES ASSUME NEW j \in 0 .. (i - 1) PROVE SameLookup(h, g, key, j)
    OBVIOUS
  <2>1. j \in 0 .. Len(h) /\ ~(i <= j)
    BY <1>1, <1>3
  <2> QED  BY <1>2, <2>1
<1> HIDE DEF Bad
<1>5. i # 0
  <2>1. SameLookup(h, g, key, 0)
    BY HasRule, HolderRule DEF SameLookup
  <2> QED  BY <1>3, <2>1
<1>6. i \in 1 .. Len(h) /\ i \in 1 .. Len(g)
  BY <1>1, <1>3, <1>5
<1>7. /\ h[i].proto \in 0 .. (i - 1) /\ h[i].objs \in Seq(Nat)
      /\ \A j \in DOMAIN h[i].objs : h[i].objs[j] \in 0 .. (i - 1)
  BY <1>6, BuiltObject
<1>8. /\ g[i].kind = h[i].kind /\ g[i].proto = h[i].proto /\ g[i].objs = h[i].objs
      /\ g[i].own[key] # Absent <=> h[i].own[key] # Absent
  BY <1>6 DEF SameFor
<1>9. /\ Has(g, h[i].proto, key) <=> Has(h, h[i].proto, key)
      /\ Holder(g, h[i].proto, key) = Holder(h, h[i].proto, key)
      /\ \A j \in DOMAIN h[i].objs :
           /\ Has(g, h[i].objs[j], key) <=> Has(h, h[i].objs[j], key)
           /\ Holder(g, h[i].objs[j], key) = Holder(h, h[i].objs[j], key)
  BY <1>4, <1>7 DEF SameLookup
<1>10. Has(g, i, key) <=> Has(h, i, key)
  <2>1. Has(h, i, key) <=> \/ h[i].own[key] # Absent
                           \/ Has(h, h[i].proto, key)
                           \/ \E j \in DOMAIN h[i].objs : Has(h, h[i].objs[j], key)
    BY <1>6, HasRule
  <2>2. Has(g, i, key) <=> \/ g[i].own[key] # Absent
                           \/ Has(g, g[i].proto, key)
                           \/ \E j \in DOMAIN g[i].objs : Has(g, g[i].objs[j], key)
    BY <1>6, HasRule
  <2> QED  BY <1>8, <1>9, <2>1, <2>2
<1>11. Holder(g, i, key) = Holder(h, i, key)
  <2> DEFINE Rule(f, o) ==
        /\ o.own[key] # Absent => Holder(f, i, key) = i
        /\ o.own[key] = Absent /\ o.kind # "with" =>
             Holder(f, i, key) = Holder(f, o.proto, key)
        /\ o.own[key] = Absent /\ o.kind = "with" =>
             \/ \E j \in DOMAIN o.objs : /\ Finds(f, o.objs, key, j)
                                         /\ Holder(f, i, key) = Holder(f, o.objs[j], key)
             \/ /\ \A j \in DOMAIN o.objs : ~Has(f, o.objs[j], key)
                /\ Holder(f, i, key) = 0
  <2>a. Rule(h, h[i]) /\ Rule(g, g[i])
    BY <1>6, HolderRule
  <2>b. Rule(g, h[i])
    BY <1>8, <2>a
  <2>1. CASE h[i].own[key] # Absent
    BY <2>1, <2>a, <2>b
  <2>2. CASE h[i].own[key] = Absent /\ h[i].kind # "with"
    BY <1>9, <2>2, <2>a, <2>b
  <2>3. CASE /\ h[i].own[key] = Absent /\ h[i].kind = "with"
             /\ \A j \in DOMAIN h[i].objs : ~Has(h, h[i].objs[j], key)
    <3>1. Holder(h, i, key) = 0
      BY <2>3, <2>a DEF Finds
    <3>2. Holder(g, i, key) = 0
      BY <1>9, <2>3, <2>b DEF Finds
    <3> QED  BY <3>1, <3>2
  <2>4. CASE /\ h[i].own[key] = Absent /\ h[i].kind = "with"
             /\ ~\A j \in DOMAIN h[i].objs : ~Has(h, h[i].objs[j], key)
    <3>1. PICK j \in DOMAIN h[i].objs : Finds(h, h[i].objs, key, j)
                                        /\ Holder(h, i, key) = Holder(h, h[i].objs[j], key)
      BY <2>4, <2>a
    <3>2. PICK k \in DOMAIN h[i].objs : Finds(g, h[i].objs, key, k)
                                        /\ Holder(g, i, key) = Holder(g, h[i].objs[k], key)
      BY <1>9, <2>4, <2>b
    <3>3. j \in Nat /\ k \in Nat /\ DOMAIN h[i].objs = 1 .. Len(h[i].objs)
      BY <1>7, <3>1, <3>2
    <3>4. ~(j < k) /\ ~(k < j)
      <4>1. j < k => j \in 1 .. (k - 1)
        BY <3>3
      <4>2. k < j => k \in 1 .. (j - 1)
        BY <3>3
      <4> QED  BY <1>9, <3>1, <3>2, <4>1, <4>2 DEF Finds
    <3>5. j = k
      BY <3>3, <3>4
    <3> QED  BY <1>9, <3>1, <3>2, <3>5
  <2> QED  BY <2>1, <2>2, <2>3, <2>4
<1> QED  BY <1>3, <1>10, <1>11 DEF SameLookup

(***************************************************************************)
(* Lookups of key in g are those in h, or end in p, when only p has gained *)
(* the key.                                                                *)
(***************************************************************************)
GainsKey(h, g, p, key) ==
  /\ Len(h) = Len(g) /\ p \in 1 .. Len(h)
  /\ h[p].own[key] = Absent /\ g[p].own[key] # Absent
  /\ \A i \in 1 .. Len(h) :
       /\ g[i].kind = h[i].kind /\ g[i].proto = h[i].proto /\ g[i].objs = h[i].objs
       /\ i # p => g[i].own[key] = h[i].own[key]

ShadowLookup(h, g, p, key, i) ==
  /\ Has(h, i, key) => Has(g, i, key)
  /\ Holder(g, i, key) \in {Holder(h, i, key), p}

LEMMA LookupsShadowed ==
  ASSUME NEW h, Built(h), NEW g, Built(g), NEW p, NEW key, GainsKey(h, g, p, key)
  PROVE  \A i \in 0 .. Len(h) : ShadowLookup(h, g, p, key, i)
<1> DEFINE Bad == {i \in 0 .. Len(h) : ~ShadowLookup(h, g, p, key, i)}
<1> SUFFICES ASSUME Bad # {} PROVE FALSE
  OBVIOUS
<1>1. Bad \in SUBSET Nat /\ Len(h) \in Nat /\ Len(g) = Len(h)
  BY DEF Built, GainsKey
<1>2. PICK i \in Bad : \A y \in Bad : i <= y
  BY <1>1, LeastNumber
<1>3. i \in 0 .. Len(h) /\ i \in Nat /\ ~ShadowLookup(h, g, p, key, i)
  BY <1>1, <1>2
<1>4. \A j \in 0 .. (i - 1) : ShadowLookup(h, g, p, key, j)
  <2> SUFFICES ASSUME NEW j \in 0 .. (i - 1) PROVE ShadowLookup(h, g, p, key, j)
    OBVIOUS
  <2>1. j \in 0 .. Len(h) /\ ~(i <= j)
    BY <1>1, <1>3
  <2> QED  BY <1>2, <2>1
<1> HIDE DEF Bad
<1>5. i # 0
  <2>1. ShadowLookup(h, g, p, key, 0)
    BY HasRule, HolderRule DEF ShadowLookup
  <2> QED  BY <1>3, <2>1
<1>6. i \in 1 .. Len(h) /\ i \in 1 .. Len(g)
  BY <1>1, <1>3, <1>5
<1>7. /\ h[i].proto \in 0 .. (i - 1) /\ h[i].objs \in Seq(Nat)
      /\ \A j \in DOMAIN h[i].objs : h[i].objs[j] \in 0 .. (i - 1)
      /\ \A j \in DOMAIN h[i].objs : h[i].objs[j] \in 0 .. Len(h)
  BY <1>6, BuiltObject
<1>8. /\ g[i].kind = h[i].kind /\ g[i].proto = h[i].proto /\ g[i].objs = h[i].objs
      /\ i # p => g[i].own[key] = h[i].own[key]
      /\ h[p].own[key] = Absent /\ g[p].own[key] # Absent
  BY <1>6 DEF GainsKey
<1>9. /\ ShadowLookup(h, g, p, key, h[i].proto)
      /\ \A j \in DOMAIN h[i].objs : ShadowLookup(h, g, p, key, h[i].objs[j])
  BY <1>4, <1>7
<1>10. Has(h, i, key) => Has(g, i, key)
  <2>1. Has(h, i, key) <=> \/ h[i].own[key] # Absent
                           \/ Has(h, h[i].proto, key)
                           \/ \E j \in DOMAIN h[i].objs : Has(h, h[i].objs[j], key)
    BY <1>6, HasRule
  <2>2. Has(g, i, key) <=> \/ g[i].own[key] # Absent
                           \/ Has(g, g[i].proto, key)
                           \/ \E j \in DOMAIN g[i].objs : Has(g, g[i].objs[j], key)
    BY <1>6, HasRule
  <2> QED  BY <1>8, <1>9, <2>1, <2>2 DEF ShadowLookup
<1>11. Holder(g, i, key) \in {Holder(h, i, key), p}
  <2> DEFINE Rule(f, o) ==
        /\ o.own[key] # Absent => Holder(f, i, key) = i
        /\ o.own[key] = Absent /\ o.kind # "with" =>
             Holder(f, i, key) = Holder(f, o.proto, key)
        /\ o.own[key] = Absent /\ o.kind = "with" =>
             \/ \E j \in DOMAIN o.objs : /\ Finds(f, o.objs, key, j)
                                         /\ Holder(f, i, key) = Holder(f, o.objs[j], key)
             \/ /\ \A j \in DOMAIN o.objs : ~Has(f, o.objs[j], key)
                /\ Holder(f, i, key) = 0
  <2>1. Rule(h, h[i]) /\ Rule(g, g[i])
    BY <1>6, HolderRule
  <2>2. CASE i = p
    BY <1>8, <2>1, <2>2
  <2>3. CASE i # p
    <3>1. Rule(g, h[i])
      BY <1>8, <2>1, <2>3
    <3>2. CASE h[i].own[key] # Absent
      BY <2>1, <3>1, <3>2
    <3>3. CASE h[i].own[key] = Absent /\ h[i].kind # "with"
      BY <1>9, <2>1, <3>1, <3>3 DEF ShadowLookup
    <3>4. CASE /\ h[i].own[key] = Absent /\ h[i].kind = "with"
               /\ \A j \in DOMAIN h[i].objs : ~Has(g, h[i].objs[j], key)
      <4>1. \A j \in DOMAIN h[i].objs : ~Has(h, h[i].objs[j], key)
        BY <1>9, <3>4 DEF ShadowLookup
      <4>2. Holder(h, i, key) = 0
        BY <2>1, <3>4, <4>1 DEF Finds
      <4>3. Holder(g, i, key) = 0
        BY <3>1, <3>4 DEF Finds
      <4> QED  BY <4>2, <4>3
    <3>5. CASE /\ h[i].own[key] = Absent /\ h[i].kind = "with"
               /\ ~\A j \in DOMAIN h[i].objs : ~Has(g, h[i].objs[j], key)
      <4>1. PICK k \in DOMAIN h[i].objs : Finds(g, h[i].objs, key, k)
                                          /\ Holder(g, i, key) = Holder(g, h[i].objs[k], key)
        BY <3>1, <3>5
      <4>2. Holder(g, i, key) \in {Holder(h, h[i].objs[k], key), p}
        BY <1>9, <4>1 DEF ShadowLookup
      <4>3. CASE ~Has(h, h[i].objs[k], key)
        <5>1. h[i].objs[k] \in 0 .. Len(h) /\ h[i].objs[k] \in 0 .. Len(g)
          BY <1>1, <1>7, <4>1
        <5>2. Holder(h, h[i].objs[k], key) = 0
          BY <4>3, <5>1, LookupsEnd DEF HolderFine
        <5>3. Holder(g, h[i].objs[k], key) # 0
          BY <4>1, <5>1, LookupsEnd DEF HolderFine, Finds
        <5> QED  BY <4>1, <4>2, <5>2, <5>3
      <4>4. CASE Has(h, h[i].objs[k], key)
        <5>1. PICK j \in DOMAIN h[i].objs : Finds(h, h[i].objs, key, j)
                                            /\ Holder(h, i, key) = Holder(h, h[i].objs[j], key)
          BY <2>1, <3>5, <4>1, <4>4
        <5>2. j \in Nat /\ k \in Nat
          <6>1. \A s \in Seq(Nat) : DOMAIN s \subseteq Nat
            OBVIOUS
          <6> QED  BY <1>7, <4>1, <5>1, <6>1
        <5>3. k < j => k \in 1 .. (j - 1)
          BY <1>7, <4>1, <5>1, <5>2
        <5>4. j < k => j \in 1 .. (k - 1)
          BY <1>7, <4>1, <5>1, <5>2
        <5>5. ~(k < j)
          BY <4>4, <5>1, <5>3 DEF Finds
        <5>6. ~(j < k)
          BY <1>9, <4>1, <5>1, <5>4 DEF Finds, ShadowLookup
        <5>7. j = k
          BY <5>2, <5>5, <5>6
        <5> QED  BY <4>2, <5>1, <5>7
      <4> QED  BY <4>3, <4>4
    <3> QED  BY <3>2, <3>3, <3>4, <3>5
  <2> QED  BY <2>2, <2>3
<1> QED  BY <1>3, <1>10, <1>11 DEF ShadowLookup

----------------------------------------------------------------------------
(***************************************************************************)
(* The three things a step does to the heap: it adds an object that refers *)
(* to objects there are, it writes a key of an object (of a scope, only    *)
(* one the scope did not hold), or it does nothing (an assignment that is  *)
(* refused).                                                               *)
(***************************************************************************)
Fresh(h, obj) ==
  /\ obj \in Object /\ obj.proto \in 0 .. Len(h)
  /\ \A j \in DOMAIN obj.objs : obj.objs[j] \in 1 .. Len(h)
  /\ obj.kind # "scope" => obj.proto = 0
  /\ obj.kind # "with" => obj.objs = <<>>

Grows(h, g) == \E obj : Fresh(h, obj) /\ g = Append(h, obj)

Writes(h, g, o, k, v) ==
  /\ o \in DOMAIN h /\ k \in Key /\ v \in Stored
  /\ h[o].kind = "scope" => h[o].own[k] = Absent
  /\ g = [h EXCEPT ![o].own[k] = v]

LEMMA GrownHeap ==
  ASSUME NEW h, Built(h), NEW g, Grows(h, g)
  PROVE  /\ Built(g) /\ \A key : SameFor(h, g, key)
         /\ Len(g) = Len(h) + 1 /\ \A i \in 1 .. Len(h) : g[i] = h[i]
<1>1. PICK obj : Fresh(h, obj) /\ g = Append(h, obj)
  BY DEF Grows
<1>2. /\ h \in Seq(Object) /\ obj \in Object /\ Len(h) \in Nat
      /\ g \in Seq(Object) /\ Len(g) = Len(h) + 1
  BY <1>1 DEF Built, Fresh
<1>3. DOMAIN g = 1 .. (Len(h) + 1) /\ g[Len(h) + 1] = obj
  BY <1>1, <1>2
<1>4. \A i \in 1 .. Len(h) : g[i] = h[i] /\ i \in DOMAIN h
  BY <1>1, <1>2
<1>5. ASSUME NEW o \in DOMAIN g
      PROVE  /\ g[o].proto < o /\ \A j \in DOMAIN g[o].objs : g[o].objs[j] \in 1 .. (o - 1)
             /\ g[o].kind # "scope" => g[o].proto = 0
             /\ g[o].kind # "with" => g[o].objs = <<>>
  <2>1. CASE o = Len(h) + 1
    <3>1. (Len(h) + 1) - 1 = Len(h)
      BY <1>2
    <3>2. obj.proto < Len(h) + 1
      BY <1>1, <1>2 DEF Fresh
    <3> QED  BY <1>1, <1>3, <2>1, <3>1, <3>2 DEF Fresh
  <2>2. CASE o # Len(h) + 1
    <3>1. o \in 1 .. Len(h)
      BY <1>2, <1>3, <2>2
    <3> QED  BY <1>4, <3>1 DEF Built
  <2> QED  BY <2>1, <2>2
<1>6. Built(g)
  BY <1>2, <1>5 DEF Built
<1>7. \A key : SameFor(h, g, key)
  BY <1>2, <1>4 DEF SameFor
<1> QED  BY <1>2, <1>4, <1>6, <1>7

LEMMA WrittenHeap ==
  ASSUME NEW h, Built(h), NEW g, NEW o, NEW k, NEW v, Writes(h, g, o, k, v)
  PROVE  /\ Built(g) /\ Len(g) = Len(h) /\ o \in 1 .. Len(h)
         /\ g[o].own[k] = v /\ v # Absent /\ g[o].kind = h[o].kind
         /\ h[o].kind = "scope" => h[o].own[k] = Absent
         /\ \A i \in 1 .. Len(h) : i # o => g[i] = h[i]
         /\ \A key \in Key \ {k} : g[o].own[key] = h[o].own[key]
         /\ h[o].own[k] = Absent => GainsKey(h, g, o, k)
         /\ \A key \in Key : key # k \/ h[o].own[k] # Absent => SameFor(h, g, key)
<1>1. /\ o \in DOMAIN h /\ k \in Key /\ v \in Stored
      /\ h[o].kind = "scope" => h[o].own[k] = Absent
      /\ g = [h EXCEPT ![o].own[k] = v]
  BY DEF Writes
<1>2. h \in Seq(Object) /\ Len(h) \in Nat /\ DOMAIN h = 1 .. Len(h)
  BY DEF Built
<1>3. h[o] \in Object
  BY <1>1, <1>2
<1>4. h[o].own \in [Key -> Stored \cup {Absent}]
  BY <1>3 DEF Object, Own
<1> DEFINE own == [h[o].own EXCEPT ![k] = v]
           new == [h[o] EXCEPT !.own = own]
<1>5. /\ own \in Own /\ own[k] = v /\ \A key \in Key \ {k} : own[key] = h[o].own[key]
  BY <1>1, <1>4 DEF Own
<1>6. g = [h EXCEPT ![o] = new]
  BY <1>1
<1> HIDE DEF own
<1>7. /\ new \in Object /\ new.kind = h[o].kind /\ new.proto = h[o].proto
      /\ new.objs = h[o].objs /\ new.own = own
  BY <1>3, <1>5 DEF Object
<1> HIDE DEF new
<1>8. /\ g \in Seq(Object) /\ Len(g) = Len(h) /\ DOMAIN g = DOMAIN h /\ g[o] = new
      /\ \A i \in DOMAIN h : i # o => g[i] = h[i]
  BY <1>1, <1>2, <1>6, <1>7
<1>9. ASSUME NEW i \in DOMAIN h
      PROVE  g[i].kind = h[i].kind /\ g[i].proto = h[i].proto /\ g[i].objs = h[i].objs
  <2>1. CASE i = o
    BY <1>7, <1>8, <2>1
  <2>2. CASE i # o
    BY <1>8, <2>2
  <2> QED  BY <2>1, <2>2
<1>10. Built(g)
  <2>1. \A i \in DOMAIN h :
          /\ h[i].proto < i /\ \A j \in DOMAIN h[i].objs : h[i].objs[j] \in 1 .. (i - 1)
          /\ h[i].kind # "scope" => h[i].proto = 0
          /\ h[i].kind # "with" => h[i].objs = <<>>
    BY DEF Built
  <2>2. \A i \in DOMAIN g :
          /\ g[i].proto < i /\ \A j \in DOMAIN g[i].objs : g[i].objs[j] \in 1 .. (i - 1)
          /\ g[i].kind # "scope" => g[i].proto = 0
          /\ g[i].kind # "with" => g[i].objs = <<>>
    BY <1>8, <1>9, <2>1
  <2> QED  BY <1>8, <2>2 DEF Built
<1>11. v # Absent /\ g[o].own[k] = v
  BY <1>1, <1>5, <1>7, <1>8, ScopeAssumption DEF Stored
<1>12. h[o].own[k] = Absent => GainsKey(h, g, o, k)
  BY <1>1, <1>2, <1>8, <1>9, <1>11 DEF GainsKey
<1>13. \A key \in Key \ {k} : g[o].own[key] = h[o].own[key]
  BY <1>5, <1>7, <1>8
<1>14. ASSUME NEW key \in Key, key # k \/ h[o].own[k] # Absent
       PROVE  SameFor(h, g, key)
  <2>1. \A i \in DOMAIN h : g[i].own[key] # Absent <=> h[i].own[key] # Absent
    BY <1>8, <1>11, <1>13, <1>14
  <2> QED  BY <1>2, <1>8, <1>9, <2>1 DEF SameFor
<1>15. g[o].kind = h[o].kind
  BY <1>1, <1>9
<1> QED  BY <1>1, <1>2, <1>8, <1>10, <1>11, <1>12, <1>13, <1>14, <1>15

LEMMA StepKinds ==
  ASSUME Built(heap), [Next]_heap
  PROVE  \/ Grows(heap, heap')
         \/ \E o, k, v : Writes(heap, heap', o, k, v)
         \/ heap' = heap
<1>1. heap \in Seq(Object) /\ Len(heap) \in Nat /\ DOMAIN heap = 1 .. Len(heap)
  BY DEF Built
<1>2. Empty \in Own /\ <<>> \in Seq(Nat) /\ DOMAIN <<>> = {}
  BY DEF Empty, Own
<1>3. ASSUME NEW own \in Own
      PROVE  Fresh(heap, [kind |-> "plain", own |-> own, proto |-> 0, objs |-> <<>>])
  BY <1>1, <1>2 DEF Fresh, Object
<1>4. CASE \E own \in Own : NewAttrs(own)
  BY <1>3, <1>4 DEF NewAttrs, New, Grows
<1>5. CASE \E orig \in {0} \cup Ids : mkScope(orig)
  <2>1. PICK orig \in {0} \cup Ids : mkScope(orig)
    BY <1>5
  <2>2. orig \in 0 .. Len(heap) /\ orig \in Nat
    BY <1>1 DEF Ids
  <2>3. Fresh(heap, [kind |-> "scope", own |-> Empty, proto |-> orig, objs |-> <<>>])
    BY <1>1, <1>2, <2>2 DEF Fresh, Object
  <2> QED  BY <2>1, <2>3 DEF mkScope, New, Grows
<1>6. CASE \E o, p \in Ids : mkScopeWith(<<o, p>>)
  <2>1. PICK o, p \in Ids : mkScopeWith(<<o, p>>)
    BY <1>6
  <2>2. o \in 1 .. Len(heap) /\ p \in 1 .. Len(heap) /\ o \in Nat /\ p \in Nat
    BY <1>1 DEF Ids
  <2>3. PICK s : s = <<o, p>>
    OBVIOUS
  <2>4. s \in Seq(Nat) /\ \A j \in DOMAIN s : s[j] \in 1 .. Len(heap)
    BY <2>2, <2>3
  <2>5. Fresh(heap, [kind |-> "with", own |-> Empty, proto |-> 0, objs |-> s])
    BY <1>1, <1>2, <2>4 DEF Fresh, Object
  <2> QED  BY <2>1, <2>3, <2>5 DEF mkScopeWith, New, Grows
<1>7. CASE \E o \in Ids, k \in Key, v \in Stored : Set(o, k, v) \/ Merge(o, k, v)
  <2>1. PICK o \in Ids, k \in Key, v \in Stored : Set(o, k, v) \/ Merge(o, k, v)
    BY <1>7
  <2>2. CASE Set(o, k, v)
    BY <2>2 DEF Set, Writes, Ids
  <2>3. CASE Merge(o, k, v)
    BY <2>3 DEF Merge, Writes, Ids
  <2> QED  BY <2>1, <2>2, <2>3
<1>8. CASE \E o \in Ids : Extract(o)
  <2>1. PICK o \in Ids : Extract(o)
    BY <1>8
  <2>2. heap[o].own \in Own
    <3>1. heap[o] \in Object
      BY <1>1 DEF Ids
    <3> QED  BY <3>1 DEF Object
  <2> QED  BY <1>3, <2>1, <2>2 DEF Extract, New, Grows
<1> QED  BY <1>4, <1>5, <1>6, <1>7, <1>8 DEF Next

----------------------------------------------------------------------------
LEMMA BuiltInit == ASSUME Init PROVE Built(heap)
<1> DEFINE obj == [kind |-> "with", own |-> Empty, proto |-> 0, objs |-> <<>>]
<1>1. Empty \in Own /\ <<>> \in Seq(Nat) /\ DOMAIN <<>> = {}
  BY DEF Empty, Own
<1>2. obj \in Object /\ obj.kind = "with" /\ obj.proto = 0 /\ obj.objs = <<>>
  BY <1>1 DEF Object
<1>3. heap = <<obj>>
  BY DEF Init
<1> HIDE DEF obj
<1>4. heap \in Seq(Object) /\ DOMAIN heap = {1} /\ heap[1] = obj
  BY <1>2, <1>3
<1>5. \A o \in DOMAIN heap : /\ o = 1 /\ heap[o].proto = 0 /\ heap[o].objs = <<>>
                             /\ heap[o].kind = "with"
  BY <1>2, <1>4
<1>6. \A o \in DOMAIN heap : /\ heap[o].proto < o
                             /\ \A j \in DOMAIN heap[o].objs : heap[o].objs[j] \in 1 .. (o - 1)
  BY <1>1, <1>5
<1> QED  BY <1>4, <1>5, <1>6 DEF Built

LEMMA BuiltStep == ASSUME Built(heap), [Next]_heap PROVE Built(heap')
<1>1. CASE Grows(heap, heap')
  BY <1>1, GrownHeap
<1>2. CASE \E o, k, v : Writes(heap, heap', o, k, v)
  BY <1>2, WrittenHeap
<1> QED  BY <1>1, <1>2, StepKinds

(***************************************************************************)
(* HeapBuilt: an object refers to objects made before it, only a scope has *)
(* a prototype, and only a `with' looks through a list: the inductive      *)
(* invariant of mkScope, mkScopeWith, the proxy and extractScope.          *)
(***************************************************************************)
THEOREM HeapBuilt == Spec => []Built(heap)
<1>1. Init => Built(heap)
  BY BuiltInit
<1>2. Built(heap) /\ [Next]_heap => Built(heap)'
  BY BuiltStep
<1> QED  BY <1>1, <1>2, PTL DEF Spec

(***************************************************************************)
(* TypeCorrect: for every set of names and values, the objects made by     *)
(* mkScope, mkScopeWith and extractScope refer to objects made before them *)
(* only, which is why a lookup ends.                                       *)
(***************************************************************************)
THEOREM TypeCorrect == Spec => []TypeOK
<1>1. Built(heap) => TypeOK
  BY DEF Built, TypeOK, Ids
<1> QED  BY <1>1, HeapBuilt, PTL

(***************************************************************************)
(* InAgreesWithRead: through any nesting of mkScope and mkScopeWith, the   *)
(* traps and the inherited operations agree: if `k in s' holds, the read   *)
(* of s[k] ends in an object that holds k, with undefined or another       *)
(* value, and if it does not hold, the read gives undefined.               *)
(***************************************************************************)
THEOREM InAgreesWithRead == Spec => []HasMatchesGet
<1>1. ASSUME Built(heap)
      PROVE  HasMatchesGet
  <2> SUFFICES ASSUME NEW o \in Ids, NEW k \in Key
               PROVE  /\ Has(heap, o, k) => /\ Holder(heap, o, k) \in Ids
                                             /\ k \in OwnKeys(heap, Holder(heap, o, k))
                      /\ ~Has(heap, o, k) => Get(heap, o, k) = Undefined
    BY DEF HasMatchesGet
  <2>1. o \in 0 .. Len(heap) /\ Ids = 1 .. Len(heap) /\ Len(heap) \in Nat
    BY <1>1 DEF Ids, Built
  <2>2. HolderFine(heap, k, o)
    BY <1>1, <2>1, LookupsEnd
  <2> QED  BY <2>1, <2>2 DEF HolderFine, Get, OwnKeys
<1> QED  BY <1>1, HeapBuilt, PTL

(* What LookupsMoveToNewNamesOnly says of one lookup. *)
Moves(o, k, was, now) ==
  /\ now \in Ids
  /\ now = was \/ k \notin OwnKeys(heap, now)
  /\ k \in OwnKeys(heap', was)
  /\ heap[was].kind = "scope" => heap'[was].own[k] = heap[was].own[k]

(***************************************************************************)
(* BindingsAreNotLost: a name that was found stays found; its lookup moves *)
(* only to an object that has just got the name, and the write-once proxy  *)
(* never alters the value of a binding.                                    *)
(***************************************************************************)
THEOREM BindingsAreNotLost == Spec => LookupsMoveToNewNamesOnly
<1> DEFINE A == \A o \in Ids, k \in Key :
       Has(heap, o, k) => Moves(o, k, Holder(heap, o, k), Holder(heap', o, k))
<1>1. ASSUME Built(heap), [Next]_heap
      PROVE  A
  <2> SUFFICES ASSUME NEW o \in Ids, NEW k \in Key, Has(heap, o, k)
               PROVE  Moves(o, k, Holder(heap, o, k), Holder(heap', o, k))
    BY Zenon DEF A
  <2>1. o \in 0 .. Len(heap) /\ o \in Nat /\ Len(heap) \in Nat /\ Ids = 1 .. Len(heap)
    BY <1>1 DEF Ids, Built
  <2>2. PICK p : p = Holder(heap, o, k)
    OBVIOUS
  <2>3. p \in 1 .. Len(heap) /\ heap[p].own[k] # Absent
    BY <1>1, <2>1, <2>2, LookupsEnd DEF HolderFine
  <2>4. ASSUME Built(heap'), SameFor(heap, heap', k),
               heap[p].kind = "scope" => heap'[p].own[k] = heap[p].own[k]
        PROVE  Moves(o, k, Holder(heap, o, k), Holder(heap', o, k))
    <3>1. Holder(heap', o, k) = p
      BY <1>1, <2>1, <2>2, <2>4, LookupsSame DEF SameLookup
    <3>2. heap'[p].own[k] # Absent
      BY <2>3, <2>4 DEF SameFor
    <3> QED  BY <2>1, <2>2, <2>3, <2>4, <3>1, <3>2 DEF Moves, OwnKeys
  <2>5. CASE Grows(heap, heap')
    BY <1>1, <2>3, <2>4, <2>5, GrownHeap
  <2>6. ASSUME NEW n, NEW key, NEW v, Writes(heap, heap', n, key, v)
        PROVE  Moves(o, k, Holder(heap, o, k), Holder(heap', o, k))
    <3>1. /\ Built(heap') /\ Len(heap') = Len(heap) /\ n \in 1 .. Len(heap)
          /\ heap[n].kind = "scope" => heap[n].own[key] = Absent
          /\ heap[n].own[key] = Absent => GainsKey(heap, heap', n, key)
          /\ \A l \in Key : l # key \/ heap[n].own[key] # Absent => SameFor(heap, heap', l)
          /\ \A l \in Key \ {key} : heap'[n].own[l] = heap[n].own[l]
          /\ \A i \in 1 .. Len(heap) : i # n => heap'[i] = heap[i]
      BY <1>1, <2>6, WrittenHeap
    <3>2. CASE k # key \/ heap[n].own[key] # Absent
      <4>1. heap[p].kind = "scope" => heap'[p].own[k] = heap[p].own[k]
        BY <2>3, <3>1, <3>2
      <4> QED  BY <2>4, <3>1, <3>2, <4>1
    <3>3. CASE k = key /\ heap[n].own[key] = Absent
      <4>1. Holder(heap', o, k) \in {p, n}
        BY <1>1, <2>1, <2>2, <3>1, <3>3, LookupsShadowed DEF ShadowLookup
      <4>2. heap'[p] = heap[p]
        BY <2>3, <3>1, <3>3
      <4> QED  BY <2>1, <2>2, <2>3, <3>1, <3>3, <4>1, <4>2 DEF Moves, OwnKeys
    <3> QED  BY <3>2, <3>3
  <2>7. CASE heap' = heap
    BY <2>1, <2>2, <2>3, <2>7 DEF Moves, OwnKeys
  <2> QED  BY <1>1, <2>5, <2>6, <2>7, StepKinds
<1>2. Built(heap) /\ [Next]_heap => [A]_heap
  BY <1>1
<1> QED  BY <1>2, HeapBuilt, PTL DEF Spec, LookupsMoveToNewNamesOnly, Moves

(* A plain object shows what it holds itself. *)
LEMMA PlainLookup ==
  ASSUME NEW h, Built(h), NEW o \in 1 .. Len(h), h[o].kind = "plain", NEW k
  PROVE  /\ Has(h, o, k) <=> h[o].own[k] # Absent
         /\ Get(h, o, k) = IF h[o].own[k] = Absent THEN Undefined ELSE h[o].own[k]
<1>1. h[o].proto = 0 /\ o \in 0 .. Len(h) /\ o # 0
  BY BuiltObject
<1>2. Holder(h, o, k) = IF h[o].own[k] = Absent THEN 0 ELSE o
  <2>1. /\ h[o].own[k] # Absent => Holder(h, o, k) = o
        /\ h[o].own[k] = Absent => Holder(h, o, k) = Holder(h, h[o].proto, k)
    BY HolderRule
  <2>2. Holder(h, 0, k) = 0
    BY HolderRule
  <2> QED  BY <1>1, <2>1, <2>2
<1>3. Has(h, o, k) <=> Holder(h, o, k) # 0
  BY <1>1, LookupsEnd DEF HolderFine
<1> QED  BY <1>1, <1>2, <1>3 DEF Get

(* The two parts of ExtractedIsDetached. *)
Detaches(o) ==
  \A k \in Key : /\ Has(heap', Len(heap'), k) <=> k \in OwnKeys(heap, o)
                 /\ k \in OwnKeys(heap, o) => Get(heap', Len(heap'), k) = heap[o].own[k]

Separate(o, k) ==
  heap[o].kind = "plain" /\ Get(heap', o, k) # Get(heap, o, k) =>
    /\ Get(heap', o, k) = heap'[o].own[k]
    /\ \A p \in Ids \ {o} : heap'[p] = heap[p]

(***************************************************************************)
(* AttributeSetsAreDetached: extractScope gives a set of the scope's own   *)
(* keys, without the inherited names; what an attribute set shows changes  *)
(* only when that set is written, and nothing else changes then.           *)
(***************************************************************************)
THEOREM AttributeSetsAreDetached == Spec => ExtractedIsDetached
<1> DEFINE A == /\ \A o \in Ids : Extract(o) => Detaches(o)
                /\ \A o \in Ids, k \in Key : Separate(o, k)
<1>1. ASSUME Built(heap), [Next]_heap
      PROVE  A
  <2>0. /\ Built(heap') /\ heap \in Seq(Object) /\ Len(heap) \in Nat
        /\ Ids = 1 .. Len(heap)
    BY <1>1, BuiltStep DEF Built, Ids
  <2>1. ASSUME NEW o \in Ids, Extract(o), NEW k \in Key
        PROVE  /\ Has(heap', Len(heap'), k) <=> k \in OwnKeys(heap, o)
               /\ k \in OwnKeys(heap, o) => Get(heap', Len(heap'), k) = heap[o].own[k]
    <3> DEFINE obj == [kind |-> "plain", own |-> heap[o].own, proto |-> 0, objs |-> <<>>]
    <3>1. heap' = Append(heap, obj) /\ obj.kind = "plain" /\ obj.own = heap[o].own
      BY <2>1 DEF Extract, New
    <3> HIDE DEF obj
    <3>2. Len(heap') = Len(heap) + 1 /\ heap'[Len(heap')] = obj
      BY <2>0, <3>1
    <3>3. Len(heap') \in 1 .. Len(heap')
      BY <2>0, <3>2
    <3>4. PICK n : n = Len(heap')
      OBVIOUS
    <3>5. n \in 1 .. Len(heap') /\ heap'[n] = obj /\ heap'[n].kind = "plain"
      BY <3>1, <3>2, <3>3, <3>4
    <3>6. /\ Has(heap', n, k) <=> heap'[n].own[k] # Absent
          /\ Get(heap', n, k) = IF heap'[n].own[k] = Absent THEN Undefined ELSE heap'[n].own[k]
      BY <2>0, <3>5, PlainLookup
    <3> QED  BY <3>1, <3>4, <3>5, <3>6 DEF OwnKeys
  <2>2. ASSUME NEW o \in Ids, NEW k \in Key, heap[o].kind = "plain",
               Get(heap', o, k) # Get(heap, o, k)
        PROVE  Get(heap', o, k) = heap'[o].own[k] /\ \A p \in Ids \ {o} : heap'[p] = heap[p]
    <3>1. ASSUME o \in 1 .. Len(heap'), heap'[o].kind = "plain",
                 heap'[o].own[k] = heap[o].own[k]
          PROVE  FALSE
      <4>1. Get(heap, o, k) = IF heap[o].own[k] = Absent THEN Undefined ELSE heap[o].own[k]
        BY <1>1, <2>0, <2>2, PlainLookup
      <4>2. Get(heap', o, k) = IF heap'[o].own[k] = Absent THEN Undefined ELSE heap'[o].own[k]
        BY <2>0, <3>1, PlainLookup
      <4> QED  BY <2>2, <3>1, <4>1, <4>2
    <3>2. CASE Grows(heap, heap')
      <4>1. Len(heap') = Len(heap) + 1 /\ heap'[o] = heap[o]
        BY <1>1, <2>0, <3>2, GrownHeap
      <4>2. o \in 1 .. Len(heap')
        BY <2>0, <4>1
      <4> QED  BY <2>2, <3>1, <4>1, <4>2
    <3>3. ASSUME NEW n, NEW key, NEW v, Writes(heap, heap', n, key, v)
          PROVE  /\ Get(heap', o, k) = heap'[o].own[k]
                 /\ \A p \in Ids \ {o} : heap'[p] = heap[p]
      <4>1. /\ Len(heap') = Len(heap) /\ n \in 1 .. Len(heap)
            /\ heap'[n].own[key] = v /\ v # Absent /\ heap'[n].kind = heap[n].kind
            /\ \A i \in 1 .. Len(heap) : i # n => heap'[i] = heap[i]
            /\ \A l \in Key \ {key} : heap'[n].own[l] = heap[n].own[l]
        BY <1>1, <3>3, WrittenHeap
      <4>2. o = n /\ k = key
        BY <2>0, <2>2, <3>1, <4>1
      <4>3. heap'[o].kind = "plain" /\ o \in 1 .. Len(heap') /\ heap'[o].own[k] # Absent
        BY <2>0, <2>2, <4>1, <4>2
      <4>4. Get(heap', o, k) = heap'[o].own[k]
        BY <2>0, <4>3, PlainLookup
      <4> QED  BY <2>0, <4>1, <4>2, <4>4
    <3>4. CASE heap' = heap
      BY <2>2, <3>4
    <3> QED  BY <1>1, <3>2, <3>3, <3>4, StepKinds
  <2>3. \A o \in Ids : Extract(o) => Detaches(o)
    BY <2>1 DEF Detaches
  <2>4. \A o \in Ids, k \in Key : Separate(o, k)
    BY <2>2 DEF Separate
  <2> QED  BY <2>3, <2>4
<1>2. Built(heap) /\ [Next]_heap => [A]_heap
  BY <1>1
<1> QED  BY <1>2, HeapBuilt, PTL DEF Spec, ExtractedIsDetached, Detaches, Separate
=============================================================================
