----------------------------- MODULE LazyProofs -----------------------------
(***************************************************************************)
(* Proofs about lazy values, for every finite set of promises and every    *)
(* program that is lexically scoped.                                       *)
(*                                                                         *)
(* First the reference: the outcomes of evaluation by need solve their     *)
(* equations, and what is needed is closed under use, because an ascending *)
(* chain of subsets of the promises stops after as many steps as there are *)
(* promises.  Then the run: what has settled agrees with the outcomes,     *)
(* what waits has found out part of its equation (Knows), and code runs    *)
(* only within calls whose argument is there (Lexical), which is what      *)
(* _lambdaA2chk relies on.                                                 *)
(***************************************************************************)
EXTENDS LazyProps, FiniteSetTheorems, WellFoundedInduction, TLAPS

----------------------------------------------------------------------------
(* Induction: the least-number principle, iteration of a function, and     *)
(* that an ascending chain of subsets of a finite set comes to a halt.     *)
Less == {ss \in Nat \X Nat : ss[1] < ss[2]}

LEMMA LeastNumber ==
  ASSUME NEW T \in SUBSET Nat, T # {}
  PROVE  \E x \in T : \A y \in T : x <= y
<1>1. Less = OpToRel(<, Nat)
  BY DEF Less, OpToRel
<1>2. IsWellFoundedOn(Less, Nat)
  BY <1>1, NatLessThanWellFounded
<1>3. PICK x \in T : \A y \in T : ~(<<y, x>> \in Less)
  BY <1>2, WFMin
<1>4. ASSUME NEW y \in T PROVE x <= y
  <2>1. x \in Nat /\ y \in Nat /\ <<y, x>> \notin Less
    BY <1>3
  <2>2. ~(y < x)
    BY <2>1 DEF Less
  <2> QED  BY <2>1, <2>2
<1> QED  BY <1>4

Iteration(V, b, G, n, f) ==
  f \in [0 .. n -> V] /\ f[0] = b /\ \A i \in 1 .. n : f[i] = G[f[i - 1]]

LEMMA IterationExists ==
  ASSUME NEW V, NEW b, b \in V, NEW G, G \in [V -> V], NEW n, n \in Nat
  PROVE  \E f : Iteration(V, b, G, n, f)
<1> DEFINE Iterates(m, f) == f \in [0 .. m -> V] /\ f[0] = b /\ \A i \in 1 .. m : f[i] = G[f[i - 1]]
           Bad == {m \in Nat : ~\E f : Iterates(m, f)}
<1>1. Bad = {}
  <2> SUFFICES ASSUME Bad # {} PROVE FALSE
    OBVIOUS
  <2>1. Bad \in SUBSET Nat
    OBVIOUS
  <2>2. PICK x \in Bad : \A y \in Bad : x <= y
    BY <2>1, LeastNumber
  <2>3. x \in Nat /\ ~\E f : Iterates(x, f)
    BY <2>2
  <2>4. x # 0
    <3>1. Iterates(0, [i \in 0 .. 0 |-> b])
      OBVIOUS
    <3> QED  BY <2>3, <3>1
  <2>5. x - 1 \in Nat /\ x - 1 \notin Bad
    <3> HIDE DEF Bad
    <3>1. x - 1 \in Nat /\ ~(x <= x - 1)
      BY <2>3, <2>4
    <3> QED  BY <2>2, <3>1
  <2>6. PICK f : Iterates(x - 1, f)
    BY <2>5
  <2> DEFINE g == [i \in 0 .. x |-> IF i = x THEN G[f[x - 1]] ELSE f[i]]
  <2>7. f[x - 1] \in V
    BY <2>5, <2>6
  <2>8. g \in [0 .. x -> V]
    BY <2>3, <2>5, <2>6, <2>7
  <2>9. g[0] = b
    BY <2>3, <2>4, <2>6
  <2>10. \A i \in 1 .. x : g[i] = G[g[i - 1]]
    <3> TAKE i \in 1 .. x
    <3>1. i \in Nat /\ i - 1 \in 0 .. (x - 1) /\ i - 1 \in 0 .. x /\ i - 1 # x /\ i \in 0 .. x
      BY <2>3
    <3>2. g[i - 1] = f[i - 1]
      BY <3>1
    <3>3. i # x => i \in 1 .. (x - 1)
      BY <2>3, <3>1
    <3> QED  BY <2>6, <3>1, <3>2, <3>3
  <2> QED  BY <2>3, <2>8, <2>9, <2>10
<1> QED  BY <1>1 DEF Iteration

LEMMA ChainStops ==
  ASSUME NEW S, IsFiniteSet(S), NEW N, N = Cardinality(S),
         NEW F \in [0 .. (N + 1) -> SUBSET S],
         \A n \in 0 .. N : F[n] \subseteq F[n + 1],
         \A n \in 0 .. (N - 1) : F[n] = F[n + 1] => F[n + 1] = F[n + 2]
  PROVE  F[N] = F[N + 1]
<1> SUFFICES ASSUME F[N] # F[N + 1] PROVE FALSE
  OBVIOUS
<1>1. N \in Nat
  BY FS_CardinalityType
<1>2. ASSUME NEW k \in 0 .. N
      PROVE  F[k] # F[k + 1]
  <2> SUFFICES ASSUME F[k] = F[k + 1] PROVE FALSE
    OBVIOUS
  <2> DEFINE Bad == {n \in k .. N : F[n] # F[n + 1]}
  <2>1. Bad \in SUBSET Nat /\ N \in Bad
    BY <1>1
  <2>2. PICK x \in Bad : \A y \in Bad : x <= y
    BY <2>1, LeastNumber
  <2>3. x \in Nat /\ x \in k .. N /\ x # k /\ F[x] # F[x + 1]
    BY <1>1, <2>2
  <2>4. x - 1 \in k .. N /\ x - 1 \notin Bad /\ x - 1 \in 0 .. (N - 1)
    BY <1>1, <2>2, <2>3
  <2>5. F[x - 1] = F[(x - 1) + 1]
    BY <2>4
  <2>6. F[(x - 1) + 1] = F[(x - 1) + 2]
    BY <2>4, <2>5
  <2>7. (x - 1) + 1 = x /\ (x - 1) + 2 = x + 1
    BY <2>3
  <2> QED  BY <2>3, <2>6, <2>7
<1>3. \A n \in 0 .. (N + 1) : IsFiniteSet(F[n]) /\ Cardinality(F[n]) \in Nat
  BY <1>1, FS_Subset, FS_CardinalityType
<1> DEFINE Bad == {n \in 0 .. (N + 1) : Cardinality(F[n]) < n}
<1>4. Bad = {}
  <2> SUFFICES ASSUME Bad # {} PROVE FALSE
    OBVIOUS
  <2>1. Bad \in SUBSET Nat
    BY <1>1
  <2>2. PICK x \in Bad : \A y \in Bad : x <= y
    BY <2>1, LeastNumber
  <2>3. x \in Nat /\ x \in 0 .. (N + 1) /\ Cardinality(F[x]) < x /\ x # 0
    BY <1>1, <1>3, <2>2
  <2>4. x - 1 \in 0 .. N /\ x - 1 \in 0 .. (N + 1) /\ (x - 1) + 1 = x /\ x - 1 \notin Bad
    BY <1>1, <2>2, <2>3
  <2>5. F[x - 1] \subseteq F[x] /\ F[x - 1] # F[x]
    BY <1>2, <2>4
  <2>6. /\ Cardinality(F[x - 1]) <= Cardinality(F[x])
        /\ Cardinality(F[x - 1]) # Cardinality(F[x])
    BY <1>3, <2>3, <2>5, FS_Subset
  <2>7. Cardinality(F[x - 1]) >= x - 1
    BY <1>3, <2>3, <2>4
  <2>8. Cardinality(F[x]) \in Nat /\ Cardinality(F[x - 1]) \in Nat
    BY <1>3, <2>3, <2>4
  <2> QED  BY <2>3, <2>6, <2>7, <2>8
<1>5. Cardinality(F[N + 1]) <= N
  BY <1>1, FS_Subset
<1>6. N + 1 \in 0 .. (N + 1) /\ N + 1 \notin Bad
  BY <1>1, <1>4
<1> QED  BY <1>1, <1>3, <1>5, <1>6

----------------------------------------------------------------------------
(***************************************************************************)
(* The reference is what it should be: outcomes solve their equations.     *)
(***************************************************************************)
Outcome == Result \cup {Loop}

LEMMA OkFacts ==
  ASSUME NEW k \in {"number", "string", "undefined", "object", "success", "failure"}
  PROVE  /\ Atom(k) \in Value /\ Ok(Atom(k)) \in Result /\ Ok(Atom(k)).ok
         /\ Ok(Atom(k)).v = Atom(k) /\ \A x \in Key : Atom(k).at[x] = None
         /\ Atom(k).k = k
<1>1. NoAttrs \in [Key -> Prom \cup {None}] /\ \A x \in Key : NoAttrs[x] = None
  BY DEF NoAttrs
<1>2. Atom(k) \in Value /\ Atom(k).k = k /\ \A x \in Key : Atom(k).at[x] = None
  BY <1>1 DEF Atom, Value
<1>3. Ok(Atom(k)).ok /\ Ok(Atom(k)).v = Atom(k) /\ Ok(Atom(k)).e = ""
  BY DEF Ok
<1>4. Ok(Atom(k)) \in [ok : BOOLEAN, v : Value, e : Error \cup {""}]
  BY <1>2 DEF Ok
<1> QED  BY <1>2, <1>3, <1>4 DEF Result

LEMMA ErrFacts ==
  ASSUME NEW e \in Error
  PROVE  Err(e) \in Result /\ ~Err(e).ok /\ Err(e).e = e /\ Err(e).v = Undefined
<1>1. Undefined \in Value
  BY OkFacts DEF Undefined
<1>2. ~Err(e).ok /\ Err(e).e = e /\ Err(e).v = Undefined /\ e # ""
  BY DEF Err, Error
<1>3. Err(e) \in [ok : BOOLEAN, v : Value, e : Error \cup {""}]
  BY <1>1 DEF Err
<1> QED  BY <1>2, <1>3 DEF Result

LEMMA LoopFacts ==
  /\ ~Loop.ok /\ Loop.e = "loop" /\ Loop.v = Undefined /\ Loop \notin Result
  /\ Loop \notin {Err(Absent), Ok(Undefined)}
<1>1. ~Loop.ok /\ Loop.e = "loop" /\ Loop.v = Undefined
  BY DEF Loop
<1>2. Loop \notin Result
  BY <1>1 DEF Result, Error
<1>3. Err(Absent) \in Result
  BY ErrFacts DEF Error, Absent
<1>4. Ok(Undefined) \in Result
  BY OkFacts DEF Undefined
<1> QED  BY <1>1, <1>2, <1>3, <1>4

LEMMA OutcomeFacts ==
  ASSUME NEW r \in Outcome
  PROVE  /\ r.ok \in BOOLEAN /\ r.v \in Value /\ (r.ok => r \in Result)
         /\ (~r.ok => r.v = Undefined) /\ (r.ok => r.e = "")
         /\ \A x \in Key : r.v.at[x] \in Prom \cup {None}
         /\ r.v.k \in {"number", "string", "undefined", "object", "success", "failure"}
         /\ Undefined.k = "undefined" /\ \A x \in Key : Undefined.at[x] = None
<1>1. r.ok \in BOOLEAN /\ r.v \in Value /\ (r.ok => r \in Result)
      /\ (~r.ok => r.v = Undefined) /\ (r.ok => r.e = "")
  <2>1. CASE r \in Result
    BY <2>1 DEF Result
  <2>2. CASE r = Loop
    <3>1. Undefined \in Value
      BY OkFacts DEF Undefined
    <3>2. Loop.ok = FALSE /\ Loop.v = Undefined
      BY DEF Loop
    <3> QED  BY <2>2, <3>1, <3>2
  <2> QED  BY <2>1, <2>2 DEF Outcome
<1>2. /\ \A x \in Key : r.v.at[x] \in Prom \cup {None}
      /\ r.v.k \in {"number", "string", "undefined", "object", "success", "failure"}
  BY <1>1 DEF Value
<1>3. Undefined.k = "undefined" /\ \A x \in Key : Undefined.at[x] = None
  BY OkFacts DEF Undefined
<1> QED  BY <1>1, <1>2, <1>3

(* The outcome of each kind of code. *)
Field(c, V) ==
  IF V[c.a].v = Undefined THEN Err(Absent)
  ELSE IF Present(V[c.a], c.key) THEN V[V[c.a].v.at[c.key]] ELSE Ok(Undefined)

LEMMA MeaningCases ==
  ASSUME NEW c, NEW V
  PROVE  /\ c.op \in {"const", "io"} => Meaning(c, V) = c.r
         /\ c.op = "get" => Meaning(c, V) = Then(V[c.a], Field(c, V))
         /\ c.op = "orDefault" => Meaning(c, V) =
              IF V[c.a] \in {Err(Absent), Ok(Undefined)} THEN V[c.b] ELSE V[c.a]
         /\ c.op = "a2chk" => Meaning(c, V) =
              Then(V[c.a], IF Field(c, V) # Ok(Undefined) THEN Field(c, V)
                           ELSE IF c.b = None THEN Err("NixEvalError") ELSE V[c.b])
         /\ c.op = "tryEval" => Meaning(c, V) =
              IF V[c.a].ok THEN Ok(Atom("success"))
              ELSE IF V[c.a].e = "NixEvalError" THEN Ok(Atom("failure")) ELSE V[c.a]
         /\ c.op = "if" => Meaning(c, V) =
              Then(V[c.a], IF V[c.a].v = Undefined THEN Err(Absent)
                           ELSE IF V[c.a].v.k = "success" THEN V[c.b] ELSE V[c.c])
         /\ c.op = "binop" => Meaning(c, V) =
              Then(V[c.a], Then(V[c.b], Plus(V[c.a], V[c.b])))
         /\ c.op = "call" => Meaning(c, V) = Then(V[c.a], V[c.b])
  BY DEF Meaning, Field

(* Code as it is emitted. *)
Emitted(c) == c \in Code /\ Operands(c)

LEMMA EmittedFacts ==
  ASSUME NEW c, Emitted(c)
  PROVE  /\ c.op \in Ops /\ c.r \in Result /\ c.key \in Key
         /\ c.b \in Prom \cup {None} /\ c.spawn \in SUBSET Prom
         /\ c.op \notin {"const", "io"} => c.a \in Prom
         /\ c.op \in {"orDefault", "binop", "call", "if"} => c.b \in Prom
         /\ c.op = "if" => c.c \in Prom
         /\ c.op = "binop" => c.spawn \subseteq {c.a, c.b}
  BY DEF Emitted, Code, Operands

LEMMA PlusType ==
  ASSUME NEW x \in Outcome, NEW y \in Outcome
  PROVE  Plus(x, y) \in Result
<1>1. x.v.k \in {"number", "string"} => Ok(Atom(x.v.k)) \in Result
  BY OkFacts
<1>2. Err("TypeError") \in Result
  BY ErrFacts DEF Error
<1> QED  BY <1>1, <1>2 DEF Plus

LEMMA FieldType ==
  ASSUME NEW c, Emitted(c), c.op \notin {"const", "io"}, NEW V \in [Prom -> Outcome]
  PROVE  Field(c, V) \in Outcome
<1>1. V[c.a] \in Outcome /\ c.key \in Key
  BY EmittedFacts
<1>2. V[c.a].v.at[c.key] \in Prom \cup {None}
  BY <1>1, OutcomeFacts
<1>3. Present(V[c.a], c.key) => V[V[c.a].v.at[c.key]] \in Outcome
  BY <1>2 DEF Present
<1>4. Err(Absent) \in Outcome /\ Ok(Undefined) \in Outcome
  BY ErrFacts, OkFacts DEF Error, Absent, Outcome, Undefined
<1> QED  BY <1>3, <1>4 DEF Field

LEMMA MeaningType ==
  ASSUME NEW c, Emitted(c), NEW V \in [Prom -> Outcome]
  PROVE  Meaning(c, V) \in Outcome
<1>1. /\ Ok(Atom("success")) \in Outcome /\ Ok(Atom("failure")) \in Outcome
      /\ Err("NixEvalError") \in Outcome
  BY OkFacts, ErrFacts DEF Outcome, Error
<1>2. CASE c.op \in {"const", "io"}
  BY <1>2, EmittedFacts, MeaningCases DEF Outcome
<1>3. CASE c.op \notin {"const", "io"}
  <2>1. V[c.a] \in Outcome /\ Field(c, V) \in Outcome
    BY <1>3, EmittedFacts, FieldType
  <2>2. c.b \in Prom => V[c.b] \in Outcome
    OBVIOUS
  <2>3. c.b \in Prom => Plus(V[c.a], V[c.b]) \in Outcome
    BY <2>1, <2>2, PlusType DEF Outcome
  <2>4. c.c \in Prom => V[c.c] \in Outcome
    OBVIOUS
  <2>5. c.op \in Ops /\ c.b \in Prom \cup {None}
        /\ (c.op \in {"orDefault", "binop", "call", "if"} => c.b \in Prom)
        /\ (c.op = "if" => c.c \in Prom)
    BY EmittedFacts
  <2> HIDE DEF Outcome
  <2>6. CASE c.op \in {"get", "orDefault", "tryEval"}
    BY <1>1, <2>1, <2>2, <2>5, <2>6, MeaningCases DEF Then
  <2>7. CASE c.op \in {"a2chk", "call"}
    BY <1>1, <2>1, <2>2, <2>5, <2>7, MeaningCases DEF Then
  <2>8. CASE c.op = "binop"
    BY <1>1, <2>1, <2>2, <2>3, <2>4, <2>5, <2>8, MeaningCases DEF Then
  <2>9. CASE c.op = "if"
    <3>1. Err(Absent) \in Outcome
      BY ErrFacts DEF Outcome, Absent, Error
    <3> QED  BY <1>1, <2>1, <2>2, <2>4, <2>5, <2>9, <3>1, MeaningCases DEF Then
  <2> QED  BY <1>3, <2>5, <2>6, <2>7, <2>8, <2>9 DEF Ops
<1> QED  BY <1>2, <1>3

(* The order of approximations: one knows less, and nothing else. *)
Below(f, g) == \A p \in Prom : f[p] = Loop \/ f[p] = g[p]

LEMMA MeaningMonotone ==
  ASSUME NEW c, Emitted(c), NEW f \in [Prom -> Outcome], NEW g \in [Prom -> Outcome], Below(f, g)
  PROVE  Meaning(c, f) = Loop \/ Meaning(c, f) = Meaning(c, g)
<1>1. CASE c.op \in {"const", "io"}
  BY <1>1, MeaningCases
<1>2. CASE c.op \notin {"const", "io"}
  <2>1. /\ c.op \in Ops /\ c.a \in Prom /\ c.b \in Prom \cup {None} /\ c.key \in Key
        /\ (c.op \in {"orDefault", "binop", "call", "if"} => c.b \in Prom)
        /\ (c.op = "if" => c.c \in Prom)
    BY <1>2, EmittedFacts
  <2>2. /\ f[c.a] = Loop \/ f[c.a] = g[c.a]
        /\ c.b \in Prom => f[c.b] = Loop \/ f[c.b] = g[c.b]
        /\ c.c \in Prom => f[c.c] = Loop \/ f[c.c] = g[c.c]
    BY <2>1 DEF Below
  <2>3. /\ ~Loop.ok /\ Loop.e # "NixEvalError"
        /\ Loop \notin {Err(Absent), Ok(Undefined)}
    BY LoopFacts
  <2>4. CASE f[c.a] = Loop
    <3>1. Then(Loop, Field(c, f)) = Loop
      BY <2>3 DEF Then
    <3> QED  BY <1>2, <2>1, <2>3, <2>4, MeaningCases DEF Then, Ops
  <2>5. CASE f[c.a] = g[c.a]
    <3>1. Field(c, f) = Loop \/ Field(c, f) = Field(c, g)
      <4>1. f[c.a] \in Outcome
        BY <2>1
      <4>2. f[c.a].v.at[c.key] \in Prom \cup {None}
        BY <2>1, <4>1, OutcomeFacts
      <4>3. Present(f[c.a], c.key) => f[c.a].v.at[c.key] \in Prom
        BY <4>2 DEF Present
      <4> QED  BY <2>5, <4>3 DEF Field, Below
    <3>2. CASE c.op \in {"get", "orDefault", "tryEval"}
      BY <2>1, <2>2, <2>3, <2>5, <3>1, <3>2, MeaningCases DEF Then
    <3>3. CASE c.op \in {"a2chk", "call"}
      BY <2>1, <2>2, <2>3, <2>5, <3>1, <3>3, MeaningCases DEF Then
    <3>4. CASE c.op \in {"if", "binop"}
      BY <2>1, <2>2, <2>3, <2>5, <3>4, MeaningCases DEF Then
    <3> QED  BY <1>2, <2>1, <3>2, <3>3, <3>4 DEF Ops
  <2> QED  BY <2>2, <2>4, <2>5
<1> QED  BY <1>1, <1>2

EmittedProgram(pr) == \A p \in Prom : Emitted(pr[p])

Bottom == [p \in Prom |-> Loop]

LEMMA ImprovedType ==
  ASSUME NEW pr, EmittedProgram(pr), NEW V \in [Prom -> Outcome]
  PROVE  Improved(pr, V) \in [Prom -> Outcome]
  BY MeaningType DEF Improved, EmittedProgram

LEMMA ApproximationsDefined ==
  ASSUME NEW pr, EmittedProgram(pr)
  PROVE  /\ Approximations(pr) \in [0 .. Cardinality(Prom) -> [Prom -> Outcome]]
         /\ Approximations(pr)[0] = Bottom
         /\ \A n \in 1 .. Cardinality(Prom) :
              Approximations(pr)[n] = Improved(pr, Approximations(pr)[n - 1])
<1> DEFINE N == Cardinality(Prom)
           V == [Prom -> Outcome]
           A == Approximations(pr)
           Eq(g) == g = [n \in 0 .. N |-> IF n = 0 THEN Bottom ELSE Improved(pr, g[n - 1])]
           G == [x \in V |-> Improved(pr, x)]
<1>1. N \in Nat
  BY FiniteAssumption, FS_CardinalityType
<1>2. Bottom \in V
  BY DEF Bottom, Outcome
<1>3. G \in [V -> V] /\ \A x \in V : G[x] = Improved(pr, x)
  BY ImprovedType
<1>4. A = CHOOSE g : Eq(g)
  BY DEF Approximations, Bottom
<1> HIDE DEF N, V, A, G
<1>5. PICK f \in [0 .. N -> V] : f[0] = Bottom /\ \A i \in 1 .. N : f[i] = G[f[i - 1]]
  <2>1. \E f : Iteration(V, Bottom, G, N, f)
    BY <1>1, <1>2, <1>3, IterationExists
  <2> QED  BY <2>1 DEF Iteration
<1>6. Eq(f)
  <2>1. ASSUME NEW n \in 0 .. N
        PROVE  f[n] = IF n = 0 THEN Bottom ELSE Improved(pr, f[n - 1])
    <3>1. n # 0 => n \in 1 .. N /\ n - 1 \in 0 .. N
      BY <1>1
    <3> QED  BY <1>3, <1>5, <3>1
  <2> QED  BY <2>1
<1>7. Eq(A)
  <2> HIDE DEF Eq
  <2> QED  BY <1>4, <1>6
<1>8. A[0] = Bottom /\ DOMAIN A = 0 .. N
  BY <1>1, <1>7
<1>9. \A n \in 1 .. N : A[n] = Improved(pr, A[n - 1])
  BY <1>1, <1>7
<1> DEFINE Bad == {n \in 0 .. N : A[n] \notin V}
<1>10. Bad = {}
  <2> SUFFICES ASSUME Bad # {} PROVE FALSE
    OBVIOUS
  <2>1. Bad \in SUBSET Nat
    BY <1>1
  <2>2. PICK x \in Bad : \A y \in Bad : x <= y
    BY <2>1, LeastNumber
  <2>3. x \in Nat /\ x \in 0 .. N /\ A[x] \notin V /\ x # 0
    BY <1>2, <1>8, <2>1, <2>2
  <2>4. x \in 1 .. N /\ x - 1 \in 0 .. N /\ ~(x <= x - 1)
    BY <1>1, <2>3
  <2>5. A[x - 1] \in V
    BY <2>2, <2>4
  <2> QED  BY <1>9, <2>3, <2>4, <2>5, ImprovedType DEF V
<1>11. A \in [0 .. N -> V]
  <2>1. A = [n \in 0 .. N |-> A[n]]
    BY <1>7
  <2> QED  BY <1>10, <2>1
<1> QED  BY <1>8, <1>9, <1>11 DEF A, N, V

LEMMA OutcomesSolve ==
  ASSUME NEW pr, EmittedProgram(pr)
  PROVE  /\ Outcomes(pr) \in [Prom -> Outcome]
         /\ \A p \in Prom : Outcomes(pr)[p] = Meaning(pr[p], Outcomes(pr))
<1> DEFINE N == Cardinality(Prom)
           A == Approximations(pr)
           E == [n \in 0 .. (N + 1) |-> IF n = 0 THEN Bottom ELSE Improved(pr, A[n - 1])]
           F == [n \in 0 .. (N + 1) |-> {p \in Prom : E[n][p] # Loop}]
<1>1. N \in Nat
  BY FiniteAssumption, FS_CardinalityType
<1>2. A \in [0 .. N -> [Prom -> Outcome]] /\ A[0] = Bottom
      /\ \A n \in 1 .. N : A[n] = Improved(pr, A[n - 1])
  BY ApproximationsDefined
<1> HIDE DEF N, A
<1>3. ASSUME NEW n \in 0 .. N
      PROVE  E[n] = A[n] /\ E[n + 1] = Improved(pr, A[n]) /\ E[n + 1] = Improved(pr, E[n])
  <2>1. n \in Nat /\ n \in 0 .. (N + 1) /\ n + 1 \in 0 .. (N + 1) /\ n + 1 # 0 /\ (n + 1) - 1 = n
    BY <1>1
  <2>2. n # 0 => n \in 1 .. N
    BY <1>1
  <2>3. E[n] = A[n]
    BY <1>2, <2>1, <2>2
  <2>4. E[n + 1] = Improved(pr, A[n])
    BY <2>1
  <2> QED  BY <2>3, <2>4
<1>4. \A n \in 0 .. (N + 1) : E[n] \in [Prom -> Outcome]
  <2> TAKE n \in 0 .. (N + 1)
  <2>1. CASE n \in 0 .. N
    BY <1>2, <1>3, <2>1
  <2>2. CASE n = N + 1
    <3>1. N \in 0 .. N
      BY <1>1
    <3>2. E[N + 1] = Improved(pr, A[N]) /\ A[N] \in [Prom -> Outcome]
      BY <1>2, <1>3, <3>1
    <3> QED  BY <2>2, <3>2, ImprovedType
  <2> QED  BY <1>1, <2>1, <2>2
<1>5. E[0] = Bottom
  BY <1>1
<1>6. F \in [0 .. (N + 1) -> SUBSET Prom]
      /\ \A n \in 0 .. (N + 1) : F[n] = {p \in Prom : E[n][p] # Loop}
  OBVIOUS
<1> HIDE DEF E, F
<1> DEFINE Bad == {n \in 0 .. N : ~Below(E[n], E[n + 1])}
<1>7. \A n \in 0 .. N : Below(E[n], E[n + 1])
  <2> SUFFICES ASSUME Bad # {} PROVE FALSE
    OBVIOUS
  <2>1. Bad \in SUBSET Nat
    BY <1>1
  <2>2. PICK x \in Bad : \A y \in Bad : x <= y
    BY <2>1, LeastNumber
  <2>3. x \in Nat /\ x \in 0 .. N /\ ~Below(E[x], E[x + 1])
    BY <2>1, <2>2
  <2>4. x # 0
    BY <1>5, <2>3 DEF Below, Bottom
  <2>5. x - 1 \in 0 .. N /\ (x - 1) + 1 = x /\ ~(x <= x - 1) /\ x \in 0 .. (N + 1)
        /\ x - 1 \in 0 .. (N + 1)
    BY <1>1, <2>3, <2>4
  <2>6. Below(E[x - 1], E[x])
    BY <2>2, <2>5
  <2>7. E[x] = Improved(pr, E[x - 1]) /\ E[x + 1] = Improved(pr, E[x])
    BY <1>3, <2>3, <2>5
  <2>8. E[x - 1] \in [Prom -> Outcome] /\ E[x] \in [Prom -> Outcome]
    BY <1>4, <2>5
  <2>9. Below(Improved(pr, E[x - 1]), Improved(pr, E[x]))
    BY <2>6, <2>8, MeaningMonotone DEF Below, Improved, EmittedProgram
  <2> QED  BY <2>3, <2>7, <2>9
<1>8. ASSUME NEW n \in 0 .. N, F[n] = F[n + 1]
      PROVE  E[n] = E[n + 1]
  <2>1. n \in 0 .. (N + 1) /\ n + 1 \in 0 .. (N + 1)
    BY <1>1
  <2>2. E[n] \in [Prom -> Outcome] /\ E[n + 1] \in [Prom -> Outcome]
    BY <1>4, <2>1
  <2>3. ASSUME NEW p \in Prom
        PROVE  E[n][p] = E[n + 1][p]
    <3>1. E[n][p] = Loop \/ E[n][p] = E[n + 1][p]
      BY <1>7 DEF Below
    <3>2. E[n][p] # Loop <=> E[n + 1][p] # Loop
      BY <1>6, <1>8, <2>1
    <3> QED  BY <3>1, <3>2
  <2> QED  BY <2>2, <2>3
<1>9. ASSUME NEW n \in 0 .. N
      PROVE  F[n] \subseteq F[n + 1]
  <2>1. n \in 0 .. (N + 1) /\ n + 1 \in 0 .. (N + 1)
    BY <1>1
  <2> QED  BY <1>6, <1>7, <2>1 DEF Below
<1>10. ASSUME NEW n \in 0 .. (N - 1), F[n] = F[n + 1]
       PROVE  F[n + 1] = F[n + 2]
  <2>1. /\ n \in 0 .. N /\ n + 1 \in 0 .. N /\ (n + 1) + 1 = n + 2
        /\ n + 1 \in 0 .. (N + 1) /\ n + 2 \in 0 .. (N + 1)
    BY <1>1
  <2>2. E[n] = E[n + 1]
    BY <1>8, <1>10, <2>1
  <2>3. E[n + 1] = Improved(pr, E[n]) /\ E[n + 2] = Improved(pr, E[n + 1])
    BY <1>3, <2>1
  <2>4. E[n + 1] = E[n + 2]
    BY <2>2, <2>3
  <2> QED  BY <1>6, <2>1, <2>4
<1>11. F[N] = F[N + 1]
  <2>1. N = Cardinality(Prom)
    BY DEF N
  <2>2. \A n \in 0 .. N : F[n] \subseteq F[n + 1]
    BY <1>9
  <2>3. \A n \in 0 .. (N - 1) : F[n] = F[n + 1] => F[n + 1] = F[n + 2]
    BY <1>10
  <2>4. F \in [0 .. (N + 1) -> SUBSET Prom]
    BY <1>6
  <2> QED  BY <2>1, <2>2, <2>3, <2>4, FiniteAssumption, ChainStops
<1>12. N \in 0 .. N
  BY <1>1
<1>13. A[N] = Improved(pr, A[N]) /\ A[N] \in [Prom -> Outcome]
  BY <1>2, <1>3, <1>8, <1>11, <1>12
<1>14. Outcomes(pr) = A[N]
  BY DEF Outcomes, A, N
<1>15. \A p \in Prom : A[N][p] = Meaning(pr[p], A[N])
  BY <1>13 DEF Improved
<1> QED  BY <1>13, <1>14, <1>15

(***************************************************************************)
(* Needed holds Main and everything that what it holds uses.               *)
(***************************************************************************)
LEMMA UsesCases ==
  ASSUME NEW c, NEW D
  PROVE  LET attr == IF Present(D[c.a], c.key) THEN {D[c.a].v.at[c.key]} ELSE {}
         IN /\ c.op \in {"const", "io"} => Uses(c, D) = {}
            /\ c.op = "get" => Uses(c, D) = {c.a} \cup attr
            /\ c.op = "orDefault" => Uses(c, D) =
                 {c.a} \cup IF D[c.a] \in {Err(Absent), Ok(Undefined)} THEN {c.b} ELSE {}
            /\ c.op = "a2chk" => Uses(c, D) =
                 attr \cup IF D[c.a].v # Undefined /\ \A q \in attr : D[q] = Ok(Undefined)
                           THEN {c.b} \ {None} ELSE {}
            /\ c.op = "tryEval" => Uses(c, D) = {c.a}
            /\ c.op = "if" => Uses(c, D) =
                 {c.a} \cup IF ~D[c.a].ok \/ D[c.a].v = Undefined THEN {}
                            ELSE IF D[c.a].v.k = "success" THEN {c.b} ELSE {c.c}
            /\ c.op = "binop" => Uses(c, D) =
                 {c.a} \cup c.spawn \cup IF D[c.a].ok THEN {c.b} ELSE {}
            /\ c.op = "call" => Uses(c, D) =
                 {c.a} \cup IF D[c.a].ok THEN {c.b} \cup c.spawn ELSE {}
  BY DEF Uses

LEMMA UsesType ==
  ASSUME NEW c, Emitted(c), NEW D \in [Prom -> Outcome]
  PROVE  Uses(c, D) \in SUBSET Prom
<1>1. CASE c.op \in {"const", "io"}
  BY <1>1, UsesCases
<1>2. CASE c.op \notin {"const", "io"}
  <2>1. /\ c.op \in Ops /\ c.a \in Prom /\ c.b \in Prom \cup {None} /\ c.key \in Key
        /\ c.spawn \in SUBSET Prom
        /\ (c.op \in {"orDefault", "binop", "call", "if"} => c.b \in Prom)
        /\ (c.op = "if" => c.c \in Prom)
    BY <1>2, EmittedFacts
  <2>2. D[c.a].v.at[c.key] \in Prom \cup {None}
    BY <2>1, OutcomeFacts
  <2>3. Present(D[c.a], c.key) => D[c.a].v.at[c.key] \in Prom
    BY <2>2 DEF Present
  <2>4. CASE c.op \in {"get", "orDefault", "tryEval"}
    BY <2>1, <2>3, <2>4, UsesCases
  <2>5. CASE c.op = "a2chk"
    BY <2>1, <2>3, <2>5, UsesCases
  <2>6. CASE c.op \in {"if", "binop", "call"}
    BY <2>1, <2>6, UsesCases
  <2> QED  BY <1>2, <2>1, <2>4, <2>5, <2>6 DEF Ops
<1> QED  BY <1>1, <1>2

LEMMA SpreadType ==
  ASSUME NEW pr, EmittedProgram(pr), NEW D \in [Prom -> Outcome], NEW S \in SUBSET Prom
  PROVE  Spread(pr, D, S) \in SUBSET Prom /\ S \subseteq Spread(pr, D, S)
  BY UsesType DEF Spread, EmittedProgram

LEMMA ReachedDefined ==
  ASSUME NEW pr, EmittedProgram(pr), NEW D \in [Prom -> Outcome]
  PROVE  /\ Reached(pr, D) \in [0 .. Cardinality(Prom) -> SUBSET Prom]
         /\ Reached(pr, D)[0] = {Main}
         /\ \A n \in 1 .. Cardinality(Prom) :
              Reached(pr, D)[n] = Spread(pr, D, Reached(pr, D)[n - 1])
<1> DEFINE N == Cardinality(Prom)
           V == SUBSET Prom
           A == Reached(pr, D)
           Eq(g) == g = [n \in 0 .. N |-> IF n = 0 THEN {Main} ELSE Spread(pr, D, g[n - 1])]
           G == [x \in V |-> Spread(pr, D, x)]
<1>1. N \in Nat
  BY FiniteAssumption, FS_CardinalityType
<1>2. {Main} \in V
  BY LazyAssumption
<1>3. G \in [V -> V] /\ \A x \in V : G[x] = Spread(pr, D, x)
  BY SpreadType
<1>4. A = CHOOSE g : Eq(g)
  BY DEF Reached
<1> HIDE DEF N, V, A, G
<1>5. PICK f \in [0 .. N -> V] : f[0] = {Main} /\ \A i \in 1 .. N : f[i] = G[f[i - 1]]
  <2>1. \E f : Iteration(V, {Main}, G, N, f)
    BY <1>1, <1>2, <1>3, IterationExists
  <2> QED  BY <2>1 DEF Iteration
<1>6. Eq(f)
  <2>1. ASSUME NEW n \in 0 .. N
        PROVE  f[n] = IF n = 0 THEN {Main} ELSE Spread(pr, D, f[n - 1])
    <3>1. n # 0 => n \in 1 .. N /\ n - 1 \in 0 .. N
      BY <1>1
    <3> QED  BY <1>3, <1>5, <3>1
  <2> QED  BY <2>1
<1>7. Eq(A)
  <2> HIDE DEF Eq
  <2> QED  BY <1>4, <1>6
<1>8. A[0] = {Main} /\ DOMAIN A = 0 .. N
  BY <1>1, <1>7
<1>9. ASSUME NEW n \in 1 .. N
      PROVE  A[n] = Spread(pr, D, A[n - 1])
  <2>1. n \in 0 .. N /\ n # 0
    BY <1>1
  <2> QED  BY <1>7, <2>1
<1> DEFINE Bad == {n \in 0 .. N : A[n] \notin V}
<1>10. Bad = {}
  <2> SUFFICES ASSUME Bad # {} PROVE FALSE
    OBVIOUS
  <2>1. Bad \in SUBSET Nat
    BY <1>1
  <2>2. PICK x \in Bad : \A y \in Bad : x <= y
    BY <2>1, LeastNumber
  <2>3. x \in Nat /\ x \in 0 .. N /\ A[x] \notin V /\ x # 0
    BY <1>2, <1>8, <2>1, <2>2
  <2>4. x \in 1 .. N /\ x - 1 \in 0 .. N /\ ~(x <= x - 1)
    BY <1>1, <2>3
  <2>5. A[x - 1] \in V
    BY <2>2, <2>4
  <2> QED  BY <1>9, <2>3, <2>4, <2>5, SpreadType DEF V
<1>11. A \in [0 .. N -> V]
  <2>1. A = [n \in 0 .. N |-> A[n]]
    BY <1>7
  <2> QED  BY <1>10, <2>1
<1> QED  BY <1>8, <1>9, <1>11 DEF A, N, V

LEMMA ReachedClosed ==
  ASSUME NEW pr, EmittedProgram(pr), NEW D \in [Prom -> Outcome],
         NEW W, W = Reached(pr, D)[Cardinality(Prom)]
  PROVE  /\ Main \in W
         /\ \A p \in W : p \in Prom /\ Uses(pr[p], D) \subseteq W
<1> DEFINE N == Cardinality(Prom)
           A == Reached(pr, D)
           F == [n \in 0 .. (N + 1) |-> IF n = 0 THEN {Main} ELSE Spread(pr, D, A[n - 1])]
<1>1. N \in Nat /\ N = Cardinality(Prom)
  BY FiniteAssumption, FS_CardinalityType
<1>2. A \in [0 .. N -> SUBSET Prom] /\ A[0] = {Main}
      /\ \A n \in 1 .. N : A[n] = Spread(pr, D, A[n - 1])
  BY ReachedDefined
<1>3. W = A[N]
  OBVIOUS
<1> HIDE DEF N, A
<1>4. ASSUME NEW n \in 0 .. N
      PROVE  F[n] = A[n] /\ F[n + 1] = Spread(pr, D, F[n])
  <2>1. n \in Nat /\ n \in 0 .. (N + 1) /\ n + 1 \in 0 .. (N + 1) /\ n + 1 # 0 /\ (n + 1) - 1 = n
    BY <1>1
  <2>2. n # 0 => n \in 1 .. N
    BY <1>1
  <2>3. F[n] = A[n]
    BY <1>2, <2>1, <2>2
  <2>4. F[n + 1] = Spread(pr, D, A[n])
    BY <2>1
  <2> QED  BY <2>3, <2>4
<1>5. F \in [0 .. (N + 1) -> SUBSET Prom]
  <2>1. ASSUME NEW n \in 0 .. (N + 1), n # 0
        PROVE  Spread(pr, D, A[n - 1]) \in SUBSET Prom
    <3>1. n - 1 \in 0 .. N
      BY <1>1, <2>1
    <3> QED  BY <1>2, <3>1, SpreadType
  <2> QED  BY <2>1, LazyAssumption
<1>6. F[0] = {Main}
  <2>1. 0 \in 0 .. (N + 1)
    BY <1>1
  <2> QED  BY <2>1
<1> HIDE DEF F
<1>7. ASSUME NEW n \in 0 .. N
      PROVE  F[n] \subseteq F[n + 1]
  <2>1. F[n] \in SUBSET Prom
    BY <1>1, <1>5
  <2> QED  BY <1>4, <2>1, SpreadType
<1>8. ASSUME NEW n \in 0 .. (N - 1), F[n] = F[n + 1]
      PROVE  F[n + 1] = F[n + 2]
  <2>1. n \in 0 .. N /\ n + 1 \in 0 .. N /\ (n + 1) + 1 = n + 2
    BY <1>1
  <2> QED  BY <1>4, <1>8, <2>1
<1>9. F[N] = F[N + 1]
  <2>1. \A n \in 0 .. N : F[n] \subseteq F[n + 1]
    BY <1>7
  <2>2. \A n \in 0 .. (N - 1) : F[n] = F[n + 1] => F[n + 1] = F[n + 2]
    BY <1>8
  <2> QED  BY <1>1, <1>5, <2>1, <2>2, FiniteAssumption, ChainStops
<1>10. N \in 0 .. N
  BY <1>1
<1>11. W = Spread(pr, D, W) /\ W \in SUBSET Prom
  BY <1>2, <1>3, <1>4, <1>9, <1>10
<1> DEFINE Bad == {n \in 0 .. N : Main \notin F[n]}
<1>12. Bad = {}
  <2> SUFFICES ASSUME Bad # {} PROVE FALSE
    OBVIOUS
  <2>1. Bad \in SUBSET Nat
    BY <1>1
  <2>2. PICK x \in Bad : \A y \in Bad : x <= y
    BY <2>1, LeastNumber
  <2>3. x \in Nat /\ x \in 0 .. N /\ Main \notin F[x] /\ x # 0
    BY <1>6, <2>1, <2>2
  <2>4. x - 1 \in 0 .. N /\ (x - 1) + 1 = x /\ ~(x <= x - 1)
    BY <1>1, <2>3
  <2>5. Main \in F[x - 1]
    BY <2>2, <2>4
  <2> QED  BY <1>7, <2>3, <2>4, <2>5
<1>13. Main \in W
  BY <1>3, <1>4, <1>10, <1>12
<1> QED  BY <1>11, <1>13 DEF Spread

----------------------------------------------------------------------------
(***************************************************************************)
(* The inductive invariant, about outcomes D and needed promises W that    *)
(* solve their equations.                                                  *)
(***************************************************************************)
Kind == {"number", "string", "undefined", "object", "success", "failure"}

Status ==
  [ph : {"idle", "new", "io", "wait", "done"}, on : Prom \cup {None},
   pc : {"", "first", "second", "last"}, left : Kind \cup {""}, r : Result]

Typed ==
  /\ prog \in Programs
  /\ st \in [Prom -> Status]
  /\ awaited \in SUBSET Prom

Solved(D, W) ==
  /\ D \in [Prom -> Outcome] /\ \A p \in Prom : D[p] = Meaning(prog[p], D)
  /\ Main \in W /\ \A p \in W : p \in Prom /\ Uses(prog[p], D) \subseteq W

Agrees(D) == \A p \in Prom : Done(p) => st[p].r = D[p]

Touched(p) == p \in awaited \/ st[p].ph # "idle"

(* The argument of call f was awaited, and its body has begun. *)
Entered(f) == Done(prog[f].a) /\ st[prog[f].a].r.ok

Inside(q) == \A f \in prog[q].within : Entered(f)

(* A result holds only promises whose surrounding calls have begun. *)
HoldsInside(r) == \A x \in Key : \A q \in Prom : r.v.at[x] = q => Inside(q)

Lexical ==
  /\ \A p \in Prom : Touched(p) => Inside(p)
  /\ \A p \in Prom : Done(p) => HoldsInside(st[p].r)

(* What code that awaits q at pc has found out so far. *)
Knows(c, D, q, pc, left) ==
  \/ pc = "first" /\ c.op \notin {"const", "io", "a2chk"} /\ q = c.a
  \/ /\ pc = "first" /\ c.op = "a2chk"
     /\ D[c.a].ok /\ D[c.a].v # Undefined /\ q = D[c.a].v.at[c.key]
  \/ pc = "second" /\ c.op = "binop" /\ q = c.b /\ D[c.a].ok /\ left = D[c.a].v.k
  \/ /\ pc = "last" /\ c.op \notin {"const", "io", "tryEval", "binop"}
     /\ Meaning(c, D) = D[q]

Waits(D) ==
  \A p \in Prom : st[p].ph = "wait" =>
    st[p].on \in awaited /\ Knows(prog[p], D, st[p].on, st[p].pc, st[p].left)

InPhase == \A p \in Prom : st[p].ph = "io" => prog[p].op = "io"

NeededOnly(W) == \A p \in Prom : Touched(p) => p \in W

(* A promise that runs though nobody awaits it was called as an operand or *)
(* a formal.                                                               *)
CalledBy(p, q, D) ==
  /\ q \in prog[p].spawn
  /\ \/ prog[p].op = "call"
     \/ prog[p].op = "binop" /\ q = prog[p].b
        /\ (st[p].ph = "wait" \/ D[prog[p].a].ok = FALSE)

Called(D) ==
  \A q \in Prom : st[q].ph # "idle" /\ q \notin awaited => \E p \in Prom : CalledBy(p, q, D)

IInv(D, W) ==
  /\ Typed /\ Solved(D, W) /\ Agrees(D) /\ Lexical /\ Waits(D) /\ InPhase
  /\ NeededOnly(W) /\ Called(D)

LEMMA ProgramFacts ==
  ASSUME NEW pr \in Programs
  PROVE  /\ EmittedProgram(pr) /\ pr[Main].within = {}
         /\ \A p \in Prom : /\ Emitted(pr[p]) /\ pr[p].within \in SUBSET Prom
                            /\ \A f \in pr[p].within : pr[f].op = "call" /\ pr[f].a \in Prom
                            /\ pr[p].op = "a2chk" => \E f \in pr[p].within : pr[f].a = pr[p].a
<1>1. pr \in [Prom -> Code] /\ Scoped(pr) /\ \A p \in Prom : Operands(pr[p])
  BY LazyAssumption
<1>2. \A p \in Prom : Emitted(pr[p])
  BY <1>1 DEF Emitted
<1>3. \A p \in Prom : pr[p].within \in SUBSET Prom
  BY <1>1 DEF Code
<1>4. /\ pr[Main].within = {}
      /\ \A p \in Prom : /\ \A f \in pr[p].within : pr[f].op = "call"
                         /\ pr[p].op = "a2chk" => \E f \in pr[p].within : pr[f].a = pr[p].a
  BY <1>1 DEF Scoped
<1>5. \A f \in Prom : pr[f].op = "call" => pr[f].a \in Prom
  BY <1>2, EmittedFacts
<1> QED  BY <1>2, <1>3, <1>4, <1>5 DEF EmittedProgram

LEMMA StaysInside ==
  ASSUME Typed, prog' = prog, \A y \in Prom : Done(y) => st'[y] = st[y],
         NEW q \in Prom, Inside(q)
  PROVE  Inside(q)'
<1> SUFFICES ASSUME NEW f \in prog[q].within
             PROVE  Entered(f)'
  BY DEF Inside
<1>1. prog[f].a \in Prom
  BY ProgramFacts DEF Typed
<1>2. Done(prog[f].a) /\ st[prog[f].a].r.ok
  BY DEF Inside, Entered
<1> QED  BY <1>1, <1>2 DEF Entered, Done

LEMMA HoldsStays ==
  ASSUME Typed, prog' = prog, \A y \in Prom : Done(y) => st'[y] = st[y],
         NEW r, HoldsInside(r)
  PROVE  HoldsInside(r)'
  BY StaysInside DEF HoldsInside

(* What code refers to is inside what the code is inside of. *)
LEMMA RefersInside ==
  ASSUME Typed, NEW p \in Prom, Inside(p), NEW q \in Prom, q \in Refers(prog[p]),
         \/ prog[p].op # "call" \/ q = prog[p].a \/ Entered(p)
  PROVE  Inside(q)
<1>1. Scoped(prog)
  BY LazyAssumption DEF Typed
<1>2. \A f \in prog[q].within : f \in prog[p].within
        \/ (f = p /\ prog[p].op = "call" /\ q # prog[p].a)
  BY <1>1 DEF Scoped
<1> QED  BY <1>2 DEF Inside

----------------------------------------------------------------------------
(* Settling keeps the invariant. *)
LEMMA SettleKeeps ==
  ASSUME NEW D, NEW W, IInv(D, W), NEW p \in Prom, st[p].ph \in {"new", "io", "wait"},
         NEW r \in Result, r = D[p], HoldsInside(r),
         prog[p].op = "binop" => ~D[prog[p].a].ok \/ prog[p].b \in awaited,
         Settle(p, r)
  PROVE  IInv(D, W)'
<1>1. /\ Typed /\ Solved(D, W) /\ Agrees(D) /\ Lexical /\ Waits(D) /\ InPhase
      /\ NeededOnly(W) /\ Called(D)
  BY DEF IInv
<1>2. prog' = prog /\ awaited' = awaited /\ st' = Settled(st, p, r)
  BY DEF Settle
<1>3. st \in [Prom -> Status] /\ st[p] \in Status
  BY <1>1 DEF Typed
<1> DEFINE s == [st[p] EXCEPT !.ph = "done", !.r = r]
<1>4. s \in Status /\ s.ph = "done" /\ s.r = r
  BY <1>3 DEF Status
<1>5. st' = [st EXCEPT ![p] = s]
  BY <1>2, <1>3 DEF Settled
<1> HIDE DEF s
<1>6. /\ st' \in [Prom -> Status] /\ st'[p] = s
      /\ \A y \in Prom : y # p => st'[y] = st[y]
  BY <1>3, <1>4, <1>5
<1>7. \A y \in Prom : Done(y) => st'[y] = st[y]
  BY <1>6 DEF Done
<1>8. Typed'
  BY <1>1, <1>2, <1>6 DEF Typed
<1>9. Solved(D, W)'
  BY <1>1, <1>2 DEF Solved
<1>10. Agrees(D)'
  BY <1>1, <1>4, <1>6 DEF Agrees, Done
<1>11. \A y \in Prom : Touched(y)' => Touched(y)
  BY <1>2, <1>6 DEF Touched
<1>12. Lexical'
  <2>1. ASSUME NEW y \in Prom, Touched(y)'
        PROVE  Inside(y)'
    BY <1>1, <1>2, <1>7, <1>11, <2>1, StaysInside DEF Lexical
  <2>2. ASSUME NEW y \in Prom, Done(y)'
        PROVE  HoldsInside(st[y].r)'
    <3>1. CASE y = p
      <4>1. st'[y].r = r
        BY <1>4, <1>6, <3>1
      <4>2. HoldsInside(r)'
        BY <1>1, <1>2, <1>7, HoldsStays
      <4> QED  BY <4>1, <4>2 DEF HoldsInside
    <3>2. CASE y # p
      <4>1. st'[y] = st[y] /\ Done(y)
        BY <1>6, <2>2, <3>2 DEF Done
      <4>2. HoldsInside(st[y].r)
        BY <1>1, <4>1 DEF Lexical
      <4>3. PICK t : t = st[y].r
        OBVIOUS
      <4>4. HoldsInside(t)'
        BY <1>1, <1>2, <1>7, <4>2, <4>3, HoldsStays
      <4> QED  BY <4>1, <4>3, <4>4 DEF HoldsInside
    <3> QED  BY <3>1, <3>2
  <2> QED  BY <2>1, <2>2 DEF Lexical
<1>13. Waits(D)'
  BY <1>1, <1>2, <1>4, <1>6 DEF Waits
<1>14. InPhase'
  BY <1>1, <1>2, <1>4, <1>6 DEF InPhase
<1>15. NeededOnly(W)'
  BY <1>1, <1>11 DEF NeededOnly
<1>16. Called(D)'
  <2> SUFFICES ASSUME NEW q \in Prom, st'[q].ph # "idle", q \notin awaited
               PROVE  \E y \in Prom : CalledBy(y, q, D)'
    BY <1>2 DEF Called
  <2>1. st[q].ph # "idle"
    BY <1>6
  <2>2. PICK y \in Prom : CalledBy(y, q, D)
    BY <1>1, <2>1 DEF Called
  <2>3. CASE y # p
    BY <1>2, <1>6, <2>2, <2>3 DEF CalledBy
  <2>4. CASE y = p
    <3>1. prog[p].op = "binop" /\ q = prog[p].b => D[prog[p].a].ok = FALSE
      <4>1. Emitted(prog[p])
        BY <1>1, ProgramFacts DEF Typed
      <4>2. prog[p].op = "binop" => D[prog[p].a].ok \in BOOLEAN
        BY <1>1, <4>1, EmittedFacts, OutcomeFacts DEF Solved
      <4> QED  BY <4>2
    <3> QED  BY <1>2, <2>2, <2>4, <3>1 DEF CalledBy
  <2> QED  BY <2>3, <2>4
<1> QED  BY <1>8, <1>9, <1>10, <1>12, <1>13, <1>14, <1>15, <1>16 DEF IInv

(* A promise that was made runs: its executor, or its input/output. *)
LEMMA PhaseKeeps ==
  ASSUME NEW D, NEW W, IInv(D, W), NEW p \in Prom, Touched(p),
         st[p].ph \in {"idle", "new"}, NEW ph \in {"new", "io"},
         ph = "io" => prog[p].op = "io",
         st' = [st EXCEPT ![p].ph = ph], prog' = prog, awaited' = awaited
  PROVE  IInv(D, W)'
<1>1. /\ Typed /\ Solved(D, W) /\ Agrees(D) /\ Lexical /\ Waits(D) /\ InPhase
      /\ NeededOnly(W) /\ Called(D)
  BY DEF IInv
<1>2. prog' = prog /\ awaited' = awaited
  OBVIOUS
<1>3. st \in [Prom -> Status] /\ st[p] \in Status
  BY <1>1 DEF Typed
<1> DEFINE s == [st[p] EXCEPT !.ph = ph]
<1>4. s \in Status /\ s.ph = ph
  BY <1>3 DEF Status
<1>5. st' = [st EXCEPT ![p] = s]
  BY <1>3
<1> HIDE DEF s
<1>6. /\ st' \in [Prom -> Status] /\ st'[p] = s
      /\ \A y \in Prom : y # p => st'[y] = st[y]
  BY <1>3, <1>4, <1>5
<1>7. \A y \in Prom : Done(y) => st'[y] = st[y]
  BY <1>6 DEF Done
<1>8. Typed'
  BY <1>1, <1>2, <1>6 DEF Typed
<1>9. Solved(D, W)'
  BY <1>1, <1>2 DEF Solved
<1>10. \A y \in Prom : Done(y)' => Done(y) /\ st'[y] = st[y]
  BY <1>4, <1>6 DEF Done
<1>11. Agrees(D)'
  BY <1>1, <1>10 DEF Agrees
<1>12. \A y \in Prom : Touched(y)' => Touched(y)
  BY <1>2, <1>6 DEF Touched
<1>13. Lexical'
  <2>1. ASSUME NEW y \in Prom, Touched(y)'
        PROVE  Inside(y)'
    BY <1>1, <1>2, <1>7, <1>12, <2>1, StaysInside DEF Lexical
  <2>2. ASSUME NEW y \in Prom, Done(y)'
        PROVE  HoldsInside(st[y].r)'
    <3>1. st'[y] = st[y] /\ HoldsInside(st[y].r)
      BY <1>1, <1>10, <2>2 DEF Lexical
    <3>2. PICK t : t = st[y].r
      OBVIOUS
    <3>3. HoldsInside(t)'
      BY <1>1, <1>2, <1>7, <3>1, <3>2, HoldsStays
    <3> QED  BY <3>1, <3>2, <3>3 DEF HoldsInside
  <2> QED  BY <2>1, <2>2 DEF Lexical
<1>14. Waits(D)'
  BY <1>1, <1>2, <1>4, <1>6 DEF Waits
<1>15. InPhase'
  BY <1>1, <1>2, <1>4, <1>6 DEF InPhase
<1>16. NeededOnly(W)'
  BY <1>1, <1>12 DEF NeededOnly
<1>17. Called(D)'
  <2> SUFFICES ASSUME NEW q \in Prom, st'[q].ph # "idle", q \notin awaited
               PROVE  \E y \in Prom : CalledBy(y, q, D)'
    BY <1>2 DEF Called
  <2>1. st[q].ph # "idle"
    BY <1>6 DEF Touched
  <2>2. PICK y \in Prom : CalledBy(y, q, D)
    BY <1>1, <2>1 DEF Called
  <2>3. st[y].ph = "wait" => st'[y].ph = "wait"
    BY <1>6
  <2> QED  BY <1>2, <2>2, <2>3 DEF CalledBy
<1> QED  BY <1>8, <1>9, <1>11, <1>13, <1>14, <1>15, <1>16, <1>17 DEF IInv

(* What an await does: p waits for q, q is awaited, the calls Q begin. *)
Parked(p, q, pc, left, Q) ==
  /\ st' = [y \in Prom |->
              IF y = p THEN [st[p] EXCEPT !.ph = "wait", !.on = q, !.pc = pc, !.left = left]
              ELSE IF y \in Q /\ st[y].ph = "idle" THEN [st[y] EXCEPT !.ph = "new"]
              ELSE st[y]]
  /\ awaited' = awaited \cup {q} /\ prog' = prog

LEMMA AwaitParks ==
  ASSUME Typed, NEW p \in Prom, NEW q, NEW pc, NEW Q, Await(p, q, pc, Q)
  PROVE  Parked(p, q, pc, st[p].left, Q)
<1>1. st \in [Prom -> Status] /\ st[p] \in Status
  BY DEF Typed
<1> DEFINE s == [st[p] EXCEPT !.ph = "wait", !.on = q, !.pc = pc]
           t == [st[p] EXCEPT !.ph = "wait", !.on = q, !.pc = pc, !.left = st[p].left]
<1>2. s = t /\ s.ph = "wait"
  BY <1>1 DEF Status
<1>3. Waiting(st, p, q, pc) = [st EXCEPT ![p] = s]
  BY <1>1 DEF Waiting
<1>4. st' = Started(Waiting(st, p, q, pc), Q) /\ awaited' = awaited \cup {q} /\ prog' = prog
  BY DEF Await
<1> HIDE DEF s, t
<1>5. \A y \in Prom : Waiting(st, p, q, pc)[y] = IF y = p THEN t ELSE st[y]
  BY <1>1, <1>2, <1>3
<1>6. st' = [y \in Prom |-> IF y = p THEN t
                            ELSE IF y \in Q /\ st[y].ph = "idle" THEN [st[y] EXCEPT !.ph = "new"]
                            ELSE st[y]]
  BY <1>2, <1>4, <1>5 DEF Started
<1> QED  BY <1>4, <1>6 DEF Parked, t

(* Awaiting keeps the invariant, under these conditions. *)
MayAwait(D, W, p, q, pc, left, Q) ==
  /\ p \in Prom /\ st[p].ph \in {"new", "wait"} /\ q \in Prom /\ Inside(q) /\ q \in W
  /\ pc \in {"first", "second", "last"} /\ left \in Kind \cup {""}
  /\ Knows(prog[p], D, q, pc, left)
  /\ Q \in SUBSET Prom
  /\ \A y \in Q : /\ Inside(y) /\ y \in W /\ y \in prog[p].spawn
                  /\ prog[p].op = "call" \/ (prog[p].op = "binop" /\ y \in {q, prog[p].b})

LEMMA AwaitKeeps ==
  ASSUME NEW D, NEW W, IInv(D, W), NEW p, NEW q, NEW pc, NEW left, NEW Q,
         MayAwait(D, W, p, q, pc, left, Q), Parked(p, q, pc, left, Q)
  PROVE  IInv(D, W)'
<1>0. /\ p \in Prom /\ st[p].ph \in {"new", "wait"} /\ q \in Prom /\ Inside(q) /\ q \in W
      /\ pc \in {"first", "second", "last"} /\ left \in Kind \cup {""}
      /\ Knows(prog[p], D, q, pc, left)
      /\ Q \in SUBSET Prom
      /\ \A y \in Q : /\ Inside(y) /\ y \in W /\ y \in prog[p].spawn
                      /\ prog[p].op = "call" \/ (prog[p].op = "binop" /\ y \in {q, prog[p].b})
  BY DEF MayAwait
<1> USE <1>0
<1>1. /\ Typed /\ Solved(D, W) /\ Agrees(D) /\ Lexical /\ Waits(D) /\ InPhase
      /\ NeededOnly(W) /\ Called(D)
  BY DEF IInv
<1>2. prog' = prog /\ awaited' = awaited \cup {q}
  BY DEF Parked
<1>3. st \in [Prom -> Status] /\ st[p] \in Status
  BY <1>1 DEF Typed
<1> DEFINE s == [st[p] EXCEPT !.ph = "wait", !.on = q, !.pc = pc, !.left = left]
           n(y) == [st[y] EXCEPT !.ph = "new"]
<1>4. s \in Status /\ s.ph = "wait" /\ s.on = q /\ s.pc = pc /\ s.left = left
  BY <1>3 DEF Status
<1>5. \A y \in Prom : n(y) \in Status /\ n(y).ph = "new"
  BY <1>3 DEF Status
<1>6. st' = [y \in Prom |-> IF y = p THEN s
                            ELSE IF y \in Q /\ st[y].ph = "idle" THEN n(y) ELSE st[y]]
  BY DEF Parked
<1> HIDE DEF s, n
<1>7. /\ st' \in [Prom -> Status] /\ st'[p] = s
      /\ \A y \in Prom : y # p => st'[y] = st[y] \/ (y \in Q /\ st[y].ph = "idle" /\ st'[y].ph = "new")
  BY <1>3, <1>4, <1>5, <1>6
<1>8. \A y \in Prom : Done(y) => st'[y] = st[y]
  BY <1>7 DEF Done
<1>9. \A y \in Prom : Done(y)' => Done(y) /\ st'[y] = st[y]
  BY <1>4, <1>7 DEF Done
<1>10. Typed'
  BY <1>1, <1>2, <1>7 DEF Typed
<1>11. Solved(D, W)'
  BY <1>1, <1>2 DEF Solved
<1>12. Agrees(D)'
  BY <1>1, <1>9 DEF Agrees
<1>13. \A y \in Prom : Touched(y)' => Touched(y) \/ y = q \/ y \in Q
  BY <1>2, <1>7 DEF Touched
<1>14. Lexical'
  <2>1. ASSUME NEW y \in Prom, Touched(y)'
        PROVE  Inside(y)'
    <3>1. Inside(y)
      BY <1>1, <1>13, <2>1 DEF Lexical
    <3> QED  BY <1>1, <1>2, <1>8, <3>1, StaysInside
  <2>2. ASSUME NEW y \in Prom, Done(y)'
        PROVE  HoldsInside(st[y].r)'
    <3>1. st'[y] = st[y] /\ HoldsInside(st[y].r)
      BY <1>1, <1>9, <2>2 DEF Lexical
    <3>2. PICK t : t = st[y].r
      OBVIOUS
    <3>3. HoldsInside(t)'
      BY <1>1, <1>2, <1>8, <3>1, <3>2, HoldsStays
    <3> QED  BY <3>1, <3>2, <3>3 DEF HoldsInside
  <2> QED  BY <2>1, <2>2 DEF Lexical
<1>15. Waits(D)'
  <2> SUFFICES ASSUME NEW y \in Prom, st'[y].ph = "wait"
               PROVE  /\ st'[y].on \in awaited'
                      /\ Knows(prog[y], D, st'[y].on, st'[y].pc, st'[y].left)
    BY <1>2 DEF Waits
  <2>1. CASE y = p
    BY <1>2, <1>4, <1>7, <2>1
  <2>2. CASE y # p
    BY <1>1, <1>2, <1>7, <2>2 DEF Waits
  <2> QED  BY <2>1, <2>2
<1>16. InPhase'
  BY <1>1, <1>2, <1>4, <1>7 DEF InPhase
<1>17. NeededOnly(W)'
  BY <1>1, <1>13 DEF NeededOnly
<1>18. Called(D)'
  <2> SUFFICES ASSUME NEW z \in Prom, st'[z].ph # "idle", z \notin awaited, z # q
               PROVE  \E y \in Prom : CalledBy(y, z, D)'
    BY <1>2 DEF Called
  <2>1. CASE st[z].ph = "idle"
    <3>1. z \in Q /\ z # p
      BY <1>7, <2>1
    <3>2. CalledBy(p, z, D)'
      BY <1>2, <1>4, <1>7, <3>1 DEF CalledBy
    <3> QED  BY <3>2
  <2>2. CASE st[z].ph # "idle"
    <3>1. PICK y \in Prom : CalledBy(y, z, D)
      BY <1>1, <2>2 DEF Called
    <3>2. st[y].ph = "wait" => st'[y].ph = "wait"
      BY <1>4, <1>7
    <3> QED  BY <1>2, <3>1, <3>2 DEF CalledBy
  <2> QED  BY <2>1, <2>2
<1> QED  BY <1>10, <1>11, <1>12, <1>14, <1>15, <1>16, <1>17, <1>18 DEF IInv

----------------------------------------------------------------------------
(* What is known of a promise that runs, and of one that has an answer. *)
LEMMA RunFacts ==
  ASSUME NEW D, NEW W, IInv(D, W), NEW p \in Prom, st[p].ph \in {"new", "io", "wait"}
  PROVE  /\ Typed /\ Emitted(prog[p]) /\ Inside(p) /\ p \in W /\ Uses(prog[p], D) \subseteq W
         /\ D[p] = Meaning(prog[p], D) /\ D \in [Prom -> Outcome] /\ st[p] \in Status
         /\ st[p].left \in Kind \cup {""} /\ W \in SUBSET Prom
<1>1. Typed /\ Solved(D, W) /\ Lexical /\ NeededOnly(W)
  BY DEF IInv
<1>2. Touched(p)
  BY DEF Touched
<1>3. st[p] \in Status
  BY <1>1 DEF Typed
<1>4. st[p].left \in Kind \cup {""}
  BY <1>3 DEF Status
<1>5. Emitted(prog[p])
  BY <1>1, ProgramFacts DEF Typed
<1>6. p \in W
  BY <1>1, <1>2 DEF NeededOnly
<1>7. Inside(p)
  BY <1>1, <1>2 DEF Lexical
<1> QED  BY <1>1, <1>3, <1>4, <1>5, <1>6, <1>7 DEF Solved

LEMMA DoneFacts ==
  ASSUME NEW D, NEW W, IInv(D, W), NEW q \in Prom, Done(q)
  PROVE  st[q].r = D[q] /\ st[q].r \in Result /\ HoldsInside(st[q].r)
<1>1. Typed /\ Agrees(D) /\ Lexical
  BY DEF IInv
<1>2. st[q] \in Status
  BY <1>1 DEF Typed
<1>3. st[q].r \in Result
  BY <1>2 DEF Status
<1> QED  BY <1>1, <1>3 DEF Agrees, Lexical

LEMMA ResumeFacts ==
  ASSUME NEW D, NEW W, IInv(D, W), NEW p \in Prom, NEW op, NEW pc, Resumed(p, op, pc)
  PROVE  /\ st[p].ph = "wait" /\ prog[p].op = op /\ st[p].pc = pc
         /\ st[p].on \in Prom /\ st[p].on \in awaited
         /\ Got(p) = D[st[p].on] /\ Got(p) \in Result /\ HoldsInside(Got(p))
         /\ Knows(prog[p], D, st[p].on, st[p].pc, st[p].left)
<1>1. st[p].ph = "wait" /\ prog[p].op = op /\ st[p].pc = pc /\ Done(st[p].on)
  BY DEF Resumed
<1>2. st[p].on \in awaited /\ Knows(prog[p], D, st[p].on, st[p].pc, st[p].left)
  BY <1>1 DEF IInv, Waits
<1>3. st[p].on \in Prom
  BY <1>2 DEF IInv, Typed
<1> QED  BY <1>1, <1>2, <1>3, DoneFacts DEF Got

LEMMA HoldsNothing ==
  /\ \A e \in Error : HoldsInside(Err(e))
  /\ \A k \in Kind : HoldsInside(Ok(Atom(k)))
  /\ \A r \in Result : ~r.ok => HoldsInside(r)
<1>1. None \notin Prom
  BY LazyAssumption
<1>2. \A x \in Key : Undefined.at[x] = None
  BY OkFacts DEF Undefined
<1>3. \A r : r.v = Undefined => HoldsInside(r)
  BY <1>1, <1>2 DEF HoldsInside
<1>4. \A e \in Error : Err(e).v = Undefined
  BY ErrFacts
<1>5. ASSUME NEW k \in Kind
      PROVE  HoldsInside(Ok(Atom(k)))
  <2>1. Ok(Atom(k)).v = Atom(k) /\ \A x \in Key : Atom(k).at[x] = None
    BY OkFacts DEF Kind
  <2> QED  BY <1>1, <2>1 DEF HoldsInside
<1>6. \A r \in Result : ~r.ok => r.v = Undefined
  BY DEF Result
<1> QED  BY <1>3, <1>4, <1>5, <1>6

----------------------------------------------------------------------------
(* One lemma per action. *)
LEMMA DemandKeeps ==
  ASSUME NEW D, NEW W, IInv(D, W), NEW p \in Prom, Demand(p)
  PROVE  IInv(D, W)'
<1>1. st \in [Prom -> Status]
  BY DEF IInv, Typed
<1>2. /\ st[p].ph = "idle" /\ p \in awaited /\ st' = Started(st, {p})
      /\ prog' = prog /\ awaited' = awaited
  BY DEF Demand
<1>3. st' = [st EXCEPT ![p].ph = "new"]
  BY <1>1, <1>2 DEF Started
<1>4. Touched(p)
  BY <1>2 DEF Touched
<1> QED  BY <1>2, <1>3, <1>4, PhaseKeeps

LEMMA BeginIoKeeps ==
  ASSUME NEW D, NEW W, IInv(D, W), NEW p \in Prom, BeginIo(p)
  PROVE  IInv(D, W)'
<1>1. /\ st[p].ph = "new" /\ prog[p].op = "io" /\ st' = [st EXCEPT ![p].ph = "io"]
      /\ prog' = prog /\ awaited' = awaited
  BY DEF BeginIo, New
<1>2. Touched(p)
  BY <1>1 DEF Touched
<1> QED  BY <1>1, <1>2, PhaseKeeps

LEMMA LeafKeeps ==
  ASSUME NEW D, NEW W, IInv(D, W), NEW p \in Prom, st[p].ph \in {"new", "io"},
         prog[p].op \in {"const", "io"}, Settle(p, prog[p].r)
  PROVE  IInv(D, W)'
<1>1. /\ Typed /\ Emitted(prog[p]) /\ Inside(p) /\ D[p] = Meaning(prog[p], D)
  BY RunFacts
<1>2. prog[p].r \in Result /\ prog[p].r = D[p]
  BY <1>1, EmittedFacts, MeaningCases
<1>3. HoldsInside(prog[p].r)
  <2>1. \A x \in Key : prog[p].r.v.at[x] \in Refers(prog[p])
    BY DEF Refers
  <2> QED  BY <1>1, <2>1, RefersInside DEF HoldsInside
<1> QED  BY <1>2, <1>3, SettleKeeps

LEMMA BeginKeeps ==
  ASSUME NEW D, NEW W, IInv(D, W), NEW p \in Prom, Begin(p)
  PROVE  IInv(D, W)'
<1>1. PICK Q : Q = IF prog[p].op = "binop" THEN prog[p].spawn ELSE {}
  OBVIOUS
<1>2. /\ st[p].ph = "new" /\ prog[p].op \notin {"const", "io", "a2chk"}
      /\ Await(p, prog[p].a, "first", Q)
  BY <1>1 DEF Begin
<1>3. PICK q : q = prog[p].a
  OBVIOUS
<1>4. /\ Typed /\ Emitted(prog[p]) /\ Inside(p) /\ Uses(prog[p], D) \subseteq W
      /\ st[p].left \in Kind \cup {""}
  BY <1>2, RunFacts
<1>5. PICK left : left = st[p].left
  OBVIOUS
<1>6. Parked(p, q, "first", left, Q)
  BY <1>2, <1>3, <1>4, <1>5, AwaitParks
<1>7. /\ prog[p].op \in Ops /\ prog[p].spawn \in SUBSET Prom /\ q \in Prom
      /\ prog[p].op = "binop" => prog[p].spawn \subseteq {prog[p].a, prog[p].b}
  BY <1>2, <1>3, <1>4, EmittedFacts
<1>8. q \in W /\ (prog[p].op = "binop" => prog[p].spawn \subseteq W)
  <2>1. prog[p].a \in Uses(prog[p], D) /\ (prog[p].op = "binop" => prog[p].spawn \subseteq Uses(prog[p], D))
    BY <1>2, <1>7, UsesCases DEF Ops
  <2> QED  BY <1>3, <1>4, <2>1
<1>9. q \in Refers(prog[p]) /\ prog[p].spawn \subseteq Refers(prog[p])
  BY <1>3 DEF Refers
<1>10. Inside(q)
  BY <1>3, <1>4, <1>7, <1>9, RefersInside
<1>11. \A y \in Q : /\ Inside(y) /\ y \in W /\ y \in prog[p].spawn
                    /\ prog[p].op = "call" \/ (prog[p].op = "binop" /\ y \in {q, prog[p].b})
  <2> TAKE y \in Q
  <2>1. prog[p].op = "binop" /\ y \in prog[p].spawn
    BY <1>1
  <2>2. Inside(y)
    BY <1>4, <1>7, <1>9, <2>1, RefersInside
  <2> QED  BY <1>3, <1>7, <1>8, <2>1, <2>2
<1>12. Q \in SUBSET Prom
  BY <1>1, <1>7
<1>13. Knows(prog[p], D, q, "first", left)
  BY <1>2, <1>3 DEF Knows
<1>14. MayAwait(D, W, p, q, "first", left, Q)
  BY <1>2, <1>4, <1>5, <1>7, <1>8, <1>10, <1>11, <1>12, <1>13 DEF MayAwait
<1> QED  BY <1>6, <1>14, AwaitKeeps

LEMMA RethrowKeeps ==
  ASSUME NEW D, NEW W, IInv(D, W), NEW p \in Prom, Rethrow(p)
  PROVE  IInv(D, W)'
<1>1. /\ Resumed(p, prog[p].op, st[p].pc) /\ ~Got(p).ok /\ ~Catches(p)
      /\ Settle(p, Got(p))
  BY DEF Rethrow
<1>2. PICK c, q, r, pc : c = prog[p] /\ q = st[p].on /\ r = Got(p) /\ pc = st[p].pc
  OBVIOUS
<1>3. /\ st[p].ph = "wait" /\ q \in Prom /\ q \in awaited /\ r = D[q] /\ r \in Result
      /\ Knows(c, D, q, pc, st[p].left)
  BY <1>1, <1>2, ResumeFacts
<1>4. Emitted(c) /\ D[p] = Meaning(c, D) /\ D \in [Prom -> Outcome]
  BY <1>2, <1>3, RunFacts
<1>5. ~r.ok /\ (pc = "first" => c.op \notin {"orDefault", "tryEval"})
  BY <1>1, <1>2 DEF Catches
<1>6. c.op \in Ops /\ c.key \in Key
  BY <1>4, EmittedFacts
<1>7. r # Ok(Undefined)
  BY <1>5, OkFacts DEF Undefined
<1>8. D[p] = r /\ (c.op = "binop" => ~D[c.a].ok \/ c.b = q)
  <2>1. CASE pc = "first" /\ c.op \notin {"const", "io", "a2chk"} /\ q = c.a
    BY <1>3, <1>4, <1>5, <1>6, <2>1, MeaningCases DEF Then, Ops
  <2>2. CASE /\ pc = "first" /\ c.op = "a2chk"
             /\ D[c.a].ok /\ D[c.a].v # Undefined /\ q = D[c.a].v.at[c.key]
    <3>1. q # None
      BY <1>3, LazyAssumption
    <3>2. Field(c, D) = r
      BY <1>3, <2>2, <3>1 DEF Field, Present
    <3> QED  BY <1>4, <1>7, <2>2, <3>2, MeaningCases DEF Then
  <2>3. CASE pc = "second" /\ c.op = "binop" /\ q = c.b /\ D[c.a].ok /\ st[p].left = D[c.a].v.k
    BY <1>3, <1>4, <1>5, <2>3, MeaningCases DEF Then
  <2>4. CASE /\ pc = "last" /\ c.op \notin {"const", "io", "tryEval", "binop"}
             /\ Meaning(c, D) = D[q]
    BY <1>3, <1>4, <2>4
  <2> QED  BY <1>3, <2>1, <2>2, <2>3, <2>4 DEF Knows
<1>9. HoldsInside(r)
  BY <1>3, <1>5, HoldsNothing
<1>10. Settle(p, r)
  BY <1>1, <1>2
<1>11. prog[p].op = "binop" => ~D[prog[p].a].ok \/ prog[p].b \in awaited
  BY <1>2, <1>3, <1>8
<1> QED  BY <1>3, <1>8, <1>9, <1>10, <1>11, SettleKeeps

LEMMA ReturnKeeps ==
  ASSUME NEW D, NEW W, IInv(D, W), NEW p \in Prom, Return(p)
  PROVE  IInv(D, W)'
<1>1. Resumed(p, prog[p].op, "last") /\ Settle(p, Got(p))
  BY DEF Return
<1>2. PICK r : r = Got(p)
  OBVIOUS
<1>3. /\ st[p].ph = "wait" /\ st[p].pc = "last" /\ r = D[st[p].on] /\ r \in Result
      /\ HoldsInside(r) /\ Knows(prog[p], D, st[p].on, st[p].pc, st[p].left)
  BY <1>1, <1>2, ResumeFacts
<1>4. D[p] = Meaning(prog[p], D)
  BY <1>3, RunFacts
<1>5. r = D[p] /\ prog[p].op # "binop"
  BY <1>3, <1>4 DEF Knows
<1>6. Settle(p, r)
  BY <1>1, <1>2
<1> QED  BY <1>3, <1>5, <1>6, SettleKeeps

(* Awaiting one promise and starting no other. *)
LEMMA AwaitOneKeeps ==
  ASSUME NEW D, NEW W, IInv(D, W), NEW p \in Prom, st[p].ph \in {"new", "wait"},
         NEW q \in Prom, Inside(q), q \in Uses(prog[p], D),
         NEW pc \in {"first", "last"}, Knows(prog[p], D, q, pc, st[p].left),
         Await(p, q, pc, {})
  PROVE  IInv(D, W)'
<1>1. Typed /\ Uses(prog[p], D) \subseteq W /\ st[p].left \in Kind \cup {""}
  BY RunFacts
<1>2. PICK left : left = st[p].left
  OBVIOUS
<1>3. PICK Q : Q = {}
  OBVIOUS
<1>4. Parked(p, q, pc, left, Q)
  BY <1>1, <1>2, <1>3, AwaitParks
<1>5. /\ q \in W /\ left \in Kind \cup {""} /\ Knows(prog[p], D, q, pc, left)
      /\ pc \in {"first", "second", "last"} /\ Q \in SUBSET Prom
  BY <1>1, <1>2, <1>3
<1>6. \A y \in Q : /\ Inside(y) /\ y \in W /\ y \in prog[p].spawn
                   /\ prog[p].op = "call" \/ (prog[p].op = "binop" /\ y \in {q, prog[p].b})
  BY <1>3
<1>7. MayAwait(D, W, p, q, pc, left, Q)
  BY <1>5, <1>6 DEF MayAwait
<1> QED  BY <1>4, <1>7, AwaitKeeps

(* An operand that is not of a call is inside what the code is inside of. *)
LEMMA OperandInside ==
  ASSUME Typed, NEW p \in Prom, Inside(p), prog[p].op # "call"
  PROVE  /\ prog[p].a \in Prom => Inside(prog[p].a)
         /\ prog[p].b \in Prom => Inside(prog[p].b)
         /\ prog[p].c \in Prom => Inside(prog[p].c)
<1>1. {prog[p].a, prog[p].b, prog[p].c} \subseteq Refers(prog[p])
  BY DEF Refers
<1> QED  BY <1>1, RefersInside

LEMMA SelectKeeps ==
  ASSUME NEW D, NEW W, IInv(D, W), NEW p \in Prom, Select(p)
  PROVE  IInv(D, W)'
<1>1. PICK c, r, x : c = prog[p] /\ r = Got(p) /\ x = r.v.at[c.key]
  OBVIOUS
<1>2. Resumed(p, "get", "first") /\ r.ok
  BY <1>1 DEF Select
<1>3. \/ r.v = Undefined /\ Settle(p, Err(Absent))
      \/ r.v # Undefined /\ x = None /\ Settle(p, Ok(Undefined))
      \/ x # None /\ Await(p, x, "last", {})
  BY <1>1 DEF Select
<1>4. /\ st[p].ph = "wait" /\ c.op = "get" /\ r = D[st[p].on] /\ r \in Result
      /\ HoldsInside(r) /\ Knows(c, D, st[p].on, "first", st[p].left)
  BY <1>1, <1>2, ResumeFacts
<1>5. st[p].on = c.a
  BY <1>4 DEF Knows
<1>6. Emitted(c) /\ D[p] = Meaning(c, D)
  BY <1>1, <1>4, RunFacts
<1>7. c.key \in Key /\ r \in Outcome /\ x \in Prom \cup {None}
  BY <1>1, <1>4, <1>6, EmittedFacts, OutcomeFacts DEF Outcome
<1>8. Meaning(c, D) = Field(c, D) /\ D[c.a] = r
  BY <1>2, <1>4, <1>5, MeaningCases DEF Then
<1>9. CASE r.v = Undefined /\ Settle(p, Err(Absent))
  <2>1. D[p] = Err(Absent)
    BY <1>6, <1>8, <1>9 DEF Field
  <2>2. Absent \in Error
    BY DEF Absent, Error
  <2>3. Err(Absent) \in Result /\ HoldsInside(Err(Absent))
    BY <2>2, ErrFacts, HoldsNothing
  <2> QED  BY <1>1, <1>4, <1>9, <2>1, <2>3, SettleKeeps
<1>10. CASE r.v # Undefined /\ x = None /\ Settle(p, Ok(Undefined))
  <2>1. D[p] = Ok(Undefined)
    BY <1>1, <1>6, <1>8, <1>10 DEF Field, Present
  <2>2. Ok(Undefined) \in Result /\ HoldsInside(Ok(Undefined))
    BY OkFacts, HoldsNothing DEF Undefined, Kind
  <2> QED  BY <1>1, <1>4, <1>10, <2>1, <2>2, SettleKeeps
<1>11. CASE x # None /\ Await(p, x, "last", {})
  <2>1. x \in Prom /\ Inside(x)
    BY <1>1, <1>4, <1>7, <1>11 DEF HoldsInside
  <2>2. r.v # Undefined
    BY <1>1, <1>7, <1>11, OutcomeFacts
  <2>3. Present(D[c.a], c.key)
    BY <1>1, <1>2, <1>8, <1>11 DEF Present
  <2>4. Meaning(c, D) = D[x]
    BY <1>1, <1>8, <2>2, <2>3 DEF Field
  <2>5. x \in Uses(c, D)
    BY <1>1, <1>4, <1>8, <2>3, UsesCases
  <2>6. Knows(c, D, x, "last", st[p].left)
    BY <1>4, <2>4 DEF Knows
  <2> QED  BY <1>1, <1>4, <1>11, <2>1, <2>5, <2>6, AwaitOneKeeps
<1> QED  BY <1>3, <1>9, <1>10, <1>11

LEMMA orDefaultKeeps ==
  ASSUME NEW D, NEW W, IInv(D, W), NEW p \in Prom, orDefault(p)
  PROVE  IInv(D, W)'
<1>1. PICK c, r : c = prog[p] /\ r = Got(p)
  OBVIOUS
<1>2. /\ Resumed(p, "orDefault", "first")
      /\ r \in {Err(Absent), Ok(Undefined)} => Await(p, c.b, "last", {})
      /\ r \notin {Err(Absent), Ok(Undefined)} => Settle(p, r)
  BY <1>1 DEF orDefault
<1>3. /\ st[p].ph = "wait" /\ c.op = "orDefault" /\ r = D[st[p].on] /\ r \in Result
      /\ HoldsInside(r) /\ Knows(c, D, st[p].on, "first", st[p].left)
  BY <1>1, <1>2, ResumeFacts
<1>4. Typed /\ Inside(p) /\ Emitted(c) /\ D[p] = Meaning(c, D)
  BY <1>1, <1>3, RunFacts
<1>5. D[c.a] = r
  BY <1>3 DEF Knows
<1>6. CASE r \notin {Err(Absent), Ok(Undefined)}
  <2>1. D[p] = r
    BY <1>3, <1>4, <1>5, <1>6, MeaningCases
  <2> QED  BY <1>1, <1>2, <1>3, <1>6, <2>1, SettleKeeps
<1>7. CASE r \in {Err(Absent), Ok(Undefined)}
  <2>1. c.b \in Prom /\ Meaning(c, D) = D[c.b] /\ c.b \in Uses(c, D)
    BY <1>3, <1>4, <1>5, <1>7, EmittedFacts, MeaningCases, UsesCases
  <2>2. Inside(c.b)
    BY <1>1, <1>3, <1>4, <2>1, OperandInside
  <2>3. Knows(c, D, c.b, "last", st[p].left)
    BY <1>3, <2>1 DEF Knows
  <2>4. Await(p, c.b, "last", {})
    BY <1>2, <1>7
  <2> QED  BY <1>1, <1>3, <2>1, <2>2, <2>3, <2>4, AwaitOneKeeps
<1> QED  BY <1>6, <1>7

LEMMA tryEvalKeeps ==
  ASSUME NEW D, NEW W, IInv(D, W), NEW p \in Prom, tryEval(p)
  PROVE  IInv(D, W)'
<1>1. PICK c, r : c = prog[p] /\ r = Got(p)
  OBVIOUS
<1>2. PICK s : s = IF r.ok THEN Ok(Atom("success"))
                   ELSE IF r.e = "NixEvalError" THEN Ok(Atom("failure")) ELSE r
  OBVIOUS
<1>3. Resumed(p, "tryEval", "first") /\ Settle(p, s)
  BY <1>1, <1>2 DEF tryEval
<1>4. /\ st[p].ph = "wait" /\ c.op = "tryEval" /\ r = D[st[p].on] /\ r \in Result
      /\ HoldsInside(r) /\ Knows(c, D, st[p].on, "first", st[p].left)
  BY <1>1, <1>3, ResumeFacts
<1>5. D[p] = Meaning(c, D)
  BY <1>1, <1>4, RunFacts
<1>6. D[c.a] = r
  BY <1>4 DEF Knows
<1>7. D[p] = s
  BY <1>2, <1>4, <1>5, <1>6, MeaningCases
<1>8. s \in Result /\ HoldsInside(s)
  <2>1. /\ Ok(Atom("success")) \in Result /\ Ok(Atom("failure")) \in Result
        /\ HoldsInside(Ok(Atom("success"))) /\ HoldsInside(Ok(Atom("failure")))
    BY OkFacts, HoldsNothing DEF Kind
  <2> QED  BY <1>2, <1>4, <2>1
<1> QED  BY <1>1, <1>3, <1>4, <1>7, <1>8, SettleKeeps

LEMMA IfSuccessKeeps ==
  ASSUME NEW D, NEW W, IInv(D, W), NEW p \in Prom, IfSuccess(p)
  PROVE  IInv(D, W)'
<1>1. PICK c, r : c = prog[p] /\ r = Got(p)
  OBVIOUS
<1>2. PICK q : q = IF r.v.k = "success" THEN c.b ELSE c.c
  OBVIOUS
<1>3. /\ Resumed(p, "if", "first") /\ r.ok
      /\ IF r.v = Undefined THEN Settle(p, Err(Absent)) ELSE Await(p, q, "last", {})
  BY <1>1, <1>2 DEF IfSuccess
<1>4. /\ st[p].ph = "wait" /\ c.op = "if" /\ r = D[st[p].on]
      /\ Knows(c, D, st[p].on, "first", st[p].left)
  BY <1>1, <1>3, ResumeFacts
<1>5. Typed /\ Inside(p) /\ Emitted(c) /\ D[p] = Meaning(c, D)
  BY <1>1, <1>4, RunFacts
<1>6. D[c.a] = r
  BY <1>4 DEF Knows
<1>7. CASE r.v = Undefined
  <2>1. D[p] = Err(Absent)
    BY <1>3, <1>4, <1>5, <1>6, <1>7, MeaningCases DEF Then
  <2>2. Absent \in Error
    BY DEF Absent, Error
  <2>3. Err(Absent) \in Result /\ HoldsInside(Err(Absent))
    BY <2>2, ErrFacts, HoldsNothing
  <2> QED  BY <1>1, <1>3, <1>4, <1>7, <2>1, <2>3, SettleKeeps
<1>8. CASE r.v # Undefined
  <2>1. c.b \in Prom /\ c.c \in Prom
    BY <1>4, <1>5, EmittedFacts
  <2>2. q \in Prom /\ Inside(q)
    BY <1>1, <1>2, <1>4, <1>5, <2>1, OperandInside
  <2>3. Meaning(c, D) = D[q]
    BY <1>2, <1>3, <1>4, <1>6, <1>8, MeaningCases DEF Then
  <2>4. q \in Uses(c, D)
    BY <1>2, <1>3, <1>4, <1>6, <1>8, UsesCases
  <2>5. Knows(c, D, q, "last", st[p].left)
    BY <1>4, <2>3 DEF Knows
  <2> QED  BY <1>1, <1>3, <1>4, <1>8, <2>2, <2>4, <2>5, AwaitOneKeeps
<1> QED  BY <1>7, <1>8

LEMMA CallPatternKeeps ==
  ASSUME NEW D, NEW W, IInv(D, W), NEW p \in Prom, CallPattern(p)
  PROVE  IInv(D, W)'
<1>1. PICK c, r, q, Q, left : /\ c = prog[p] /\ r = Got(p) /\ q = prog[p].b
                              /\ Q = prog[p].spawn /\ left = st[p].left
  OBVIOUS
<1>2. Resumed(p, "call", "first") /\ r.ok /\ Await(p, q, "last", Q)
  BY <1>1 DEF CallPattern
<1>3. /\ st[p].ph = "wait" /\ c.op = "call" /\ r = D[st[p].on]
      /\ Knows(c, D, st[p].on, "first", st[p].left)
  BY <1>1, <1>2, ResumeFacts
<1>4. /\ Typed /\ Inside(p) /\ Emitted(c) /\ Uses(c, D) \subseteq W
      /\ left \in Kind \cup {""}
  BY <1>1, <1>3, RunFacts
<1>5. D[c.a] = r /\ st[p].on = c.a
  BY <1>3 DEF Knows
<1>6. Entered(p)
  BY <1>1, <1>2, <1>5 DEF Entered, Resumed, Got
<1>7. q \in Prom /\ Q \in SUBSET Prom
  BY <1>1, <1>3, <1>4, EmittedFacts
<1>8. q \in Refers(prog[p]) /\ \A y \in Q : y \in Refers(prog[p])
  BY <1>1 DEF Refers
<1>9. Inside(q) /\ \A y \in Q : Inside(y)
  BY <1>4, <1>6, <1>7, <1>8, RefersInside
<1>10. q \in W /\ \A y \in Q : y \in W
  <2>1. q \in Uses(c, D) /\ Q \subseteq Uses(c, D)
    BY <1>1, <1>2, <1>3, <1>5, UsesCases
  <2> QED  BY <1>4, <2>1
<1>11. Meaning(c, D) = D[q]
  BY <1>1, <1>2, <1>3, <1>5, MeaningCases DEF Then
<1>12. Knows(prog[p], D, q, "last", left)
  BY <1>1, <1>3, <1>11 DEF Knows
<1>13. Parked(p, q, "last", left, Q)
  BY <1>1, <1>2, <1>4, AwaitParks
<1>14. \A y \in Q : /\ Inside(y) /\ y \in W /\ y \in prog[p].spawn
                    /\ prog[p].op = "call" \/ (prog[p].op = "binop" /\ y \in {q, prog[p].b})
  BY <1>1, <1>3, <1>9, <1>10
<1>15. MayAwait(D, W, p, q, "last", left, Q)
  BY <1>3, <1>4, <1>7, <1>9, <1>10, <1>12, <1>14 DEF MayAwait
<1> QED  BY <1>13, <1>15, AwaitKeeps

LEMMA FallbackKeeps ==
  ASSUME NEW D, NEW W, IInv(D, W), NEW p \in Prom, st[p].ph \in {"new", "wait"},
         prog[p].op = "a2chk", D[prog[p].a].ok, Field(prog[p], D) = Ok(Undefined),
         Fallback(p)
  PROVE  IInv(D, W)'
<1>1. PICK c : c = prog[p]
  OBVIOUS
<1>2. Typed /\ Inside(p) /\ Emitted(c) /\ D[p] = Meaning(c, D)
  BY <1>1, RunFacts
<1>3. c.op = "a2chk" /\ D[c.a].ok /\ Field(c, D) = Ok(Undefined)
  BY <1>1
<1>4. Meaning(c, D) = IF c.b = None THEN Err("NixEvalError") ELSE D[c.b]
  BY <1>3, MeaningCases DEF Then
<1>5. Ok(Undefined) # Err(Absent)
  BY DEF Ok, Err
<1>6. c.b \in Prom \cup {None}
  BY <1>2, EmittedFacts
<1>7. CASE c.b = None
  <2>1. Settle(p, Err("NixEvalError"))
    BY <1>1, <1>7 DEF Fallback
  <2>2. Err("NixEvalError") \in Result /\ HoldsInside(Err("NixEvalError"))
    BY ErrFacts, HoldsNothing DEF Error
  <2>3. D[p] = Err("NixEvalError")
    BY <1>2, <1>4, <1>7
  <2> QED  BY <2>1, <2>2, <2>3, SettleKeeps
<1>8. CASE c.b # None
  <2>1. Await(p, c.b, "last", {}) /\ c.b \in Prom
    BY <1>1, <1>6, <1>8 DEF Fallback
  <2>2. Inside(c.b)
    BY <1>1, <1>2, <2>1, OperandInside
  <2>3. D[c.a].v # Undefined /\ (Present(D[c.a], c.key) => D[D[c.a].v.at[c.key]] = Ok(Undefined))
    BY <1>3, <1>5 DEF Field
  <2>4. c.b \in Uses(c, D)
    BY <1>3, <1>8, <2>3, UsesCases
  <2>5. Knows(c, D, c.b, "last", st[p].left)
    BY <1>3, <1>4, <1>8 DEF Knows
  <2> QED  BY <1>1, <2>1, <2>2, <2>4, <2>5, AwaitOneKeeps
<1> QED  BY <1>7, <1>8

(* _lambdaA2chk runs within a call that has awaited the argument. *)
LEMMA ArgumentThere ==
  ASSUME Typed, NEW p \in Prom, Inside(p), prog[p].op = "a2chk"
  PROVE  Done(prog[p].a) /\ st[prog[p].a].r.ok
<1>1. PICK f \in prog[p].within : prog[f].a = prog[p].a
  BY ProgramFacts DEF Typed
<1>2. Entered(f)
  BY DEF Inside
<1> QED  BY <1>1, <1>2 DEF Entered

LEMMA A2chkStartKeeps ==
  ASSUME NEW D, NEW W, IInv(D, W), NEW p \in Prom, New(p, "a2chk"),
         NEW v, v = st[prog[p].a].r.v, NEW x, x = v.at[prog[p].key],
         \/ v = Undefined /\ Settle(p, Err(Absent))
         \/ v # Undefined /\ x = None /\ Fallback(p)
         \/ x # None /\ Await(p, x, "first", {})
  PROVE  IInv(D, W)'
<1>1. PICK c, r : c = prog[p] /\ r = st[prog[p].a].r
  OBVIOUS
<1>2. st[p].ph = "new" /\ c.op = "a2chk"
  BY <1>1 DEF New
<1>3. Typed /\ Inside(p) /\ Emitted(c) /\ D[p] = Meaning(c, D) /\ D \in [Prom -> Outcome]
  BY <1>1, <1>2, RunFacts
<1>4. c.a \in Prom /\ c.key \in Key
  BY <1>2, <1>3, EmittedFacts
<1>5. Done(c.a) /\ r.ok
  BY <1>1, <1>2, <1>3, ArgumentThere
<1>6. r = D[c.a] /\ r \in Result /\ HoldsInside(r)
  BY <1>1, <1>4, <1>5, DoneFacts
<1>7. v = r.v /\ x = r.v.at[c.key] /\ x \in Prom \cup {None}
  BY <1>1, <1>4, <1>6, OutcomeFacts DEF Outcome
<1>8. CASE v = Undefined /\ Settle(p, Err(Absent))
  <2>1. Field(c, D) = Err(Absent) /\ Err(Absent) # Ok(Undefined)
    BY <1>6, <1>7, <1>8 DEF Field, Err, Ok
  <2>2. D[p] = Err(Absent)
    BY <1>2, <1>3, <1>5, <1>6, <2>1, MeaningCases DEF Then
  <2>3. Absent \in Error
    BY DEF Absent, Error
  <2>4. Err(Absent) \in Result /\ HoldsInside(Err(Absent))
    BY <2>3, ErrFacts, HoldsNothing
  <2> QED  BY <1>1, <1>2, <1>8, <2>2, <2>4, SettleKeeps
<1>9. CASE v # Undefined /\ x = None /\ Fallback(p)
  <2>1. Field(c, D) = Ok(Undefined)
    BY <1>6, <1>7, <1>9 DEF Field, Present
  <2> QED  BY <1>1, <1>2, <1>5, <1>6, <1>9, <2>1, FallbackKeeps
<1>10. CASE x # None /\ Await(p, x, "first", {})
  <2>1. x \in Prom /\ Inside(x)
    BY <1>4, <1>6, <1>7, <1>10 DEF HoldsInside
  <2>2. r.v # Undefined
    BY <1>4, <1>6, <1>7, <1>10, OutcomeFacts DEF Outcome
  <2>3. Present(D[c.a], c.key)
    BY <1>5, <1>6, <1>7, <1>10 DEF Present
  <2>4. x \in Uses(c, D)
    BY <1>2, <1>6, <1>7, <2>3, UsesCases
  <2>5. Knows(c, D, x, "first", st[p].left)
    BY <1>2, <1>5, <1>6, <1>7, <2>2 DEF Knows
  <2> QED  BY <1>1, <1>2, <1>10, <2>1, <2>4, <2>5, AwaitOneKeeps
<1> QED  BY <1>8, <1>9, <1>10

LEMMA A2chkResumeKeeps ==
  ASSUME NEW D, NEW W, IInv(D, W), NEW p \in Prom, Resumed(p, "a2chk", "first"),
         NEW r, r = Got(p), r.ok, IF r.v = Undefined THEN Fallback(p) ELSE Settle(p, r)
  PROVE  IInv(D, W)'
<1>1. PICK c, q : c = prog[p] /\ q = st[p].on
  OBVIOUS
<1>2. /\ st[p].ph = "wait" /\ c.op = "a2chk" /\ r = D[q] /\ r \in Result /\ HoldsInside(r)
      /\ q \in Prom /\ Knows(c, D, q, "first", st[p].left)
  BY <1>1, ResumeFacts
<1>3. D[p] = Meaning(c, D)
  BY <1>1, <1>2, RunFacts
<1>4. D[c.a].ok /\ D[c.a].v # Undefined /\ q = D[c.a].v.at[c.key] /\ q # None
  BY <1>2, LazyAssumption DEF Knows
<1>5. Field(c, D) = r
  BY <1>2, <1>4 DEF Field, Present
<1>6. CASE r.v = Undefined
  <2>1. r = Ok(Undefined)
    BY <1>2, <1>6 DEF Result, Ok
  <2> QED  BY <1>1, <1>2, <1>4, <1>5, <1>6, <2>1, FallbackKeeps
<1>7. CASE r.v # Undefined
  <2>1. r # Ok(Undefined)
    BY <1>7, OkFacts DEF Undefined
  <2>2. D[p] = r
    BY <1>2, <1>3, <1>4, <1>5, <2>1, MeaningCases DEF Then
  <2> QED  BY <1>1, <1>2, <1>7, <2>2, SettleKeeps
<1> QED  BY <1>6, <1>7

LEMMA BinOpFirstKeeps ==
  ASSUME NEW D, NEW W, IInv(D, W), NEW p \in Prom, Resumed(p, "binop", "first"), Got(p).ok,
         st' = [Waiting(st, p, prog[p].b, "second") EXCEPT ![p].left = Got(p).v.k],
         awaited' = awaited \cup {prog[p].b}, prog' = prog
  PROVE  IInv(D, W)'
<1>1. PICK c, r, q, left, Q : /\ c = prog[p] /\ r = Got(p) /\ q = prog[p].b
                              /\ left = Got(p).v.k /\ Q = {}
  OBVIOUS
<1>2. /\ st[p].ph = "wait" /\ c.op = "binop" /\ r = D[st[p].on] /\ r \in Result
      /\ Knows(c, D, st[p].on, "first", st[p].left)
  BY <1>1, ResumeFacts
<1>3. Typed /\ Inside(p) /\ Emitted(c) /\ Uses(c, D) \subseteq W
  BY <1>1, <1>2, RunFacts
<1>4. D[c.a] = r /\ r.ok
  BY <1>1, <1>2 DEF Knows
<1>5. q \in Prom
  BY <1>1, <1>2, <1>3, EmittedFacts
<1>6. Inside(q)
  BY <1>1, <1>2, <1>3, <1>5, OperandInside
<1>7. q \in W
  <2>1. q \in Uses(c, D)
    BY <1>1, <1>2, <1>4, UsesCases
  <2> QED  BY <1>3, <2>1
<1>8. left \in Kind \cup {""}
  BY <1>1, <1>2, OutcomeFacts DEF Kind, Outcome
<1>9. Knows(c, D, q, "second", left)
  BY <1>1, <1>2, <1>4 DEF Knows
<1>10. MayAwait(D, W, p, q, "second", left, Q)
  BY <1>1, <1>2, <1>5, <1>6, <1>7, <1>8, <1>9 DEF MayAwait
<1>11. Parked(p, q, "second", left, Q)
  <2>1. st \in [Prom -> Status] /\ st[p] \in Status
    BY <1>3 DEF Typed
  <2> DEFINE s == [st[p] EXCEPT !.ph = "wait", !.on = q, !.pc = "second"]
             t == [st[p] EXCEPT !.ph = "wait", !.on = q, !.pc = "second", !.left = left]
  <2>2. t = [s EXCEPT !.left = left]
    BY <2>1 DEF Status
  <2>3. Waiting(st, p, q, "second") = [st EXCEPT ![p] = s]
    BY <2>1 DEF Waiting
  <2>4. st' = [Waiting(st, p, q, "second") EXCEPT ![p].left = left]
    BY <1>1
  <2> HIDE DEF s
  <2>5. st' = [st EXCEPT ![p] = [s EXCEPT !.left = left]]
    BY <2>1, <2>3, <2>4
  <2>6. st' = [st EXCEPT ![p] = t]
    BY <2>2, <2>5
  <2> HIDE DEF t
  <2>7. st' = [y \in Prom |-> IF y = p THEN t
                              ELSE IF y \in Q /\ st[y].ph = "idle" THEN [st[y] EXCEPT !.ph = "new"]
                              ELSE st[y]]
    BY <1>1, <2>1, <2>6
  <2> QED  BY <1>1, <2>7 DEF Parked, t
<1> QED  BY <1>10, <1>11, AwaitKeeps

LEMMA BinOpSecondKeeps ==
  ASSUME NEW D, NEW W, IInv(D, W), NEW p \in Prom, Resumed(p, "binop", "second"),
         NEW r, r = Got(p), r.ok, NEW left, left = st[p].left,
         Settle(p, IF r.v.k = left /\ left \in {"number", "string"}
                   THEN Ok(Atom(left)) ELSE Err("TypeError"))
  PROVE  IInv(D, W)'
<1>1. PICK c, s : /\ c = prog[p]
                  /\ s = IF r.v.k = left /\ left \in {"number", "string"}
                         THEN Ok(Atom(left)) ELSE Err("TypeError")
  OBVIOUS
<1>2. /\ st[p].ph = "wait" /\ c.op = "binop" /\ r = D[st[p].on] /\ st[p].on \in awaited
      /\ Knows(c, D, st[p].on, "second", left)
  BY <1>1, ResumeFacts
<1>3. D[p] = Meaning(c, D)
  BY <1>1, <1>2, RunFacts
<1>4. st[p].on = c.b /\ D[c.a].ok /\ left = D[c.a].v.k
  BY <1>2 DEF Knows
<1>5. Meaning(c, D) = Plus(D[c.a], r)
  BY <1>2, <1>4, MeaningCases DEF Then
<1>6. D[p] = s
  BY <1>1, <1>3, <1>4, <1>5 DEF Plus
<1>7. s \in Result /\ HoldsInside(s)
  <2>1. left \in {"number", "string"} => Ok(Atom(left)) \in Result /\ HoldsInside(Ok(Atom(left)))
    BY OkFacts, HoldsNothing DEF Kind
  <2>2. Err("TypeError") \in Result /\ HoldsInside(Err("TypeError"))
    BY ErrFacts, HoldsNothing DEF Error
  <2> QED  BY <1>1, <2>1, <2>2
<1>8. Settle(p, s) /\ prog[p].b \in awaited
  BY <1>1, <1>2, <1>4
<1> QED  BY <1>2, <1>6, <1>7, <1>8, SettleKeeps

----------------------------------------------------------------------------
LEMMA StepKeeps ==
  ASSUME NEW D, NEW W, IInv(D, W), [Next]_vars
  PROVE  IInv(D, W)'
<1>1. CASE UNCHANGED vars
  <2>1. prog' = prog /\ st' = st /\ awaited' = awaited
    BY <1>1 DEF vars
  <2> QED
    BY <2>1 DEF IInv, Typed, Solved, Agrees, Lexical, Waits, InPhase, NeededOnly, Called,
                Done, Touched, Inside, Entered, HoldsInside, CalledBy
<1>2. CASE HostAborts
  <2>1. prog' = prog /\ st' = st /\ awaited' = awaited
    BY <1>2 DEF HostAborts
  <2> QED
    BY <2>1 DEF IInv, Typed, Solved, Agrees, Lexical, Waits, InPhase, NeededOnly, Called,
                Done, Touched, Inside, Entered, HoldsInside, CalledBy
<1>3. ASSUME NEW p \in Prom, IoDone(p)
      PROVE  IInv(D, W)'
  <2>1. st[p].ph = "io" /\ Settle(p, prog[p].r)
    BY <1>3 DEF IoDone
  <2>2. prog[p].op = "io"
    BY <2>1 DEF IInv, InPhase
  <2> QED  BY <2>1, <2>2, LeafKeeps
<1>4. ASSUME NEW p \in Prom, Reaction(p)
      PROVE  IInv(D, W)'
  <2>1. CASE Constant(p)
    BY <2>1, LeafKeeps DEF Constant, New
  <2>2. CASE _lambdaA2chk(p)
    <3>1. CASE /\ New(p, "a2chk")
               /\ LET v == st[prog[p].a].r.v
                      x == v.at[prog[p].key]
                  IN \/ v = Undefined /\ Settle(p, Err(Absent))
                     \/ v # Undefined /\ x = None /\ Fallback(p)
                     \/ x # None /\ Await(p, x, "first", {})
      <4>1. PICK v : v = st[prog[p].a].r.v
        OBVIOUS
      <4>2. PICK x : x = v.at[prog[p].key]
        OBVIOUS
      <4>3. \/ v = Undefined /\ Settle(p, Err(Absent))
            \/ v # Undefined /\ x = None /\ Fallback(p)
            \/ x # None /\ Await(p, x, "first", {})
        BY <3>1, <4>1, <4>2
      <4>4. New(p, "a2chk")
        BY <3>1
      <4> QED  BY <4>1, <4>2, <4>3, <4>4, A2chkStartKeeps
    <3>2. CASE /\ Resumed(p, "a2chk", "first") /\ Got(p).ok
               /\ IF Got(p).v = Undefined THEN Fallback(p) ELSE Settle(p, Got(p))
      <4>1. PICK r : r = Got(p)
        OBVIOUS
      <4>2. /\ Resumed(p, "a2chk", "first") /\ r.ok
            /\ IF r.v = Undefined THEN Fallback(p) ELSE Settle(p, r)
        BY <3>2, <4>1
      <4> QED  BY <4>1, <4>2, A2chkResumeKeeps
    <3> QED  BY <2>2, <3>1, <3>2 DEF _lambdaA2chk
  <2>3. CASE BinOp(p)
    <3>1. CASE /\ Resumed(p, "binop", "first") /\ Got(p).ok
               /\ st' = [Waiting(st, p, prog[p].b, "second") EXCEPT ![p].left = Got(p).v.k]
               /\ awaited' = awaited \cup {prog[p].b}
               /\ UNCHANGED <<prog, crashed>>
      BY <3>1, BinOpFirstKeeps
    <3>2. CASE /\ Resumed(p, "binop", "second") /\ Got(p).ok
               /\ Settle(p, IF Got(p).v.k = st[p].left /\ st[p].left \in {"number", "string"}
                            THEN Ok(Atom(st[p].left)) ELSE Err("TypeError"))
      <4>1. PICK r, left : r = Got(p) /\ left = st[p].left
        OBVIOUS
      <4>2. /\ Resumed(p, "binop", "second") /\ r.ok
            /\ Settle(p, IF r.v.k = left /\ left \in {"number", "string"}
                         THEN Ok(Atom(left)) ELSE Err("TypeError"))
        BY <3>2, <4>1
      <4> QED  BY <4>1, <4>2, BinOpSecondKeeps
    <3> QED  BY <2>3, <3>1, <3>2 DEF BinOp
  <2> QED
    BY <1>4, <2>1, <2>2, <2>3, DemandKeeps, BeginIoKeeps, BeginKeeps, RethrowKeeps, ReturnKeeps,
       SelectKeeps, orDefaultKeeps, tryEvalKeeps, IfSuccessKeeps, CallPatternKeeps DEF Reaction
<1> QED  BY <1>1, <1>2, <1>3, <1>4 DEF Next

----------------------------------------------------------------------------
(* The reference outcomes and needed promises of the program that runs. *)
Inv == \E D, W : D = Outcomes(prog) /\ W = Reached(prog, D)[Cardinality(Prom)] /\ IInv(D, W)

LEMMA InvInit ==
  ASSUME Init
  PROVE  Inv
<1>1. PICK D : D = Outcomes(prog)
  OBVIOUS
<1>2. PICK W : W = Reached(prog, D)[Cardinality(Prom)]
  OBVIOUS
<1>3. /\ prog \in Programs /\ awaited = {Main}
      /\ st = [p \in Prom |-> IF p = Main THEN [Idle EXCEPT !.ph = "new"] ELSE Idle]
  BY DEF Init
<1>4. EmittedProgram(prog) /\ prog[Main].within = {}
  BY <1>3, ProgramFacts
<1>5. D \in [Prom -> Outcome] /\ \A p \in Prom : D[p] = Meaning(prog[p], D)
  BY <1>1, <1>4, OutcomesSolve
<1>6. Main \in W /\ \A p \in W : p \in Prom /\ Uses(prog[p], D) \subseteq W
  BY <1>2, <1>4, <1>5, ReachedClosed
<1>7. Ok(Undefined) \in Result
  BY OkFacts DEF Undefined
<1>8. /\ Idle \in Status /\ [Idle EXCEPT !.ph = "new"] \in Status
      /\ Idle.ph = "idle" /\ [Idle EXCEPT !.ph = "new"].ph = "new"
  BY <1>7 DEF Idle, Status
<1>9. st \in [Prom -> Status] /\ \A p \in Prom : st[p].ph = IF p = Main THEN "new" ELSE "idle"
  BY <1>3, <1>8
<1>10. Typed
  BY <1>3, <1>9, LazyAssumption DEF Typed
<1>11. Solved(D, W)
  BY <1>5, <1>6 DEF Solved
<1>12. ASSUME NEW p \in Prom
       PROVE  ~Done(p) /\ st[p].ph \notin {"wait", "io"} /\ (Touched(p) => p = Main)
  <2>1. CASE p = Main
    BY <1>9, <2>1 DEF Done
  <2>2. CASE p # Main
    <3>1. st[p].ph = "idle" /\ p \notin awaited
      BY <1>3, <1>9, <2>2
    <3> QED  BY <3>1 DEF Done, Touched
  <2> QED  BY <2>1, <2>2
<1>13. Agrees(D) /\ Waits(D) /\ InPhase
  BY <1>12 DEF Agrees, Waits, InPhase
<1>14. Lexical
  <2>1. Inside(Main)
    BY <1>4 DEF Inside
  <2> QED  BY <1>12, <2>1 DEF Lexical
<1>15. NeededOnly(W)
  BY <1>6, <1>12 DEF NeededOnly
<1>16. Called(D)
  BY <1>3, <1>9 DEF Called
<1>17. IInv(D, W)
  BY <1>10, <1>11, <1>13, <1>14, <1>15, <1>16 DEF IInv
<1> QED  BY <1>1, <1>2, <1>17 DEF Inv

LEMMA InvStep ==
  ASSUME Inv, [Next]_vars
  PROVE  Inv'
<1>1. PICK D, W : D = Outcomes(prog) /\ W = Reached(prog, D)[Cardinality(Prom)] /\ IInv(D, W)
  BY DEF Inv
<1>2. IInv(D, W)'
  BY <1>1, StepKeeps
<1>3. prog' = prog
  BY DEF Next, vars, Reaction, IoDone, HostAborts, Demand, Constant, BeginIo, Begin, Rethrow, Return,
         Select, orDefault, _lambdaA2chk, Fallback, tryEval, IfSuccess, BinOp, CallPattern,
         Settle, Await
<1>4. D = Outcomes(prog') /\ W = Reached(prog', D)[Cardinality(Prom)]
  BY <1>1, <1>3
<1> QED  BY <1>2, <1>4 DEF Inv

(***************************************************************************)
(* InvHolds: types, agreement with evaluation by need, what promises that  *)
(* wait know, lexical scope, and where unawaited promises come from, along *)
(* every interleaving of reactions, input/output and the host.             *)
(***************************************************************************)
THEOREM InvHolds == Spec => []Inv
<1>1. Init => Inv
  BY InvInit
<1>2. Inv /\ [Next]_vars => Inv'
  BY InvStep
<1> QED  BY <1>1, <1>2, PTL DEF Spec

(***************************************************************************)
(* EvaluatesByNeed: for every program that is lexically scoped, a promise  *)
(* settles with the value or error of evaluation by need, whatever the     *)
(* order of awaits, starts and completions; orDefault and tryEval hide no  *)
(* error but their own (index.ts 180, 809).                                *)
(***************************************************************************)
THEOREM EvaluatesByNeed == Spec => []ByNeed
<1>1. Inv => ByNeed
  BY DEF Inv, IInv, Agrees, ByNeed, Den
<1> QED  BY <1>1, InvHolds, PTL

(***************************************************************************)
(* StartsOnlyNeeded: no promise runs that evaluation by need, with the     *)
(* calls emitted as operands and formals, does not use (PLazy).            *)
(***************************************************************************)
THEOREM StartsOnlyNeeded == Spec => []OnlyNeededStarted
<1>1. Inv => OnlyNeededStarted
  BY DEF Inv, IInv, NeededOnly, Touched, OnlyNeededStarted, Needed, Den
<1> QED  BY <1>1, InvHolds, PTL

(***************************************************************************)
(* CrashesExplained: the host ends the process only for an operand called  *)
(* while the one before it is awaited or has failed, or for a formal of a  *)
(* pattern (lib.rs 761, index.ts 205).                                     *)
(***************************************************************************)
THEOREM CrashesExplained == Spec => []CrashExplained
<1>1. ASSUME Inv
      PROVE  CrashExplained
  <2>1. PICK D, W : D = Outcomes(prog) /\ IInv(D, W)
    BY <1>1 DEF Inv
  <2>2. Called(D) /\ D = Den
    BY <2>1 DEF IInv, Den
  <2> SUFFICES ASSUME NEW q \in Unhandled
               PROVE  \E p \in Prom :
                        /\ q \in prog[p].spawn
                        /\ \/ prog[p].op = "call"
                           \/ prog[p].op = "binop" /\ q = prog[p].b
                              /\ (st[p].ph = "wait" \/ Den[prog[p].a].ok = FALSE)
    BY Zenon DEF CrashExplained
  <2>3. q \in Prom /\ st[q].ph # "idle" /\ q \notin awaited
    BY DEF Unhandled, Done
  <2>4. PICK p \in Prom : CalledBy(p, q, D)
    BY <2>2, <2>3 DEF Called
  <2> QED  BY <2>2, <2>4 DEF CalledBy
<1> QED  BY <1>1, InvHolds, PTL
=============================================================================
