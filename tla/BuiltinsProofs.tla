--------------------------- MODULE BuiltinsProofs ---------------------------
(***************************************************************************)
(* Proofs about the builtins with an algorithm of their own: first the     *)
(* operations on asynchronous lists, then compareVersions.                 *)
(***************************************************************************)
EXTENDS AsyncListProps, CompareVersions, SequenceTheorems, FiniteSetTheorems, TLAPS

(***************************************************************************)
(* The list operations return what they should for lists of any length, in *)
(* whatever order elements and callbacks settle.  The inductive invariant  *)
(* says of each task what its phase and its entry of the matrix tell about *)
(* the callback; the result follows when all tasks are done.  For sort     *)
(* that includes the existence of the sorted arrangement, since the order  *)
(* of the elements is undetermined when there is none.                     *)
(***************************************************************************)
----------------------------------------------------------------------------
(* A total order on 1..n arranges 1..n: element i goes behind the elements *)
(* that precede it.                                                        *)
TotalOrder(R, n) ==
  /\ R \subseteq (1 .. n) \X (1 .. n)
  /\ \A i \in 1 .. n : <<i, i>> \notin R
  /\ \A i, j \in 1 .. n : i # j => <<i, j>> \in R \/ <<j, i>> \in R
  /\ \A i, j, k \in 1 .. n : <<i, j>> \in R /\ <<j, k>> \in R => <<i, k>> \in R

Below(R, n, i) == {j \in 1 .. n : <<j, i>> \in R}

LEMMA BelowFinite ==
  ASSUME NEW n \in Nat, NEW R, TotalOrder(R, n), NEW i \in 1 .. n
  PROVE  /\ IsFiniteSet(Below(R, n, i)) /\ Cardinality(Below(R, n, i)) \in Nat
         /\ Cardinality(Below(R, n, i)) + 1 \in 1 .. n
<1>1. /\ IsFiniteSet(1 .. n) /\ Cardinality(1 .. n) = n
  <2>1. IsFiniteSet(1 .. n) /\ Cardinality(1 .. n) = IF 1 > n THEN 0 ELSE n - 1 + 1
    BY FS_Interval
  <2> QED  BY <2>1
<1> DEFINE B == Below(R, n, i)
           C == (1 .. n) \ {i}
<1>2. IsFiniteSet(C) /\ Cardinality(C) = n - 1
  BY <1>1, FS_RemoveElement
<1>3. B \in SUBSET C
  BY DEF Below, TotalOrder
<1>4. IsFiniteSet(B) /\ Cardinality(B) <= Cardinality(C)
  BY <1>2, <1>3, FS_Subset
<1>5. Cardinality(B) \in Nat
  BY <1>4, FS_CardinalityType
<1> HIDE DEF B, C
<1>6. Cardinality(B) + 1 \in 1 .. n
  BY <1>2, <1>4, <1>5
<1> QED  BY <1>4, <1>5, <1>6 DEF B

LEMMA BelowGrows ==
  ASSUME NEW n \in Nat, NEW R, TotalOrder(R, n), NEW i \in 1 .. n, NEW k \in 1 .. n,
         <<i, k>> \in R
  PROVE  Cardinality(Below(R, n, i)) < Cardinality(Below(R, n, k))
<1> DEFINE B == Below(R, n, i)
           C == Below(R, n, k)
<1>1. /\ IsFiniteSet(B) /\ Cardinality(B) \in Nat
      /\ IsFiniteSet(C) /\ Cardinality(C) \in Nat
  BY BelowFinite
<1>2. B \in SUBSET C
  BY DEF Below, TotalOrder
<1>3. i \in C /\ i \notin B
  BY DEF Below, TotalOrder
<1> HIDE DEF B, C
<1>4. Cardinality(B) <= Cardinality(C) /\ Cardinality(B) # Cardinality(C)
  <2>1. /\ Cardinality(B) <= Cardinality(C)
        /\ Cardinality(C) = Cardinality(B) => C = B
    BY <1>1, <1>2, FS_Subset
  <2> QED  BY <1>3, <2>1
<1>5. Cardinality(B) < Cardinality(C)
  BY <1>1, <1>4
<1> QED  BY <1>5 DEF B, C

LEMMA Arrangement ==
  ASSUME NEW n \in Nat, NEW R, TotalOrder(R, n)
  PROVE  \E p \in [1 .. n -> 1 .. n] :
           /\ IsInjective(p)
           /\ \A a, b \in 1 .. n : a < b => <<p[a], p[b]>> \in R
<1> DEFINE D == 1 .. n
           r == [i \in D |-> Cardinality(Below(R, n, i)) + 1]
<1>1. r \in [D -> D]
  BY BelowFinite
<1>2. \A i, k \in D : <<i, k>> \in R => r[i] < r[k]
  <2> SUFFICES ASSUME NEW i \in D, NEW k \in D, <<i, k>> \in R
               PROVE  r[i] < r[k]
    OBVIOUS
  <2>1. Cardinality(Below(R, n, i)) \in Nat /\ Cardinality(Below(R, n, k)) \in Nat
    BY BelowFinite
  <2>2. Cardinality(Below(R, n, i)) < Cardinality(Below(R, n, k))
    BY BelowGrows
  <2> QED  BY <2>1, <2>2
<1> HIDE DEF r
<1>3. \A i, k \in D : r[i] = r[k] => i = k
  <2> SUFFICES ASSUME NEW i \in D, NEW k \in D, r[i] = r[k], i # k
               PROVE  FALSE
    OBVIOUS
  <2>1. r[i] \in Nat /\ r[k] \in Nat
    BY <1>1
  <2>2. <<i, k>> \in R \/ <<k, i>> \in R
    BY DEF TotalOrder
  <2> QED  BY <1>2, <2>1, <2>2
<1>4. r \in Injection(D, D)
  BY <1>1, <1>3 DEF Injection, IsInjective
<1>5. r \in Surjection(D, D)
  <2>1. IsFiniteSet(D)
    BY FS_Interval
  <2> HIDE DEF D
  <2> QED  BY <1>4, <2>1, FS_Injection
<1>6. \A m \in D : \E i \in D : r[i] = m
  BY <1>5 DEF Surjection
<1> DEFINE p == [m \in D |-> CHOOSE i \in D : r[i] = m]
<1>7. p \in [D -> D] /\ \A m \in D : p[m] \in D /\ r[p[m]] = m
  BY <1>6
<1> HIDE DEF p
<1>8. IsInjective(p)
  BY <1>7 DEF IsInjective
<1>9. ASSUME NEW a \in D, NEW b \in D, a < b
      PROVE  <<p[a], p[b]>> \in R
  <2>1. p[a] # p[b]
    BY <1>7, <1>9
  <2>2. ASSUME <<p[b], p[a]>> \in R
        PROVE  FALSE
    <3>1. r[p[b]] < r[p[a]]
      BY <1>2, <1>7, <2>2
    <3> QED  BY <1>7, <1>9, <3>1
  <2> QED  BY <1>7, <2>1, <2>2 DEF TotalOrder
<1> QED  BY <1>7, <1>8, <1>9

(* Three different elements. *)
LEMMA ThreeElements ==
  ASSUME NEW i, NEW j, NEW k, i # j, j # k, i # k
  PROVE  Cardinality({i, j, k}) = 3
<1>1. IsFiniteSet({i}) /\ Cardinality({i}) = 1
  BY FS_Singleton
<1>2. IsFiniteSet({i} \cup {j}) /\ Cardinality({i} \cup {j}) = 2
  BY <1>1, FS_AddElement
<1>3. Cardinality(({i} \cup {j}) \cup {k}) = 3
  BY <1>2, FS_AddElement
<1>4. ({i} \cup {j}) \cup {k} = {i, j, k}
  OBVIOUS
<1> QED  BY <1>3, <1>4

----------------------------------------------------------------------------
(* What a job is. *)
LEMMA JobFacts ==
  ASSUME job \in Jobs
  PROVE  /\ N \in Nat /\ Index = 1 .. N
         /\ job.op \in Operations /\ job.elem \in [Index -> BOOLEAN]
         /\ job.call \in [Index -> [Index -> Answer]] /\ job.curried \in BOOLEAN
<1>1. PICK n \in 0 .. MaxLen : job \in JobsOfLength(n)
  BY ListAssumption
<1>2. n \in Nat
  BY ListAssumption
<1>3. /\ job.op \in Operations /\ job.elem \in [1 .. n -> BOOLEAN]
      /\ job.call \in [1 .. n -> [1 .. n -> Answer]] /\ job.curried \in BOOLEAN
  BY <1>1 DEF JobsOfLength
<1>4. job.elem \in Seq(BOOLEAN)
  BY <1>2, <1>3, SeqDef
<1>5. Len(job.elem) = n
  BY <1>2, <1>3, <1>4, LenProperties
<1> QED  BY <1>2, <1>3, <1>5 DEF N, Index

----------------------------------------------------------------------------
(* What the phase of a task and its entry of the matrix tell. *)
Awaits    == {"resolve", "filter", "sort"}
Predicate == {"filter", "all", "any"}

DiagonalOK(i, ph, m) ==
  /\ ph \in {"off", "elem", "call", "done", "failed"}
  /\ ph = "elem" => job.op \in Awaits
  /\ ph = "call" => /\ job.op \in Predicate \cup {"partition"}
                    /\ job.op = "filter" => job.elem[i]
  /\ ph = "done" => /\ job.op \in Awaits => job.elem[i]
                    /\ job.op \in Predicate => /\ job.call[i][i] # "error"
                                               /\ m = 1 <=> Holds(i)

PairOK(i, j, ph, m) ==
  /\ ph \in {"off", "call", "swapped", "done", "failed"}
  /\ ph # "off" => job.op = "sort" /\ j < i
  /\ ph = "swapped" => Called(i, j) = "false"
  /\ ph = "done" =>
       \/ Called(i, j) = "true" /\ m = -1
       \/ /\ Called(i, j) = "false" /\ Called(j, i) # "error"
          /\ m = IF Called(j, i) = "true" THEN 1 ELSE 0

TaskOK(t, ph, m) ==
  IF t[1] = t[2] THEN DiagonalOK(t[1], ph, m) ELSE PairOK(t[1], t[2], ph, m)

Phase == {"off", "elem", "call", "swapped", "done", "failed"}

TypeInv ==
  /\ job \in Jobs
  /\ task \in [Index \X Index -> Phase]
  /\ mtx \in [Index \X Index -> {-1, 0, 1}]

TasksInv == \A t \in Index \X Index : TaskOK(t, task[t], mtx[t])

ResultInv ==
  /\ res.st \in {"pending", "rejected", "fulfilled"}
  /\ res.st = "pending" => res = Pending
  /\ job.op = "partition" => res.st # "rejected"
  /\ PredicatesDecide /\ SortsStably /\ FailsWithItsParts

Inv == TypeInv /\ TasksInv /\ ResultInv

LEMMA SameResultInv ==
  ASSUME ResultInv, job' = job, res' = res
  PROVE  ResultInv'
<1>1. PredicatesDecide'
  BY DEF ResultInv, PredicatesDecide, Done, Chosen, Holds, Index, N
<1>2. SortsStably'
  BY DEF ResultInv, SortsStably, Done, StrictOrder, StableSort, Before, Index, N
<1>3. FailsWithItsParts'
  BY DEF ResultInv, FailsWithItsParts, Uncallable, Faulty, Done, Called, Pairs, Index, N
<1> QED  BY <1>1, <1>2, <1>3 DEF ResultInv, Pending

(* A task moves on. *)
LEMMA TaskMoves ==
  ASSUME Inv, NEW t \in Index \X Index, NEW ph \in Phase, NEW v \in {-1, 0, 1},
         job' = job, task' = [task EXCEPT ![t] = ph],
         \/ mtx' = [mtx EXCEPT ![t] = v]
         \/ mtx' = mtx /\ v = mtx[t],
         TaskOK(t, ph, v)
  PROVE  TypeInv' /\ TasksInv'
<1>1. Index' = Index
  BY DEF Index, N
<1>2. /\ task' \in [Index \X Index -> Phase]
      /\ mtx' \in [Index \X Index -> {-1, 0, 1}]
  BY DEF Inv, TypeInv
<1>3. TypeInv'
  BY <1>1, <1>2 DEF Inv, TypeInv
<1>4. ASSUME NEW u \in Index \X Index
      PROVE  TaskOK(u, task'[u], mtx'[u])
  <2>1. CASE u = t
    BY <2>1 DEF Inv, TypeInv
  <2>2. CASE u # t
    BY <2>2 DEF Inv, TypeInv, TasksInv
  <2> QED  BY <2>1, <2>2
<1>5. TasksInv'
  BY <1>1, <1>4 DEF TasksInv, TaskOK, DiagonalOK, PairOK, Called, Holds
<1> QED  BY <1>3, <1>5

LEMMA GoesOnInv ==
  ASSUME Inv, NEW t \in Index \X Index, NEW ph \in Phase, TaskGoesOn(t, ph),
         TaskOK(t, ph, mtx[t])
  PROVE  Inv'
<1>1. mtx[t] \in {-1, 0, 1}
  BY DEF Inv, TypeInv
<1>2. TypeInv' /\ TasksInv'
  BY <1>1, TaskMoves DEF TaskGoesOn
<1>3. ResultInv'
  BY SameResultInv DEF TaskGoesOn, Inv
<1> QED  BY <1>2, <1>3 DEF Inv

LEMMA DoneInv ==
  ASSUME Inv, NEW t \in Index \X Index, NEW v \in {-1, 0, 1}, TaskDone(t, v),
         TaskOK(t, "done", v)
  PROVE  Inv'
<1>1. TypeInv' /\ TasksInv'
  BY TaskMoves DEF TaskDone, Phase
<1>2. ResultInv'
  BY SameResultInv DEF TaskDone, Inv
<1> QED  BY <1>1, <1>2 DEF Inv

LEMMA FailsInv ==
  ASSUME Inv, NEW t \in Index \X Index, TaskFails(t), TaskOK(t, "failed", mtx[t]),
         res.st = "pending" => Faulty /\ job.op # "partition"
  PROVE  Inv'
<1>1. mtx[t] \in {-1, 0, 1}
  BY DEF Inv, TypeInv
<1>2. TypeInv' /\ TasksInv'
  BY <1>1, TaskMoves DEF TaskFails, Phase
<1>3. ResultInv'
  <2>1. CASE res.st # "pending"
    BY <2>1, SameResultInv DEF TaskFails, Settle, Inv
  <2>2. CASE res.st = "pending"
    <3>1. job' = job /\ res' = Rejected
      BY <2>2 DEF TaskFails, Settle
    <3>2. res'.st = "rejected"
      BY <3>1 DEF Rejected, Pending
    <3>3. Faulty'
      BY <2>2, <3>1 DEF Faulty, Called, Pairs, Index, N
    <3> QED  BY <2>2, <3>1, <3>2, <3>3 DEF ResultInv, PredicatesDecide, SortsStably, FailsWithItsParts, Done
  <2> QED  BY <2>1, <2>2
<1> QED  BY <1>2, <1>3 DEF Inv

LEMMA ElementInv ==
  ASSUME Inv, NEW t \in Index \X Index, Element(t)
  PROVE  Inv'
<1>1. t[1] \in Index /\ t[2] \in Index /\ task[t] = "elem" /\ TaskOK(t, task[t], mtx[t])
  BY DEF Inv, TasksInv, Element
<1>2. t[1] = t[2] /\ job.op \in Awaits
  BY <1>1 DEF TaskOK, PairOK, DiagonalOK
<1>3. CASE ~job.elem[t[1]] /\ TaskFails(t)
  <2>1. Faulty
    BY <1>1, <1>2, <1>3 DEF Faulty, Awaits
  <2>2. TaskOK(t, "failed", mtx[t])
    BY <1>2 DEF TaskOK, DiagonalOK
  <2> QED  BY <1>2, <1>3, <2>1, <2>2, FailsInv DEF Awaits
<1>4. CASE job.elem[t[1]] /\ job.op = "filter" /\ TaskGoesOn(t, "call")
  <2>1. TaskOK(t, "call", mtx[t])
    BY <1>2, <1>4 DEF TaskOK, DiagonalOK, Predicate
  <2> QED  BY <1>4, <2>1, GoesOnInv DEF Phase
<1>5. CASE job.elem[t[1]] /\ job.op \in {"resolve", "sort"} /\ TaskDone(t, 1)
  <2>1. TaskOK(t, "done", 1)
    BY <1>2, <1>5 DEF TaskOK, DiagonalOK, Predicate
  <2> QED  BY <1>5, <2>1, DoneInv
<1> QED  BY <1>3, <1>4, <1>5 DEF Element

LEMMA CallInv ==
  ASSUME Inv, NEW t \in Index \X Index, Call(t)
  PROVE  Inv'
<1> DEFINE ans == Called(t[1], t[2])
<1>1. t[1] \in Index /\ t[2] \in Index /\ task[t] = "call" /\ TaskOK(t, task[t], mtx[t])
  BY DEF Inv, TasksInv, Call
<1>2. job.op = "partition" => res.st # "pending"
  BY DEF Call, Inv, ResultInv
<1>3. t \in Pairs => job.op = "sort" /\ PairOK(t[1], t[2], "call", mtx[t])
  BY <1>1, JobFacts DEF Pairs, TaskOK, PairOK, Inv, TypeInv
<1>4. t \notin Pairs => /\ t[1] = t[2] /\ DiagonalOK(t[1], "call", mtx[t])
                       /\ Called(t[1], t[2]) = job.call[t[1]][t[1]]
  BY <1>1 DEF Pairs, TaskOK, PairOK, Called
<1>5. CASE ans = "error" /\ TaskFails(t)
  <2>1. TaskOK(t, "failed", mtx[t])
    BY <1>1 DEF TaskOK, PairOK, DiagonalOK
  <2>2. ASSUME job.op # "partition"
        PROVE  Faulty
    <3>1. CASE t \in Pairs
      <4>1. t[1] # t[2]
        BY <3>1, JobFacts DEF Pairs, Inv, TypeInv
      <4>2. ~job.curried
        BY <1>5, <4>1 DEF Called
      <4> QED  BY <1>3, <1>5, <3>1, <4>2 DEF Faulty
    <3>2. CASE t \notin Pairs
      <4>1. job.op \in {"filter", "all", "any"}
        BY <1>4, <2>2, <3>2 DEF DiagonalOK, Predicate
      <4>2. job.call[t[1]][t[1]] = "error"
        BY <1>4, <1>5, <3>2
      <4> QED  BY <1>1, <4>1, <4>2 DEF Faulty
    <3> QED  BY <3>1, <3>2
  <2> QED  BY <1>2, <1>5, <2>1, <2>2, FailsInv
<1>6. CASE ans = "true" /\ TaskDone(t, IF t \in Pairs THEN -1 ELSE 1)
  <2>1. CASE t \in Pairs
    <3>1. TaskOK(t, "done", -1)
      BY <1>3, <1>6, <2>1, <1>1, JobFacts DEF TaskOK, PairOK, Pairs, Inv, TypeInv
    <3>2. TaskDone(t, -1)
      BY <1>6, <2>1
    <3> QED  BY <3>1, <3>2, DoneInv
  <2>2. CASE t \notin Pairs
    <3>1. TaskOK(t, "done", 1)
      BY <1>4, <1>6, <2>2 DEF TaskOK, DiagonalOK, Holds, Awaits, Predicate
    <3>2. TaskDone(t, 1)
      BY <1>6, <2>2
    <3> QED  BY <3>1, <3>2, DoneInv
  <2> QED  BY <2>1, <2>2
<1>7. CASE ans = "false" /\ t \notin Pairs /\ TaskDone(t, 0)
  <2>1. TaskOK(t, "done", 0)
    BY <1>4, <1>7 DEF TaskOK, DiagonalOK, Holds, Awaits, Predicate
  <2> QED  BY <1>7, <2>1, DoneInv
<1>8. CASE ans = "false" /\ t \in Pairs /\ TaskGoesOn(t, "swapped")
  <2>1. TaskOK(t, "swapped", mtx[t])
    BY <1>3, <1>8, <1>1, JobFacts DEF TaskOK, PairOK, Pairs, Inv, TypeInv
  <2> QED  BY <1>8, <2>1, GoesOnInv DEF Phase
<1> QED  BY <1>5, <1>6, <1>7, <1>8 DEF Call

LEMMA CallSwappedInv ==
  ASSUME Inv, NEW t \in Index \X Index, CallSwapped(t)
  PROVE  Inv'
<1> DEFINE ans == Called(t[2], t[1])
<1>1. t[1] \in Index /\ t[2] \in Index /\ task[t] = "swapped" /\ TaskOK(t, task[t], mtx[t])
  BY DEF Inv, TasksInv, CallSwapped
<1>2. /\ t[1] # t[2] /\ job.op = "sort" /\ t[2] < t[1]
      /\ Called(t[1], t[2]) = "false"
  BY <1>1 DEF TaskOK, PairOK, DiagonalOK
<1>3. CASE ans = "error" /\ TaskFails(t)
  <2>1. TaskOK(t, "failed", mtx[t])
    BY <1>2 DEF TaskOK, PairOK
  <2>2. Faulty
    BY <1>1, <1>2, <1>3 DEF Faulty, Called, Pairs
  <2> QED  BY <1>2, <1>3, <2>1, <2>2, FailsInv
<1>4. CASE ans # "error" /\ TaskDone(t, IF ans = "true" THEN 1 ELSE 0)
  <2> DEFINE v == IF ans = "true" THEN 1 ELSE 0
  <2>1. TaskOK(t, "done", v)
    BY <1>2, <1>4 DEF TaskOK, PairOK
  <2>2. v \in {-1, 0, 1} /\ TaskDone(t, v)
    BY <1>4
  <2> HIDE DEF v
  <2> QED  BY <2>1, <2>2, DoneInv
<1> QED  BY <1>3, <1>4 DEF CallSwapped

LEMMA BeginCompareInv ==
  ASSUME Inv, BeginCompare
  PROVE  Inv'
<1>1. Index' = Index /\ DOMAIN task = Index \X Index
  BY DEF BeginCompare, Index, N, Inv, TypeInv
<1>2. /\ task' \in [Index \X Index -> Phase]
      /\ \A u \in Index \X Index : task'[u] = IF u \in Pairs THEN "call" ELSE task[u]
  BY <1>1 DEF BeginCompare, Inv, TypeInv, Phase
<1>3. TypeInv'
  BY <1>1, <1>2 DEF Inv, TypeInv, BeginCompare
<1>4. ASSUME NEW u \in Index \X Index
      PROVE  TaskOK(u, task'[u], mtx[u])
  <2>1. CASE u \in Pairs
    <3>1. u[1] \in Nat /\ u[2] \in Nat
      BY JobFacts DEF Inv, TypeInv
    <3> QED  BY <1>2, <2>1, <3>1 DEF Pairs, TaskOK, PairOK, BeginCompare
  <2>2. CASE u \notin Pairs
    BY <1>2, <2>2 DEF Inv, TasksInv
  <2> QED  BY <2>1, <2>2
<1>5. TasksInv'
  BY <1>1, <1>4 DEF TasksInv, TaskOK, DiagonalOK, PairOK, Called, Holds, BeginCompare
<1>6. ResultInv'
  BY SameResultInv DEF BeginCompare, Inv
<1> QED  BY <1>3, <1>5, <1>6 DEF Inv

----------------------------------------------------------------------------
(* What the matrix tells once the tasks are done. *)
LEMMA CollectedDiagonal ==
  ASSUME Inv, Collected, NEW i \in Index
  PROVE  DiagonalOK(i, "done", mtx[<<i, i>>])
<1> DEFINE t == <<i, i>>
<1>1. t \in Index \X Index /\ t[1] = i /\ t[2] = i
  OBVIOUS
<1>2. TaskOK(t, task[t], mtx[t]) /\ task[t] = "done"
  BY <1>1 DEF Inv, TypeInv, TasksInv, Collected
<1> QED  BY <1>1, <1>2 DEF TaskOK

LEMMA CollectedPair ==
  ASSUME Inv, Collected, job.op = "sort", NEW i \in Index, NEW j \in Index, j < i
  PROVE  PairOK(i, j, "done", mtx[<<i, j>>])
<1> DEFINE t == <<i, j>>
<1>1. t \in Index \X Index /\ t[1] = i /\ t[2] = j /\ t \in Pairs
  BY DEF Pairs
<1>2. TaskOK(t, task[t], mtx[t]) /\ task[t] = "done"
  BY <1>1 DEF Inv, TypeInv, TasksInv, Collected
<1>3. i # j
  BY JobFacts DEF Inv, TypeInv
<1> QED  BY <1>1, <1>2, <1>3 DEF TaskOK

LEMMA CollectedSound ==
  ASSUME Inv, Collected, job.op # "partition"
  PROVE  ~Faulty
<1>1. ASSUME NEW i \in Index
      PROVE  /\ job.op \in Awaits => job.elem[i]
             /\ job.op \in Predicate => job.call[i][i] # "error"
  BY CollectedDiagonal DEF DiagonalOK
<1>2. ASSUME job.op = "sort", NEW t \in Pairs
      PROVE  ~ \/ Called(t[1], t[2]) = "error"
               \/ Called(t[1], t[2]) = "false" /\ Called(t[2], t[1]) = "error"
  <2>1. t[1] \in Index /\ t[2] \in Index /\ t[2] < t[1]
    BY DEF Pairs
  <2>2. PairOK(t[1], t[2], "done", mtx[<<t[1], t[2]>>])
    BY <1>2, <2>1, CollectedPair
  <2> QED  BY <2>2 DEF PairOK
<1> QED  BY <1>1, <1>2 DEF Faulty, Awaits, Predicate

(* The comparator, when the callback is a strict weak order. *)
LEMMA ComparatorDecides ==
  ASSUME Inv, Collected, job.op = "sort", ~job.curried, StrictOrder,
         NEW a \in Index, NEW b \in Index, a # b
  PROVE  /\ Comparator(a, b) < 0 <=> Before(a, b)
         /\ Comparator(a, b) = 0 <=> ~Before(a, b) /\ ~Before(b, a)
<1>1. a \in Nat /\ b \in Nat
  BY JobFacts DEF Inv, TypeInv
<1>2. /\ job.call[a][b] \in {"true", "false"} /\ job.call[b][a] \in {"true", "false"}
      /\ ~(Before(a, b) /\ Before(b, a))
  <2>1. job.call[a][b] \in Answer /\ job.call[b][a] \in Answer
    BY JobFacts DEF Inv, TypeInv
  <2>2. job.call[a][b] # "error" /\ job.call[b][a] # "error"
    BY DEF StrictOrder
  <2> QED  BY <2>1, <2>2 DEF Answer, StrictOrder
<1>3. /\ Called(a, b) = job.call[a][b] /\ Called(b, a) = job.call[b][a]
  BY DEF Called
<1>4. CASE b < a
  <2>1. PairOK(a, b, "done", mtx[<<a, b>>])
    BY <1>4, CollectedPair
  <2> QED  BY <1>2, <1>3, <1>4, <2>1 DEF PairOK, Comparator, Before
<1>5. CASE a < b
  <2>1. PairOK(b, a, "done", mtx[<<b, a>>])
    BY <1>5, CollectedPair
  <2> QED  BY <1>1, <1>2, <1>3, <1>5, <2>1 DEF PairOK, Comparator, Before
<1> QED  BY <1>1, <1>4, <1>5

(* Element i comes before element j in the stable arrangement. *)
Precedes(i, j) == i # j /\ (Before(i, j) \/ (~Before(j, i) /\ i < j))

Precedence == {t \in Index \X Index : Precedes(t[1], t[2])}

LEMMA PrecedesTransitive ==
  ASSUME job \in Jobs, StrictOrder, NEW i \in Index, NEW j \in Index, NEW k \in Index,
         Precedes(i, j), Precedes(j, k)
  PROVE  Precedes(i, k)
<1>1. i \in Nat /\ j \in Nat /\ k \in Nat
  BY JobFacts
<1>2. i # j /\ j # k
  BY DEF Precedes
<1>3. \A x, y \in Index : x # y => ~(Before(x, y) /\ Before(y, x))
  BY DEF StrictOrder
<1>4. i # k
  BY <1>1, <1>2, <1>3 DEF Precedes
<1>5. \A x, y, z \in Index : x # y /\ y # z /\ x # z /\ Before(x, z) => Before(x, y) \/ Before(y, z)
  <2> SUFFICES ASSUME NEW x \in Index, NEW y \in Index, NEW z \in Index,
                      x # y, y # z, x # z, Before(x, z)
               PROVE  Before(x, y) \/ Before(y, z)
    OBVIOUS
  <2>1. Cardinality({x, y, z}) = 3
    BY ThreeElements
  <2> QED  BY <2>1 DEF StrictOrder
<1>6. ~Before(k, i)
  BY <1>2, <1>3, <1>4, <1>5 DEF Precedes
<1>7. Before(i, j) => Before(i, k)
  <2>1. ~Before(k, j)
    BY <1>2, <1>3 DEF Precedes
  <2> QED  BY <1>2, <1>4, <1>5, <2>1
<1>8. Before(j, k) => Before(i, k)
  <2>1. ~Before(j, i)
    BY <1>2, <1>3 DEF Precedes
  <2> QED  BY <1>2, <1>4, <1>5, <2>1
<1> QED  BY <1>1, <1>4, <1>6, <1>7, <1>8 DEF Precedes

LEMMA PrecedenceTotal ==
  ASSUME job \in Jobs, StrictOrder
  PROVE  TotalOrder(Precedence, N)
<1>1. N \in Nat /\ Index = 1 .. N
  BY JobFacts
<1>2. Precedence \subseteq Index \X Index /\ \A i \in Index : <<i, i>> \notin Precedence
  BY DEF Precedence, Precedes
<1>3. ASSUME NEW i \in Index, NEW j \in Index, i # j
      PROVE  <<i, j>> \in Precedence \/ <<j, i>> \in Precedence
  BY <1>1, <1>3 DEF Precedence, Precedes
<1>4. ASSUME NEW i \in Index, NEW j \in Index, NEW k \in Index,
             <<i, j>> \in Precedence, <<j, k>> \in Precedence
      PROVE  <<i, k>> \in Precedence
  <2>1. Precedes(i, j) /\ Precedes(j, k)
    BY <1>4 DEF Precedence
  <2>2. Precedes(i, k)
    BY <2>1, PrecedesTransitive
  <2> QED  BY <2>2 DEF Precedence
<1> QED  BY <1>1, <1>2, <1>3, <1>4 DEF TotalOrder

LEMMA ArraySortStable ==
  ASSUME Inv, Collected, job.op = "sort", ~job.curried, StrictOrder, NEW p \in ArraySort
  PROVE  StableSort(p)
<1>1. N \in Nat /\ Index = 1 .. N /\ job \in Jobs
  BY JobFacts DEF Inv, TypeInv
<1> DEFINE perms == {q \in [Index -> Index] : IsInjective(q)}
<1>2. \E q \in perms : SortedBy(q)
  <2>1. TotalOrder(Precedence, N)
    BY <1>1, PrecedenceTotal
  <2>2. PICK q \in [1 .. N -> 1 .. N] :
               /\ IsInjective(q)
               /\ \A a, b \in 1 .. N : a < b => <<q[a], q[b]>> \in Precedence
    BY <1>1, <2>1, Arrangement
  <2>3. ASSUME NEW i \in Index, NEW j \in Index, i < j
        PROVE  LET c == Comparator(q[i], q[j]) IN c < 0 \/ (c = 0 /\ q[i] < q[j])
    <3>1. q[i] \in Index /\ q[j] \in Index /\ Precedes(q[i], q[j])
      BY <1>1, <2>2, <2>3 DEF Precedence
    <3> DEFINE a == q[i]
               b == q[j]
    <3>2. a \in Index /\ b \in Index /\ Precedes(a, b)
      BY <3>1
    <3> HIDE DEF a, b
    <3>3. /\ Comparator(a, b) < 0 <=> Before(a, b)
          /\ Comparator(a, b) = 0 <=> ~Before(a, b) /\ ~Before(b, a)
      BY <3>2, ComparatorDecides DEF Precedes
    <3>4. Comparator(a, b) < 0 \/ (Comparator(a, b) = 0 /\ a < b)
      BY <3>2, <3>3 DEF Precedes
    <3> QED  BY <3>4 DEF a, b
  <2>4. SortedBy(q)
    BY <2>3 DEF SortedBy
  <2> QED  BY <1>1, <2>2, <2>4
<1>3. p \in [Index -> Index] /\ IsInjective(p) /\ SortedBy(p)
  BY <1>2 DEF ArraySort
<1>4. Len(p) = N
  <2>1. p \in Seq(Index)
    BY <1>1, <1>3, SeqDef
  <2> QED  BY <1>1, <1>3, <2>1, LenProperties
<1>5. ASSUME NEW i \in Index, NEW j \in Index, i < j
      PROVE  Before(p[i], p[j]) \/ (~Before(p[j], p[i]) /\ p[i] < p[j])
  <2> DEFINE a == p[i]
             b == p[j]
  <2>1. a \in Index /\ b \in Index /\ a # b
    BY <1>1, <1>3, <1>5 DEF IsInjective
  <2>2. Comparator(a, b) < 0 \/ (Comparator(a, b) = 0 /\ a < b)
    BY <1>3, <1>5 DEF SortedBy
  <2> HIDE DEF a, b
  <2>3. /\ Comparator(a, b) < 0 <=> Before(a, b)
        /\ Comparator(a, b) = 0 <=> ~Before(a, b) /\ ~Before(b, a)
    BY <2>1, ComparatorDecides
  <2>4. Before(a, b) \/ (~Before(b, a) /\ a < b)
    BY <2>2, <2>3
  <2> QED  BY <2>4 DEF a, b
<1> QED  BY <1>3, <1>4, <1>5 DEF StableSort

LEMMA CollectInv ==
  ASSUME Inv, Collect
  PROVE  Inv'
<1>1. /\ res = Pending /\ job.op # "partition" /\ ~Uncallable(job) /\ Collected
      /\ res' \in Returns /\ job' = job /\ task' = task /\ mtx' = mtx
  BY DEF Collect
<1>2. TypeInv' /\ TasksInv'
  BY <1>1 DEF Inv, TypeInv, TasksInv, Index, N, TaskOK, DiagonalOK, PairOK, Called, Holds
<1>3. job.op \in Operations
  BY JobFacts DEF Inv, TypeInv
<1>4. res'.st = "fulfilled"
  BY <1>1, <1>3 DEF Returns, Fulfilled, Operations
<1>5. ASSUME job.op \in Predicate
      PROVE  Truth = {i \in Index : Holds(i)}
  BY <1>1, <1>5, CollectedDiagonal DEF DiagonalOK, Truth
<1>6. PredicatesDecide'
  <2>1. job.op = "filter" => res'.out = Chosen
    BY <1>1, <1>5 DEF Predicate, Returns, Fulfilled, Kept, Chosen
  <2>2. ASSUME job.op = "all"
        PROVE  res'.yes <=> \A i \in Index : Holds(i)
    <3>1. res' = Fulfilled(<<>>, Truth = Index)
      BY <1>1, <2>2 DEF Returns
    <3>2. res'.yes <=> Truth = Index
      BY <3>1, Zenon DEF Fulfilled
    <3>3. Truth = Index <=> \A i \in Index : Holds(i)
      BY <1>5, <2>2 DEF Predicate
    <3> QED  BY <3>2, <3>3
  <2>3. ASSUME job.op = "any"
        PROVE  res'.yes <=> \E i \in Index : Holds(i)
    <3>1. res' = Fulfilled(<<>>, Truth # {})
      BY <1>1, <2>3 DEF Returns
    <3>2. res'.yes <=> Truth # {}
      BY <3>1, Zenon DEF Fulfilled
    <3>3. Truth # {} <=> \E i \in Index : Holds(i)
      BY <1>5, <2>3 DEF Predicate
    <3> QED  BY <3>2, <3>3
  <2> QED  BY <1>1, <2>1, <2>2, <2>3 DEF PredicatesDecide, Chosen, Holds, Index, N
<1>7. SortsStably'
  <2>1. ASSUME job.op = "sort", ~job.curried, StrictOrder
        PROVE  StableSort(res'.out)
    <3>1. res'.out \in ArraySort
      BY <1>1, <2>1 DEF Returns, Fulfilled
    <3> QED  BY <1>1, <2>1, <3>1, ArraySortStable
  <2> QED  BY <1>1, <2>1 DEF SortsStably, StrictOrder, StableSort, Before, Index, N
<1>8. FailsWithItsParts'
  <2>1. ~Faulty
    BY <1>1, CollectedSound
  <2> QED  BY <1>1, <1>4, <2>1 DEF FailsWithItsParts, Uncallable, Faulty, Called, Pairs, Index, N
<1>9. ResultInv'
  BY <1>4, <1>6, <1>7, <1>8 DEF ResultInv
<1> QED  BY <1>2, <1>9 DEF Inv

LEMMA PartitionInv ==
  ASSUME Inv, partition
  PROVE  Inv'
<1>1. /\ job.op = "partition" /\ job' = job /\ task' = task /\ mtx' = mtx
      /\ res'.st = "fulfilled"
  BY DEF partition, Fulfilled
<1>2. TypeInv' /\ TasksInv'
  BY <1>1 DEF Inv, TypeInv, TasksInv, Index, N, TaskOK, DiagonalOK, PairOK, Called, Holds
<1>3. ~Faulty'
  BY <1>1 DEF Faulty
<1>4. PredicatesDecide' /\ SortsStably' /\ FailsWithItsParts'
  BY <1>1, <1>3 DEF PredicatesDecide, SortsStably, FailsWithItsParts, Uncallable
<1> QED  BY <1>1, <1>2, <1>4 DEF Inv, ResultInv

LEMMA NotAFunctionInv ==
  ASSUME Inv, NotAFunction
  PROVE  Inv'
<1>1. /\ Uncallable(job) /\ job' = job /\ task' = task /\ mtx' = mtx
      /\ res'.st = "rejected" /\ job.op # "partition"
  BY DEF NotAFunction, Rejected, Pending, Uncallable
<1>2. TypeInv' /\ TasksInv'
  BY <1>1 DEF Inv, TypeInv, TasksInv, Index, N, TaskOK, DiagonalOK, PairOK, Called, Holds
<1>3. PredicatesDecide' /\ SortsStably' /\ FailsWithItsParts'
  BY <1>1 DEF PredicatesDecide, SortsStably, FailsWithItsParts, Done, Uncallable
<1> QED  BY <1>1, <1>2, <1>3 DEF Inv, ResultInv

LEMMA InitInv ==
  ASSUME Init
  PROVE  Inv
<1>1. /\ job \in Jobs /\ task = Start(job) /\ mtx = [t \in DOMAIN task |-> 0]
      /\ res = Pending
  BY DEF Init
<1>2. /\ task \in [Index \X Index -> Phase]
      /\ \A t \in Index \X Index :
           task[t] = IF t[1] # t[2] \/ Uncallable(job) THEN "off"
                     ELSE IF job.op \in {"all", "any", "partition"} THEN "call" ELSE "elem"
  BY <1>1 DEF Start, Index, N, Phase
<1>3. mtx \in [Index \X Index -> {-1, 0, 1}]
  BY <1>1, <1>2
<1>4. ASSUME NEW t \in Index \X Index
      PROVE  TaskOK(t, task[t], mtx[t])
  <2>1. job.op \in Operations
    BY <1>1, JobFacts
  <2> QED  BY <1>2, <2>1 DEF TaskOK, DiagonalOK, PairOK, Operations, Awaits, Predicate
<1>5. ResultInv
  BY <1>1 DEF ResultInv, Pending, PredicatesDecide, SortsStably, FailsWithItsParts, Done
<1> QED  BY <1>1, <1>2, <1>3, <1>4, <1>5 DEF Inv, TypeInv, TasksInv

----------------------------------------------------------------------------
(* The tasks keep to what the job says, whatever settles first.            *)
THEOREM Invariance == Spec => []Inv
<1>1. Init => Inv
  BY InitInv
<1>2. Inv /\ [Next]_vars => Inv'
  <2> SUFFICES ASSUME Inv, [Next]_vars
               PROVE  Inv'
    OBVIOUS
  <2>1. DOMAIN task = Index \X Index
    BY DEF Inv, TypeInv
  <2>2. CASE \E t \in DOMAIN task : Element(t) \/ Call(t) \/ CallSwapped(t)
    <3>1. PICK t \in Index \X Index : Element(t) \/ Call(t) \/ CallSwapped(t)
      BY <2>1, <2>2
    <3> QED  BY <3>1, ElementInv, CallInv, CallSwappedInv
  <2>3. CASE BeginCompare
    BY <2>3, BeginCompareInv
  <2>4. CASE Collect
    BY <2>4, CollectInv
  <2>5. CASE partition
    BY <2>5, PartitionInv
  <2>7. CASE NotAFunction
    BY <2>7, NotAFunctionInv
  <2>6. CASE UNCHANGED vars
    <3>1. job' = job /\ task' = task /\ mtx' = mtx /\ res' = res
      BY <2>6 DEF vars
    <3>2. TypeInv' /\ TasksInv'
      BY <3>1 DEF Inv, TypeInv, TasksInv, Index, N, TaskOK, DiagonalOK, PairOK, Called, Holds
    <3> QED  BY <3>1, <3>2, SameResultInv DEF Inv
  <2> QED  BY <2>2, <2>3, <2>4, <2>5, <2>6, <2>7 DEF Next
<1> QED  BY <1>1, <1>2, PTL DEF Spec

(* filter keeps what it should in the order of the list, and all and any   *)
(* answer for the whole list, however long it is and in whatever order the *)
(* predicate answers (index.ts 270, 538).                                  *)
THEOREM PredicatesDecided == Spec => []PredicatesDecide
<1>1. Inv => PredicatesDecide
  BY DEF Inv, ResultInv
<1> QED  BY <1>1, Invariance, PTL

(* The half matrix of concurrent comparisons gives the stable sort of a    *)
(* list of any length, and no other arrangement (index.ts 289).            *)
THEOREM StablySorted == Spec => []SortsStably
<1>1. Inv => SortsStably
  BY DEF Inv, ResultInv
<1> QED  BY <1>1, Invariance, PTL

(* An operation is rejected only when something it looks at fails, or all  *)
(* or any was given a promise for a predicate, and is fulfilled only when  *)
(* neither is so (Promise.all and .map(pred) in index.ts).                 *)
THEOREM FailureExplained == Spec => []FailsWithItsParts
<1>1. Inv => FailsWithItsParts
  BY DEF Inv, ResultInv
<1> QED  BY <1>1, Invariance, PTL

----------------------------------------------------------------------------
(***************************************************************************)
(* compareVersions orders versions of any length as Nix does, except where *)
(* a version ends before a word.  First the order on components, then the  *)
(* walk: everything before the pair it looks at is a tie.                 *)
(***************************************************************************)
Padded == Component \cup {undefined}

(* On components the code and Nix agree, but for the end before a word. *)
LEMMA DecideIsOrder ==
  ASSUME NEW a \in Padded, NEW b \in Padded
  PROVE  /\ Decide(a, b) \in {-1, 0, 1}
         /\ Decide(a, b) = 0 <=> Tie(a, b)
         /\ ~(LT(a, b) /\ LT(b, a))
         /\ {a.k, b.k} # {"undefined", "word"} =>
              /\ Decide(a, b) = -1 <=> LT(a, b)
              /\ Decide(a, b) = 1 <=> LT(b, a)
<1>1. /\ a.k \in {"digits", "word", "pre", "undefined"} /\ a.n \in Nat
      /\ a = [k |-> a.k, n |-> a.n] /\ (a.k \in {"pre", "undefined"} => a.n = 0)
  BY DEF Padded, Component, Pre, undefined
<1>2. /\ b.k \in {"digits", "word", "pre", "undefined"} /\ b.n \in Nat
      /\ b = [k |-> b.k, n |-> b.n] /\ (b.k \in {"pre", "undefined"} => b.n = 0)
  BY DEF Padded, Component, Pre, undefined
<1>3. a = b <=> a.k = b.k /\ a.n = b.n
  BY <1>1, <1>2
<1>4. (a = Pre <=> a.k = "pre") /\ (b = Pre <=> b.k = "pre")
  BY <1>1, <1>2 DEF Pre
<1> HIDE DEF Pre
<1>5. CASE a.k = b.k
  BY <1>1, <1>2, <1>3, <1>4, <1>5 DEF Decide, LT, Tie
<1>6. CASE a.k # b.k
  BY <1>1, <1>2, <1>3, <1>4, <1>6 DEF Decide, LT, Tie
<1> QED
  BY <1>5, <1>6

(* What the walk reads is a component or the padding. *)
LEMMA AtType ==
  ASSUME NEW s \in Versions, NEW j \in Nat \ {0}
  PROVE  At(s, j) \in Padded
<1>1. s \in Seq(Component)
  BY VersionsAssumption
<1> QED
  BY <1>1 DEF At, Padded

LEMMA LongestType ==
  ASSUME NEW s \in Versions, NEW t \in Versions
  PROVE  Longest(s, t) \in Nat /\ Longest(s, t) = Longest(t, s)
<1>1. s \in Seq(Component) /\ t \in Seq(Component)
  BY VersionsAssumption
<1> QED
  BY <1>1 DEF Longest

----------------------------------------------------------------------------
(* The inductive invariant: ties so far, and the answer is about the pair  *)
(* looked at.                                                              *)
TiesBefore == \A h \in 1 .. (at - 1) : Tie(At(s1p, h), At(s2p, h))

AnswerAt ==
  \/ ret = 2
  \/ ret = 0 /\ at = Longest(s1p, s2p) + 1
  \/ /\ at <= Longest(s1p, s2p)
     /\ ret = Decide(At(s1p, at), At(s2p, at)) /\ ret # 0

IInv == TypeOK /\ TiesBefore /\ AnswerAt

LEMMA InitIInv == CompareInit => IInv
<1> SUFFICES ASSUME CompareInit PROVE IInv
  OBVIOUS
<1>1. Longest(s1p, s2p) \in Nat
  BY LongestType DEF CompareInit
<1> QED
  BY <1>1 DEF CompareInit, IInv, TypeOK, TiesBefore, AnswerAt

LEMMA NextIInv == IInv /\ [CompareNext]_compareVars => IInv'
<1> SUFFICES ASSUME IInv, [CompareNext]_compareVars PROVE IInv'
  OBVIOUS
<1>1. s1p \in Versions /\ s2p \in Versions /\ Longest(s1p, s2p) \in Nat /\ at \in Nat \ {0}
  BY LongestType DEF IInv, TypeOK
<1>2. CASE Compare
  <2> DEFINE x == Decide(At(s1p, at), At(s2p, at))
  <2>1. x \in {-1, 0, 1} /\ (x = 0 <=> Tie(At(s1p, at), At(s2p, at)))
    BY <1>1, AtType, DecideIsOrder
  <2>2. UNCHANGED <<s1p, s2p>> /\ at <= Longest(s1p, s2p)
    BY <1>2 DEF Compare, More
  <2>3. CASE x = 0
    <3>1. at' = at + 1 /\ ret' = 2
      BY <1>2, <2>3 DEF Compare
    <3>2. TypeOK'
      BY <1>1, <2>2, <3>1 DEF IInv, TypeOK
    <3>3. TiesBefore'
      <4> SUFFICES ASSUME NEW h \in 1 .. (at' - 1) PROVE Tie(At(s1p, h), At(s2p, h))
        BY <2>2 DEF TiesBefore
      <4>1. h \in 1 .. (at - 1) \/ h = at
        BY <1>1, <3>1
      <4> QED
        BY <2>1, <2>3, <4>1 DEF IInv, TiesBefore
    <3> QED
      BY <3>1, <3>2, <3>3 DEF IInv, AnswerAt
  <2>4. CASE x # 0
    <3>1. at' = at /\ ret' = x
      BY <1>2, <2>4 DEF Compare
    <3> QED
      BY <1>1, <2>1, <2>2, <2>4, <3>1 DEF IInv, TypeOK, TiesBefore, AnswerAt
  <2> QED
    BY <2>3, <2>4
<1>3. CASE Exhausted
  <2>1. at = Longest(s1p, s2p) + 1
    BY <1>1, <1>3 DEF Exhausted, More, IInv, TypeOK
  <2> QED
    BY <1>1, <1>3, <2>1 DEF Exhausted, IInv, TypeOK, TiesBefore, AnswerAt
<1>4. CASE UNCHANGED compareVars
  BY <1>4 DEF compareVars, IInv, TypeOK, TiesBefore, AnswerAt
<1> QED
  BY <1>2, <1>3, <1>4 DEF CompareNext

LEMMA AlwaysIInv == CompareSpec => []IInv
BY InitIInv, NextIInv, PTL DEF CompareSpec

----------------------------------------------------------------------------
(* The walk never leaves the versions and only gives answers in -1, 0, 1. *)
THEOREM TypeCorrect == CompareSpec => []TypeOK
<1>1. IInv => TypeOK
  BY DEF IInv
<1> QED
  BY <1>1, AlwaysIInv, PTL

(* Two components that decide are the same one. *)
LEMMA DecisiveUnique ==
  ASSUME NEW s, NEW t, Longest(s, t) \in Nat, NEW j, NEW h,
         Decisive(s, t, j), Decisive(s, t, h)
  PROVE  j = h
<1>1. j \in Nat \ {0} /\ h \in Nat \ {0}
  BY DEF Decisive
<1>2. ~(j < h) /\ ~(h < j)
  BY <1>1 DEF Decisive
<1> QED
  BY <1>1, <1>2

(* Ties do not depend on the order of the versions. *)
LEMMA DecisiveSwap ==
  ASSUME NEW s \in Versions, NEW t \in Versions, NEW j
  PROVE  Decisive(s, t, j) <=> Decisive(t, s, j)
BY LongestType DEF Decisive, Tie

(***************************************************************************)
(* For versions of any length: except where one ends before a word, the    *)
(* answer of the code is that of Nix's order on versions.                  *)
(***************************************************************************)
THEOREM Ordered == CompareSpec => []OrderedButForWords
<1>1. IInv => OrderedButForWords
  <2> SUFFICES ASSUME IInv, ret # 2, ~WordAtEnd(s1p, s2p)
               PROVE  (ret = -1 <=> Older(s1p, s2p)) /\ (ret = 1 <=> Older(s2p, s1p))
    BY DEF OrderedButForWords
  <2> DEFINE L == Longest(s1p, s2p)
  <2>1. /\ s1p \in Versions /\ s2p \in Versions /\ L \in Nat /\ L = Longest(s2p, s1p)
        /\ at \in Nat \ {0}
    BY LongestType DEF IInv, TypeOK
  <2>2. CASE ret = 0 /\ at = L + 1
    <3>1. \A j : ~Decisive(s1p, s2p, j)
      BY <2>1, <2>2 DEF IInv, TiesBefore, Decisive
    <3>2. \A j : ~Decisive(s2p, s1p, j)
      BY <2>1, <3>1, DecisiveSwap
    <3> QED
      BY <2>2, <3>1, <3>2 DEF Older
  <2>3. CASE at <= L /\ ret = Decide(At(s1p, at), At(s2p, at)) /\ ret # 0
    <3> DEFINE a == At(s1p, at)
               b == At(s2p, at)
    <3>1. a \in Padded /\ b \in Padded
      BY <2>1, AtType
    <3>2. Decisive(s1p, s2p, at)
      BY <2>1, <2>3, <3>1, DecideIsOrder DEF IInv, TiesBefore, Decisive
    <3>3. {a.k, b.k} # {"undefined", "word"}
      BY <2>1, <2>3, <3>2 DEF WordAtEnd
    <3>4. (Decide(a, b) = -1 <=> LT(a, b)) /\ (Decide(a, b) = 1 <=> LT(b, a))
      BY <3>1, <3>3, DecideIsOrder
    <3>5. Older(s1p, s2p) <=> LT(a, b)
      <4>1. \A j : Decisive(s1p, s2p, j) => j = at
        BY <2>1, <3>2, DecisiveUnique
      <4> QED
        BY <2>1, <2>3, <3>2, <4>1 DEF Older
    <3>6. Older(s2p, s1p) <=> LT(b, a)
      <4>1. Decisive(s2p, s1p, at)
        BY <2>1, <3>2, DecisiveSwap
      <4>2. \A j : Decisive(s2p, s1p, j) => j = at
        BY <2>1, <4>1, DecisiveUnique
      <4> QED
        BY <2>1, <2>3, <4>1, <4>2 DEF Older
    <3> QED
      BY <2>3, <3>4, <3>5, <3>6
  <2> QED
    BY <2>2, <2>3 DEF IInv, AnswerAt
<1> QED
  BY <1>1, AlwaysIInv, PTL
=============================================================================
