--------------------------- MODULE AsyncListProps ---------------------------
(* What the list operations of Nix return, without promises. *)
EXTENDS AsyncList

(* Element i satisfies the predicate; element i is before element j. *)
Holds(i)     == job.call[i][i] = "true"
Before(i, j) == job.call[i][j] = "true"

(* Something the operation looks at fails. *)
Faulty ==
  \/ job.op \in {"resolve", "filter", "sort"} /\ \E i \in Index : ~job.elem[i]
  \/ job.op \in {"filter", "all", "any"} /\ \E i \in Index : job.call[i][i] = "error"
  \/ /\ job.op = "sort" /\ ~job.curried
     /\ \E t \in Pairs : \/ Called(t[1], t[2]) = "error"
                         \/ Called(t[1], t[2]) = "false" /\ Called(t[2], t[1]) = "error"

(* The callback is a strict weak order on the elements. *)
StrictOrder ==
  /\ \A i, j \in Index : i # j => job.call[i][j] # "error"
  /\ \A i, j \in Index : i # j => ~(Before(i, j) /\ Before(j, i))
  /\ \A i, j, k \in Index :
       Cardinality({i, j, k}) = 3 /\ Before(i, k) => Before(i, j) \/ Before(j, k)

(* p is the stable arrangement of the elements. *)
StableSort(p) ==
  /\ Len(p) = N /\ IsInjective(p)
  /\ \A i, j \in Index : i < j => Before(p[i], p[j]) \/ (~Before(p[j], p[i]) /\ p[i] < p[j])

Chosen == InOrder(N, {i \in Index : Holds(i)})

Done == res.st = "fulfilled"

----------------------------------------------------------------------------

(***************************************************************************)
(* In whatever order predicates answer, filter keeps the elements it       *)
(* should, in the order of the list, and all and any answer for the whole  *)
(* list (index.ts 270, 538).                                               *)
(***************************************************************************)
PredicatesDecide ==
  Done => /\ job.op = "filter" => res.out = Chosen
          /\ job.op = "all" => (res.yes <=> \A i \in Index : Holds(i))
          /\ job.op = "any" => (res.yes <=> \E i \in Index : Holds(i))

(***************************************************************************)
(* With a comparator of two arguments that is a strict weak order, the     *)
(* half matrix of concurrent comparisons gives the stable sort of the list *)
(* (index.ts 289).                                                         *)
(***************************************************************************)
SortsStably ==
  Done /\ job.op = "sort" /\ ~job.curried /\ StrictOrder => StableSort(res.out)

(***************************************************************************)
(* An operation fails only when something it has to look at fails, and an  *)
(* answer is given only when nothing of it does (Promise.all), with one    *)
(* gap: all and any fail, whatever the elements, when their predicate is a *)
(* promise, which they do not await (index.ts 538).                        *)
(***************************************************************************)
FailsWithItsParts ==
  /\ res.st = "rejected" => Faulty \/ Uncallable(job)
  /\ Done => ~Faulty /\ ~Uncallable(job)

(* Every operation is answered: no task waits for another forever. *)
Settles == <>(res.st # "pending")

(***************************************************************************)
(* index.ts 732: "no need to resolve the list, the predicate can handle    *)
(* that": partition puts right what the predicate holds of.                *)
(***************************************************************************)
PartitionSplits ==
  Done /\ job.op = "partition" /\ (\A i \in Index : job.call[i][i] # "error") => res.out = Chosen
=============================================================================
