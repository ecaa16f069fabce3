---------------------------- MODULE MCAsyncList -----------------------------
(* Lists of up to three elements. *)
EXTENDS AsyncListProps

Constantly(n, a) == [i \in 1 .. n |-> [j \in 1 .. n |-> a]]

Diagonal(f) == [i \in DOMAIN f |-> [j \in DOMAIN f |-> f[i]]]

Job(op, e, c) == [op |-> op, elem |-> e, call |-> c, curried |-> FALSE, promised |-> FALSE]

PredicateJobs ==
  {Job(op, e, Diagonal(f)) : op \in {"filter", "all", "any", "partition"},
     e \in [1 .. 3 -> BOOLEAN], f \in [1 .. 3 -> Answer]}

(* `builtins.all (f 1) xs', also of no elements *)
PromisedJobs ==
  {[Job(op, [i \in 1 .. n |-> TRUE], Constantly(n, a)) EXCEPT !.promised = TRUE] :
     op \in {"filter", "all", "any", "partition"}, n \in 0 .. 2, a \in {"true", "error"}}

Keys(n) == [1 .. n -> 1 .. n]

AllThere(n) == [i \in 1 .. n |-> TRUE]

OrderOf(k, R(_, _)) ==
  [i \in DOMAIN k |-> [j \in DOMAIN k |-> IF R(k[i], k[j]) THEN "true" ELSE "false"]]

SortJobs ==
  {[Job("sort", AllThere(Len(k)), OrderOf(k, LAMBDA x, y : x < y)) EXCEPT !.curried = c] :
     k \in UNION {Keys(n) : n \in 0 .. 3}, c \in BOOLEAN}

(* `<=', anything on two elements, and `<' where one comparison fails *)
LooseJobs ==
  {Job("sort", AllThere(3), OrderOf(k, LAMBDA x, y : x <= y)) : k \in Keys(3)}
    \cup {Job("sort", e, c) : e \in [1 .. 2 -> BOOLEAN], c \in [1 .. 2 -> [1 .. 2 -> Answer]]}
    \cup {Job("sort", AllThere(3),
              [OrderOf(k, LAMBDA x, y : x < y) EXCEPT ![3][1] = "error"]) : k \in Keys(3)}

ResolveJobs ==
  {Job("resolve", e, Constantly(Len(e), "true")) : e \in UNION {[1 .. n -> BOOLEAN] : n \in 0 .. 3}}

MCJobs == PredicateJobs \cup PromisedJobs \cup SortJobs \cup LooseJobs \cup ResolveJobs

PartitionJobs == {j \in PredicateJobs : j.op = "partition"}
=============================================================================
