----------------------------- MODULE AsyncList ------------------------------
(***************************************************************************)
(* The asynchronous list helpers of index.ts.  One operation is applied to *)
(* a list of promises; elements and callbacks settle in any order.  A job  *)
(* fixes what they settle to: elem[i] tells whether element i is there or  *)
(* fails, call[i][j] what the callback answers for elements i and j (i = j *)
(* for a predicate), curried that the callback takes its arguments one by  *)
(* one, as every function written in Nix does, promised that it is itself  *)
(* a promise, as the result of a call is (`builtins.all (f 1) xs').        *)
(*                                                                         *)
(* A task is one promise of those that Promise.all collects.  Task <<i,i>> *)
(* is about element i, task <<i,j>> with j < i about a comparison.         *)
(***************************************************************************)
EXTENDS Integers, Sequences, FiniteSets, Functions

CONSTANTS
  Jobs,    \* the operations considered
  MaxLen   \* bound: length of the list

Operations == {"resolve", "filter", "all", "any", "partition", "sort"}

Answer == {"true", "false", "error"}

JobsOfLength(n) ==
  [op : Operations, elem : [1 .. n -> BOOLEAN],
   call : [1 .. n -> [1 .. n -> Answer]], curried : BOOLEAN, promised : BOOLEAN]

ASSUME ListAssumption ==
  MaxLen \in Nat /\ \A j \in Jobs : \E n \in 0 .. MaxLen : j \in JobsOfLength(n)

VARIABLES
  job,   \* the operation, fixed
  task,  \* where each task is
  mtx,   \* what the tasks that are done returned
  res    \* the promise of the operation

vars == <<job, task, mtx, res>>

N     == Len(job.elem)
Index == 1 .. N
Pairs == {t \in Index \X Index : t[2] < t[1]}

(* out: indices of elements, or <<>> and a Boolean for all and any. *)
Pending    == [st |-> "pending", out |-> <<>>, yes |-> FALSE]
Rejected   == [Pending EXCEPT !.st = "rejected"]
Fulfilled(out, yes) == [st |-> "fulfilled", out |-> out, yes |-> yes]

(* A promise settles once. *)
Settle(r) == res' = IF res.st = "pending" THEN r ELSE res

(* Promise.all: a task that fails rejects the whole. *)
TaskFails(t) ==
  /\ task' = [task EXCEPT ![t] = "failed"]
  /\ Settle(Rejected)
  /\ UNCHANGED <<job, mtx>>

TaskGoesOn(t, ph) ==
  /\ task' = [task EXCEPT ![t] = ph]
  /\ UNCHANGED <<job, mtx, res>>

TaskDone(t, v) ==
  /\ task' = [task EXCEPT ![t] = "done"]
  /\ mtx' = [mtx EXCEPT ![t] = v]
  /\ UNCHANGED <<job, res>>

(* A function given too few arguments answers a function: something true. *)
Called(i, j) == IF job.curried /\ i # j THEN "true" ELSE job.call[i][j]

----------------------------------------------------------------------------
(* all and any hand the predicate to Array.prototype.map as it is; filter, *)
(* partition and sort await it.                                            *)
Uncallable(j) == j.op \in {"all", "any"} /\ j.promised

(***************************************************************************)
(* The operation starts once the list is there.  filter, sort and          *)
(* resolveList await the elements; all and any pass them to the predicate. *)
(***************************************************************************)
Start(j) ==
  [t \in (1 .. Len(j.elem)) \X (1 .. Len(j.elem)) |->
     IF t[1] # t[2] \/ Uncallable(j) THEN "off"
     ELSE IF j.op \in {"all", "any", "partition"} THEN "call" ELSE "elem"]

(* `.map(pred)' of a promise is a TypeError, for the empty list too. *)
NotAFunction ==
  /\ Uncallable(job) /\ res = Pending
  /\ res' = Rejected
  /\ UNCHANGED <<job, task, mtx>>

(* Mutant: the failure of an element is dropped. *)
ElementSilent(t) ==
  /\ task[t] = "elem"
  /\ \/ ~job.elem[t[1]] /\ TaskGoesOn(t, "failed")
     \/ job.elem[t[1]] /\ job.op = "filter" /\ TaskGoesOn(t, "call")
     \/ job.elem[t[1]] /\ job.op \in {"resolve", "sort"} /\ TaskDone(t, 1)

(* `let y = await x' *)
Element(t) ==
  /\ task[t] = "elem"
  /\ \/ ~job.elem[t[1]] /\ TaskFails(t)
     \/ job.elem[t[1]] /\ job.op = "filter" /\ TaskGoesOn(t, "call")
     \/ job.elem[t[1]] /\ job.op \in {"resolve", "sort"} /\ TaskDone(t, 1)

(* `await f(y)'; for a comparison of a and an earlier b, `await comp(a,b)'. *)
(* partition awaits nothing: it has returned before an answer comes.        *)
Call(t) ==
  /\ task[t] = "call" /\ (job.op = "partition" => res # Pending)
  /\ LET ans == Called(t[1], t[2])
     IN \/ ans = "error" /\ TaskFails(t)
        \/ ans = "true"  /\ TaskDone(t, IF t \in Pairs THEN -1 ELSE 1)
        \/ ans = "false" /\ t \notin Pairs /\ TaskDone(t, 0)
        \/ ans = "false" /\ t \in Pairs /\ TaskGoesOn(t, "swapped")

(* `else if (await comp(b, a))' *)
CallSwapped(t) ==
  /\ task[t] = "swapped"
  /\ LET ans == Called(t[2], t[1])
     IN \/ ans = "error" /\ TaskFails(t)
        \/ ans # "error" /\ TaskDone(t, IF ans = "true" THEN 1 ELSE 0)

(* sortAsyncList: the comparisons begin when all elements are there. *)
BeginCompare ==
  /\ job.op = "sort" /\ res = Pending
  /\ \A i \in Index : task[<<i, i>>] = "done"
  /\ Pairs # {} /\ \A t \in Pairs : task[t] = "off"
  /\ task' = [t \in DOMAIN task |-> IF t \in Pairs THEN "call" ELSE task[t]]
  /\ UNCHANGED <<job, mtx, res>>

----------------------------------------------------------------------------
(* Mutant: the mirrored half of the matrix keeps its sign. *)
ComparatorUnsigned(a, b) == IF b < a THEN mtx[<<a, b>>] ELSE mtx[<<b, a>>]

(* `bx < ax ? mtx[ax][bx] : -mtx[bx][ax]' *)
Comparator(a, b) == IF b < a THEN mtx[<<a, b>>] ELSE -mtx[<<b, a>>]

(***************************************************************************)
(* Array.prototype.sort is stable and, when the comparator is not an       *)
(* order, leaves the elements in any order.                                *)
(***************************************************************************)
SortedBy(p) ==
  \A i, j \in Index : i < j =>
    LET c == Comparator(p[i], p[j]) IN c < 0 \/ (c = 0 /\ p[i] < p[j])

ArraySort ==
  LET perms == {p \in [Index -> Index] : IsInjective(p)}
  IN IF \E p \in perms : SortedBy(p) THEN {p \in perms : SortedBy(p)} ELSE perms

(* The elements that their task said yes to, and elements in the order of  *)
(* the list.                                                               *)
Truth == {i \in Index : mtx[<<i, i>>] = 1}

InOrder(n, chosen) == SelectSeq([i \in 1 .. n |-> i], LAMBDA i : i \in chosen)

(* Mutant: kept elements are collected as they come, last first. *)
KeptReversed == SelectSeq([i \in Index |-> N + 1 - i], LAMBDA i : i \in Truth)

(* reduce: the elements the predicate holds of, in the order of the list *)
Kept == InOrder(N, Truth)

(* What the operation may return once its tasks are done. *)
Returns ==
  CASE job.op \in {"resolve", "filter"} -> {Fulfilled(Kept, FALSE)}
    [] job.op = "all"  -> {Fulfilled(<<>>, Truth = Index)}
    [] job.op = "any"  -> {Fulfilled(<<>>, Truth # {})}
    [] job.op = "sort" -> {Fulfilled(p, FALSE) : p \in ArraySort}

(* Mutant: Promise.all taken for Promise.race. *)
CollectedRace ==
  Index = {} \/ \E t \in DOMAIN task : task[t] = "done" /\ (job.op = "sort" => t \in Pairs)

Collected ==
  \A t \in DOMAIN task :
    t[1] = t[2] \/ (job.op = "sort" /\ t \in Pairs) => task[t] = "done"

Collect ==
  /\ res = Pending /\ job.op # "partition" /\ ~Uncallable(job) /\ Collected
  /\ res' \in Returns
  /\ UNCHANGED <<job, task, mtx>>

(***************************************************************************)
(* partition calls the predicate for every element and looks at the        *)
(* promises it returns, which are objects and so true.                     *)
(***************************************************************************)
partition ==
  /\ job.op = "partition" /\ res = Pending
  /\ res' = Fulfilled([i \in Index |-> i], FALSE)
  /\ UNCHANGED <<job, task, mtx>>

Init ==
  /\ job \in Jobs
  /\ task = Start(job)
  /\ mtx = [t \in DOMAIN task |-> 0]
  /\ res = Pending

Next ==
  \/ \E t \in DOMAIN task : Element(t) \/ Call(t) \/ CallSwapped(t)
  \/ NotAFunction \/ BeginCompare \/ Collect \/ partition

(* Elements and callbacks settle, and the event loop runs what is due. *)
Spec == Init /\ [][Next]_vars /\ WF_vars(Next)
=============================================================================
