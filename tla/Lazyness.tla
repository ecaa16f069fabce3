------------------------------ MODULE Lazyness ------------------------------
(***************************************************************************)
(* The translator's stack context: what the code around an expression      *)
(* expects of it (helpers.rs).  await_st says whether the value has to be  *)
(* awaited, lazy_st whether its evaluation has to be deferred.  Every node *)
(* kind that emits code of its own asks lazyness_incoming which wrappers   *)
(* to put around it.  The operators below return the emitted wrappers as   *)
(* bracket tokens, their text being of no interest.                        *)
(***************************************************************************)
EXTENDS Sequences

St == {"Did", "Want", "Nothing"}
Tr == {"Need", "Forward", "Flush", "Force"}
Ladj == {"Front", "Back"}

StackCtx == [await_st : St, lazy_st : St]

mksctx(awaits, lazys) == [await_st |-> awaits, lazy_st |-> lazys]

(***************************************************************************)
(* Tokens of the emitted JavaScript.  An open/close pair brackets what one *)
(* construct encloses: x is the construct, v the name it concerns, if any. *)
(***************************************************************************)
Open(x, v)  == [t |-> "open",  x |-> x, v |-> v]
Close(x, v) == [t |-> "close", x |-> x, v |-> v]

----------------------------------------------------------------------------
(* Mutant: Force does no more than Flush. *)
merge_sttr_fires_wanted(st, tr) ==
  /\ tr \in {"Flush", "Force", "Need"}
  /\ st = "Want"

(***************************************************************************)
(* merge_sttr: the state handed to the inside, and whether the wrapper is  *)
(* emitted here (the `None' of the Rust code).                             *)
(***************************************************************************)
merge_sttr_fires(st, tr) ==
  \/ tr = "Flush" /\ st = "Want"
  \/ tr = "Force" /\ st # "Did"
  \/ tr = "Need"  /\ st = "Want"

merge_sttr(st, tr) ==
  [st |-> IF merge_sttr_fires(st, tr) THEN "Did"
          ELSE IF tr = "Need" /\ st = "Nothing" THEN "Want"
          ELSE st,
   do |-> merge_sttr_fires(st, tr)]

(***************************************************************************)
(* lazyness_incoming: `(await ' and `nixBlti.PLazy.from(async ()=>' around *)
(* what the caller emits, and the context the caller's inside runs with.   *)
(* The finishers are pushed in the reverse order.                          *)
(***************************************************************************)
lta(await_tr, adj) ==
  await_tr = "Forward" \/ (await_tr = "Flush" /\ adj = "Front")

lazyness_incoming(sctx, await_tr, lazy_tr, adj) ==
  LET a == merge_sttr(sctx.await_st, await_tr)
      l == merge_sttr(sctx.lazy_st, lazy_tr)
      wrap == l.do /\ ((~a.do /\ adj # "Back") \/ lta(await_tr, adj))
      again == wrap /\ ~lta(await_tr, adj)
  IN [pre  |-> (IF a.do  THEN <<Open("await", "")>> ELSE <<>>) \o
               (IF wrap  THEN <<Open("lazy", "")>>  ELSE <<>>) \o
               (IF again THEN <<Open("await", "")>> ELSE <<>>),
      sctx |-> IF wrap THEN mksctx(IF again THEN "Did" ELSE "Want", "Nothing")
               ELSE mksctx(a.st, l.st),
      post |-> (IF again THEN <<Close("await", "")>> ELSE <<>>) \o
               (IF wrap  THEN <<Close("lazy", "")>>  ELSE <<>>) \o
               (IF a.do  THEN <<Close("await", "")>> ELSE <<>>)]
=============================================================================
