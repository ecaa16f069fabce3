----------------------------- MODULE LazyValue ------------------------------
(***************************************************************************)
(* Values at run time (index.ts): emitted code is a graph of promises.  A  *)
(* PLazy runs when it is first awaited, an async call as soon as it is     *)
(* made.  Each promise is made by one piece of code, which awaits others   *)
(* one after the other: a selection, an operator, orDefault, tryEval, the  *)
(* call of a function whose argument is a pattern.                         *)
(*                                                                         *)
(* Everything between two awaits is one step.  Reactions of promises run   *)
(* before anything else happens (the microtask queue is drained); then the *)
(* host looks for rejected promises that nobody awaits and, if there are   *)
(* any, ends the process; only then input/output completes.                *)
(***************************************************************************)
EXTENDS Naturals

CONSTANTS
  Prom,      \* the promises
  Key,       \* attribute names
  Programs,  \* what makes each promise: [Prom -> Code]
  Main       \* the promise that is awaited from outside

None == 0

Error == {"NixEvalError", "TypeError", "AbsentError"}

(***************************************************************************)
(* `absent' stands for the TypeErrors that JavaScript words as "Cannot     *)
(* read properties of undefined", the only ones orDefault catches.         *)
(***************************************************************************)
Absent == "AbsentError"

Value == [k : {"number", "string", "undefined", "object", "success", "failure"},
          at : [Key -> Prom \cup {None}]]

NoAttrs == [x \in Key |-> None]

Atom(k)    == [k |-> k, at |-> NoAttrs]
Undefined  == Atom("undefined")
Ok(v)      == [ok |-> TRUE,  v |-> v, e |-> ""]
Err(e)     == [ok |-> FALSE, v |-> Undefined, e |-> e]
Result     == {r \in [ok : BOOLEAN, v : Value, e : Error \cup {""}] :
                 IF r.ok THEN r.e = "" ELSE r.e # "" /\ r.v = Undefined}

Ops == {"const", "io", "get", "orDefault", "a2chk", "tryEval", "binop", "call", "if"}

(***************************************************************************)
(* a, b, c are operands; r is the outcome of a constant, a throw or of     *)
(* input/output; spawn are the operands that are calls, made as soon as    *)
(* the code comes to them: at once for an operator, after the argument was *)
(* awaited for the formals of a pattern; within are the calls of functions *)
(* with a pattern in whose body the code is.                               *)
(***************************************************************************)
Code == [op : Ops, a : Prom \cup {None}, b : Prom \cup {None}, c : Prom \cup {None},
         key : Key, r : Result, spawn : SUBSET Prom, within : SUBSET Prom]

(* The operands that emitted code always has. *)
Operands(c) ==
  /\ c.op \notin {"const", "io"} => c.a \in Prom
  /\ c.op \in {"orDefault", "binop", "call", "if"} => c.b \in Prom
  /\ c.op = "if" => c.c \in Prom
  /\ c.op = "binop" => c.spawn \subseteq {c.a, c.b}

(* What code refers to: operands, calls, and the attributes of its object. *)
Refers(c) == {c.a, c.b, c.c} \cup c.spawn \cup {c.r.v.at[x] : x \in Key}

(***************************************************************************)
(* Lexical scope: code refers to what is made around it, a call also to    *)
(* its own body and formals; _lambdaA2chk is given the argument of one of  *)
(* the calls it is within.                                                 *)
(***************************************************************************)
Scoped(pr) ==
  /\ pr[Main].within = {}
  /\ \A p \in Prom : \A q \in Refers(pr[p]) \cap Prom : \A f \in pr[q].within :
       \/ f \in pr[p].within
       \/ f = p /\ pr[p].op = "call" /\ q \in {pr[p].b} \cup pr[p].spawn /\ q # pr[p].a
  /\ \A p \in Prom : \A f \in pr[p].within : pr[f].op = "call"
  /\ \A p \in Prom : pr[p].op = "a2chk" => \E f \in pr[p].within : pr[f].a = pr[p].a

ASSUME LazyAssumption ==
  /\ None \notin Prom /\ Main \in Prom
  /\ Programs \subseteq [Prom -> Code]
  /\ \A pr \in Programs : Scoped(pr) /\ \A p \in Prom : Operands(pr[p])

VARIABLES
  prog,     \* the program, fixed
  st,       \* per promise: its phase, what it waits for and where, the outcome
  awaited,  \* the promises somebody has awaited: their rejection is handled
  crashed   \* the host has ended the process

vars == <<prog, st, awaited, crashed>>

Idle == [ph |-> "idle", on |-> None, pc |-> "", left |-> "", r |-> Ok(Undefined)]

Done(p) == st[p].ph = "done"

(* st after p settles; st after p awaits q and goes on at pc. *)
Settled(s, p, r)    == [s EXCEPT ![p].ph = "done", ![p].r = r]
Waiting(s, p, q, pc) == [s EXCEPT ![p].ph = "wait", ![p].on = q, ![p].pc = pc]

Started(s, Q) ==
  [p \in Prom |-> IF p \in Q /\ s[p].ph = "idle" THEN [s[p] EXCEPT !.ph = "new"] ELSE s[p]]

Settle(p, r) ==
  /\ st' = Settled(st, p, r)
  /\ UNCHANGED <<prog, awaited, crashed>>

(* Mutant: the promise is put aside without calling its `then'. *)
AwaitUnforced(p, q, pc, Q) ==
  /\ st' = Started(Waiting(st, p, q, pc), Q)
  /\ UNCHANGED <<prog, awaited, crashed>>

Await(p, q, pc, Q) ==
  /\ st' = Started(Waiting(st, p, q, pc), Q)
  /\ awaited' = awaited \cup {q}
  /\ UNCHANGED <<prog, crashed>>

----------------------------------------------------------------------------
(* PLazy.then: the executor runs when the promise is first awaited. *)
Demand(p) ==
  /\ st[p].ph = "idle" /\ p \in awaited
  /\ st' = Started(st, {p})
  /\ UNCHANGED <<prog, awaited, crashed>>

New(p, op) == st[p].ph = "new" /\ prog[p].op = op

Constant(p) == New(p, "const") /\ Settle(p, prog[p].r)

BeginIo(p) ==
  /\ New(p, "io")
  /\ st' = [st EXCEPT ![p].ph = "io"]
  /\ UNCHANGED <<prog, awaited, crashed>>

(* Mutant: the default is started together with the selection. *)
BeginEager(p) ==
  /\ st[p].ph = "new" /\ prog[p].op \notin {"const", "io", "a2chk"}
  /\ Await(p, prog[p].a, "first",
           CASE prog[p].op = "binop" -> prog[p].spawn
             [] prog[p].op = "orDefault" -> {prog[p].b}
             [] OTHER -> {})

(* All the others await their first operand. *)
Begin(p) ==
  /\ st[p].ph = "new" /\ prog[p].op \notin {"const", "io", "a2chk"}
  /\ Await(p, prog[p].a, "first", IF prog[p].op = "binop" THEN prog[p].spawn ELSE {})

(* p has an answer: the function goes on where it awaited. *)
Resumed(p, op, pc) ==
  st[p].ph = "wait" /\ st[p].pc = pc /\ prog[p].op = op /\ Done(st[p].on)

Got(p) == st[st[p].on].r

(* An exception nobody catches rejects the promise of the function. *)
Catches(p) == prog[p].op \in {"orDefault", "tryEval"} /\ st[p].pc = "first"

Rethrow(p) ==
  /\ Resumed(p, prog[p].op, st[p].pc) /\ ~Got(p).ok /\ ~Catches(p)
  /\ Settle(p, Got(p))

(* `return await x' *)
Return(p) ==
  /\ Resumed(p, prog[p].op, "last") /\ Got(p).ok
  /\ Settle(p, Got(p))

----------------------------------------------------------------------------
(* `(await (await a).key)' *)
Select(p) ==
  /\ Resumed(p, "get", "first") /\ Got(p).ok
  /\ LET v == Got(p).v
         x == v.at[prog[p].key]
     IN \/ v = Undefined /\ Settle(p, Err(Absent))
        \/ v # Undefined /\ x = None /\ Settle(p, Ok(Undefined))
        \/ x # None /\ Await(p, x, "last", {})

orDefault(p) ==
  /\ Resumed(p, "orDefault", "first")
  /\ IF Got(p) = Err(Absent) \/ Got(p) = Ok(Undefined)
     THEN Await(p, prog[p].b, "last", {})
     ELSE Settle(p, Got(p))

(***************************************************************************)
(* _lambdaA2chk(attrs, key, fallback); attrs is the argument, which the    *)
(* function has awaited already.                                           *)
(***************************************************************************)
Fallback(p) ==
  IF prog[p].b = None THEN Settle(p, Err("NixEvalError"))
  ELSE Await(p, prog[p].b, "last", {})

_lambdaA2chk(p) ==
  \/ /\ New(p, "a2chk")
     /\ LET v == st[prog[p].a].r.v
            x == v.at[prog[p].key]
        IN \/ v = Undefined /\ Settle(p, Err(Absent))
           \/ v # Undefined /\ x = None /\ Fallback(p)
           \/ x # None /\ Await(p, x, "first", {})
  \/ /\ Resumed(p, "a2chk", "first") /\ Got(p).ok
     /\ IF Got(p).v = Undefined THEN Fallback(p) ELSE Settle(p, Got(p))

(* Mutant: tryEval answers every error. *)
tryEvalAny(p) ==
  /\ Resumed(p, "tryEval", "first")
  /\ Settle(p, IF Got(p).ok THEN Ok(Atom("success")) ELSE Ok(Atom("failure")))

(* The result's value field is left out: only success is looked at. *)
tryEval(p) ==
  /\ Resumed(p, "tryEval", "first")
  /\ Settle(p, IF Got(p).ok THEN Ok(Atom("success"))
               ELSE IF Got(p).e = "NixEvalError" THEN Ok(Atom("failure"))
               ELSE Got(p))

(* `((await a).success)?b:c' *)
IfSuccess(p) ==
  /\ Resumed(p, "if", "first") /\ Got(p).ok
  /\ IF Got(p).v = Undefined THEN Settle(p, Err(Absent))
     ELSE Await(p, IF Got(p).v.k = "success" THEN prog[p].b ELSE prog[p].c, "last", {})

(* binop_helper with operator +; `left' is the type of the first operand. *)
BinOp(p) ==
  \/ /\ Resumed(p, "binop", "first") /\ Got(p).ok
     /\ st' = [Waiting(st, p, prog[p].b, "second") EXCEPT ![p].left = Got(p).v.k]
     /\ awaited' = awaited \cup {prog[p].b}
     /\ UNCHANGED <<prog, crashed>>
  \/ /\ Resumed(p, "binop", "second") /\ Got(p).ok
     /\ Settle(p, IF Got(p).v.k = st[p].left /\ st[p].left \in {"number", "string"}
                  THEN Ok(Atom(st[p].left)) ELSE Err("TypeError"))

(* `async arg=>{arg=await arg;let x=_lambdaA2chk(arg,..);..return body}' *)
CallPattern(p) ==
  /\ Resumed(p, "call", "first") /\ Got(p).ok
  /\ Await(p, prog[p].b, "last", prog[p].spawn)

----------------------------------------------------------------------------
Reaction(p) ==
  \/ Demand(p) \/ Constant(p) \/ BeginIo(p) \/ Begin(p) \/ Rethrow(p) \/ Return(p)
  \/ Select(p) \/ orDefault(p) \/ _lambdaA2chk(p) \/ tryEval(p) \/ IfSuccess(p)
  \/ BinOp(p) \/ CallPattern(p)

Ready(p) ==
  \/ st[p].ph = "new"
  \/ st[p].ph = "idle" /\ p \in awaited
  \/ st[p].ph = "wait" /\ Done(st[p].on)

Drained == \A p \in Prom : ~Ready(p)

Unhandled == {p \in Prom : Done(p) /\ ~st[p].r.ok /\ p \notin awaited}

(* readFile and the like: the outcome is the program's, the time is not. *)
IoDone(p) ==
  /\ st[p].ph = "io"
  /\ Drained /\ Unhandled = {}
  /\ Settle(p, prog[p].r)

(* unhandledRejection: Node ends the process (since version 15). *)
HostAborts ==
  /\ Drained /\ Unhandled # {}
  /\ crashed' = TRUE
  /\ UNCHANGED <<prog, st, awaited>>

Init ==
  /\ prog \in Programs
  /\ st = [p \in Prom |-> IF p = Main THEN [Idle EXCEPT !.ph = "new"] ELSE Idle]
  /\ awaited = {Main}
  /\ crashed = FALSE

Next ==
  /\ ~crashed
  /\ \/ \E p \in Prom : Reaction(p)
     \/ \E p \in Prom : IoDone(p)
     \/ HostAborts

(* The event loop runs everything that is due, and input/output completes. *)
Spec == Init /\ [][Next]_vars /\ WF_vars(Next)
=============================================================================
