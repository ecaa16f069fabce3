----------------------------- MODULE LazyProps ------------------------------
(***************************************************************************)
(* What the promises of LazyValue must compute.  The reference evaluates   *)
(* by need and has no order, no phases and no host: the outcome of a       *)
(* promise is a function of the outcomes of the promises it uses.          *)
(***************************************************************************)
EXTENDS LazyValue, FiniteSets

ASSUME FiniteAssumption == IsFiniteSet(Prom)

Loop == [ok |-> FALSE, v |-> Undefined, e |-> "loop"]

Then(r, s) == IF r.ok THEN s ELSE r

Present(r, key) == r.ok /\ r.v.at[key] # None

Plus(x, y) ==
  IF x.v.k = y.v.k /\ x.v.k \in {"number", "string"} THEN Ok(Atom(x.v.k)) ELSE Err("TypeError")

(* The outcome of code c when V gives the outcomes of what it uses. *)
Meaning(c, V) ==
  LET first == V[c.a]
      field == IF first.v = Undefined THEN Err(Absent)
               ELSE IF Present(first, c.key) THEN V[first.v.at[c.key]] ELSE Ok(Undefined)
  IN CASE c.op \in {"const", "io"} -> c.r
       [] c.op = "get"       -> Then(first, field)
       [] c.op = "orDefault" -> IF first \in {Err(Absent), Ok(Undefined)} THEN V[c.b] ELSE first
       [] c.op = "a2chk"     -> Then(first, IF field # Ok(Undefined) THEN field
                                            ELSE IF c.b = None THEN Err("NixEvalError") ELSE V[c.b])
       [] c.op = "tryEval"   -> IF first.ok THEN Ok(Atom("success"))
                                ELSE IF first.e = "NixEvalError" THEN Ok(Atom("failure")) ELSE first
       [] c.op = "if"        -> Then(first, IF first.v = Undefined THEN Err(Absent)
                                            ELSE IF first.v.k = "success" THEN V[c.b] ELSE V[c.c])
       [] c.op = "binop"     -> Then(first, LET second == V[c.b] IN Then(second, Plus(first, second)))
       [] c.op = "call"      -> Then(first, V[c.b])

(* A promise that needs itself has no outcome: no chain of uses without a  *)
(* repetition is longer than the number of promises.                       *)
Improved(pr, V) == [p \in Prom |-> Meaning(pr[p], V)]

Approximations(pr) ==
  LET D[n \in 0 .. Cardinality(Prom)] ==
        IF n = 0 THEN [p \in Prom |-> Loop] ELSE Improved(pr, D[n - 1])
  IN D

Outcomes(pr) == Approximations(pr)[Cardinality(Prom)]

Den == Outcomes(prog)

(* The promises that code c awaits, or starts, when D gives the outcomes. *)
Uses(c, D) ==
  LET first == D[c.a]
      attr  == IF Present(first, c.key) THEN {first.v.at[c.key]} ELSE {}
      gone  == first.v # Undefined /\ \A q \in attr : D[q] = Ok(Undefined)
  IN CASE c.op \in {"const", "io"} -> {}
       [] c.op = "get"       -> {c.a} \cup attr
       [] c.op = "orDefault" -> {c.a} \cup IF first \in {Err(Absent), Ok(Undefined)} THEN {c.b} ELSE {}
       [] c.op = "a2chk"     -> attr \cup IF gone THEN {c.b} \ {None} ELSE {}
       [] c.op = "tryEval"   -> {c.a}
       [] c.op = "if"        -> {c.a} \cup IF ~first.ok \/ first.v = Undefined THEN {}
                                           ELSE IF first.v.k = "success" THEN {c.b} ELSE {c.c}
       [] c.op = "binop"     -> {c.a} \cup c.spawn \cup IF first.ok THEN {c.b} ELSE {}
       [] c.op = "call"      -> {c.a} \cup IF first.ok THEN {c.b} \cup c.spawn ELSE {}

Spread(pr, D, S) == S \cup UNION {Uses(pr[p], D) : p \in S}

Reached(pr, D) ==
  LET N[n \in 0 .. Cardinality(Prom)] ==
        IF n = 0 THEN {Main} ELSE Spread(pr, D, N[n - 1])
  IN N

Needed == Reached(prog, Den)[Cardinality(Prom)]

----------------------------------------------------------------------------

(***************************************************************************)
(* However awaits, starts and completions interleave, every promise that   *)
(* settles does so with the value or the error of evaluation by need,      *)
(* which has the code's own catches: tryEval answers for Nix's own errors  *)
(* only (index.ts 809), orDefault for every TypeError that says "Cannot    *)
(* read properties of undefined" (index.ts 180), be it of the selection or *)
(* of the evaluation of an attribute that is there.                        *)
(***************************************************************************)
ByNeed == \A p \in Prom : Done(p) => st[p].r = Den[p]

(***************************************************************************)
(* Nothing runs that by-need evaluation, extended with the calls emitted   *)
(* as operands and formals, does not use: a default, a fallback, the other *)
(* branch, an attribute nobody selected stay untouched (PLazy).            *)
(***************************************************************************)
OnlyNeededStarted == {p \in Prom : st[p].ph # "idle"} \subseteq Needed

(***************************************************************************)
(* The host ends the process only for an operand that was called while the *)
(* one before it is still awaited or has failed, or for a formal of a      *)
(* pattern: an error behind a PLazy never does (lib.rs 761, index.ts 205). *)
(***************************************************************************)
CrashExplained ==
  crashed => \A q \in Unhandled : \E p \in Prom :
    /\ q \in prog[p].spawn
    /\ \/ prog[p].op = "call"
       \/ prog[p].op = "binop" /\ q = prog[p].b
          /\ (st[p].ph = "wait" \/ Den[prog[p].a].ok = FALSE)

(***************************************************************************)
(* A program whose value does not depend on itself is answered, with its   *)
(* value or its error, unless the host ends the process.                   *)
(***************************************************************************)
Answered == (Den[Main] # Loop) ~> (Done(Main) \/ crashed)
=============================================================================
