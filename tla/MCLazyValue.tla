---------------------------- MODULE MCLazyValue -----------------------------
(* Small programs over seven promises; promise 1 is the main one. *)
EXTENDS LazyProps

P == 1 .. 7
K == {"x"}

Obj(q) == [k |-> "object", at |-> [x \in K |-> q]]

Blank == [op |-> "const", a |-> 0, b |-> 0, c |-> 0, key |-> "x",
          r |-> [ok |-> TRUE, v |-> [k |-> "number", at |-> [x \in K |-> 0]], e |-> ""],
          spawn |-> {}, within |-> {}]

Lf(o, r)    == [Blank EXCEPT !.op = o, !.r = r]
Do(o, a, b) == [Blank EXCEPT !.op = o, !.a = a, !.b = b]
Eager(c, Q) == [c EXCEPT !.spawn = Q]
Inner(c)    == [c EXCEPT !.within = {1}]

Num == Lf("const", Ok(Atom("number")))
Str == Lf("io", Ok(Atom("string")))
Throws(o) == Lf(o, Err("NixEvalError"))

Leaves == {Num, Str, Lf("io", Ok(Atom("number"))), Throws("const"), Throws("io"),
           Lf("const", Err("TypeError"))}

Sets(q) == {Lf(o, Ok(Obj(i))) : o \in {"const", "io"}, i \in {0, q}}
             \cup {Lf("const", Ok(Undefined)), Throws("const")}

(* `s.x or d', the attribute itself a selection from another set; also `+' *)
(* and a condition, which may be undefined                                 *)
Selections ==
  {[p \in P |-> CASE p = 1 -> main [] p = 2 -> Do("get", 4, 0) [] p = 3 -> dfl
                  [] p = 4 -> s [] p = 5 -> inner [] p = 6 -> t [] p = 7 -> Num] :
     main \in {Do("orDefault", 2, 3), Do("binop", 2, 3), [Do("if", 2, 3) EXCEPT !.c = 7]},
     dfl \in Leaves, s \in Sets(5),
     inner \in Leaves \cup {Do("get", 6, 0), Do("get", 4, 0)}, t \in Sets(7)}

(* `tryEval (l + (m + n))' in any grouping, operands called or lazy *)
Sums ==
  {[p \in P |-> CASE p = 1 -> main [] p = 2 -> Eager(Do("binop", 3, 4), e) [] p = 3 -> l
                  [] p = 4 -> Eager(Do("binop", 5, 6), f) [] p = 5 -> m [] p = 6 -> n
                  [] p = 7 -> Num] :
     main \in {Do("tryEval", 2, 0), Do("orDefault", 2, 7)},
     e \in SUBSET {3, 4}, f \in {{}, {5, 6}}, l \in Leaves, m \in Leaves, n \in Leaves}

(* `({x ? d}: body) s', the formal read, unread, or guarded by tryEval *)
Calls ==
  {[p \in P |-> CASE p = 1 -> Eager(Do("call", 2, 3), {4}) [] p = 2 -> s [] p = 3 -> Inner(body)
                  [] p = 4 -> Inner(Do("a2chk", 2, dfl)) [] p = 5 -> arg [] p = 6 -> Inner(d)
                  [] p = 7 -> Inner(Do("tryEval", 4, 0))] :
     s \in Sets(5), dfl \in {0, 6}, arg \in Leaves \cup {Do("get", 2, 0), Lf("const", Ok(Undefined))},
     d \in Leaves,
     body \in {Num, Str, Do("binop", 4, 4), Do("get", 4, 0), Do("tryEval", 4, 0),
               [Do("if", 7, 4) EXCEPT !.c = 6]}}

MCPrograms == Selections \cup Sums \cup Calls
=============================================================================
