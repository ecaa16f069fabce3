----------------------------- MODULE NixScoping -----------------------------
(***************************************************************************)
(* The reference the translator is compared with: which programs are well  *)
(* scoped, by recursion over the syntax tree, with no table of names and   *)
(* no order of visits.  A program is accepted when every handler finds its *)
(* children and every identifier is bound around it, or stands below a     *)
(* `with'.  The keys of a let and of a recursive attrset are visible in    *)
(* all of its values, inherited names included (the code's reading of      *)
(* inherit, where Nix would look outside).                                 *)
(***************************************************************************)
EXTENDS Translate

RECURSIVE WellScoped(_, _, _)
WellScoped(n, env, inWith) ==
  LET ok(c) == WellScoped(c, env, inWith)
      key(c) == c.k = "Ident" \/ ok(c)
      keyIn(c, names) == c.k = "Ident" \/ WellScoped(c, env \cup names, inWith)
      bound(i, names) == i \in env \cup names \/ inWith
      \* the entries and inherits of n, `names' being visible in them
      bindings(names) ==
        /\ \A j \in DOMAIN n.entries :
             /\ n.entries[j].key # <<>>
             /\ \A i \in DOMAIN n.entries[j].key : keyIn(n.entries[j].key[i], names)
             /\ WellScoped(n.entries[j].value, env \cup names, inWith)
        /\ \A j \in DOMAIN n.inherits :
             LET h == n.inherits[j]
             IN IF h.from = None
                THEN \A i \in DOMAIN h.ids : bound(h.ids[i], names)
                ELSE WellScoped(h.from.inner, env \cup names, inWith)
  IN /\ ~Malformed(n)
     /\ CASE n.k = "Ident"   -> bound(n.id, {})
          [] n.k = "Apply"   -> ok(n.lambda) /\ ok(n.value)
          [] n.k = "Assert"  -> ok(n.condition) /\ ok(n.body)
          [] n.k = "BinOp"   -> ok(n.lhs) /\ (IF n.operator = "IsSet" THEN key(n.rhs)
                                              ELSE ok(n.rhs))
          [] n.k \in {"Dynamic", "Paren", "Root", "StrInterpol"} -> ok(n.inner)
          [] n.k = "IfElse"  -> ok(n.condition) /\ ok(n.body) /\ ok(n.else_body)
          [] n.k = "List"    -> \A j \in DOMAIN n.items : ok(n.items[j])
          [] n.k = "Select"  -> ok(n.set) /\ key(n.index)
          [] n.k = "OrDefault" -> ok(n.index) /\ ok(n.default)
          [] n.k = "Str"     -> \A j \in DOMAIN n.parts : ok(n.parts[j])
          [] n.k = "UnaryOp" -> ok(n.value)
          [] n.k = "With"    -> ok(n.namespace) /\ WellScoped(n.body, env, TRUE)
          [] n.k = "Lambda"  ->
               LET p == n.arg
                   names == IF p.k = "Ident" THEN {p.id}
                            ELSE {p.at} \cup {p.formals[j].name : j \in DOMAIN p.formals}
                   inside(c) == WellScoped(c, env \cup names, inWith)
               IN /\ inside(n.body)
                  /\ p.k = "Pattern" => \A j \in DOMAIN p.formals :
                       p.formals[j].default = None \/ inside(p.formals[j].default)
          [] n.k = "AttrSet" -> bindings(IF n.recursive THEN getkeys(n) ELSE {})
          [] n.k = "LegacyLet" -> bindings(getkeys(n))
          [] n.k = "LetIn"   -> /\ bindings(getkeys(n))
                                /\ WellScoped(n.body, env \cup getkeys(n), inWith)
          [] OTHER           -> n.k # "Error"

(***************************************************************************)
(* AcceptsWellScoped: translate() succeeds on the well scoped programs and *)
(* on no other: no name outlives its scope in vars, none is lost early, a  *)
(* `with' is counted exactly while its body is translated.                 *)
(***************************************************************************)
AcceptsWellScoped ==
  status \in {"done", "err"} =>
    (status = "done" <=>
       WellScoped(prog, {DFL_VARS[j].n : j \in DOMAIN DFL_VARS}, FALSE))
=============================================================================
