---------------------------- MODULE MCTranslate -----------------------------
(***************************************************************************)
(* Programs for the translator: every construct of the language in every   *)
(* position of every other, over the leaves `a' and a number.              *)
(***************************************************************************)
EXTENDS TranslateProps, NixScoping

MCNames == <<"a", "a'_", "a-", "b", "body", "builtins", "import", "true">>

MCMangle == [i \in NameSet |-> IF i \in {"a'_", "a-"} THEN "a_$_" ELSE i]

Id(i)       == [k |-> "Ident", id |-> i]
A           == Id("a")
B           == Id("b")
Num         == [k |-> "Value", v |-> "number"]
PathVal     == [k |-> "Value", v |-> "path"]
App(f, x)   == [k |-> "Apply", lambda |-> f, value |-> x]
Ass(c, b)   == [k |-> "Assert", condition |-> c, body |-> b]
Bin(o, l, r) == [k |-> "BinOp", operator |-> o, lhs |-> l, rhs |-> r]
Dyn(e)      == [k |-> "Dynamic", inner |-> e]
Par(e)      == [k |-> "Paren", inner |-> e]
If(c, t, e) == [k |-> "IfElse", condition |-> c, body |-> t, else_body |-> e]
Lam(a, e)   == [k |-> "Lambda", arg |-> a, body |-> e]
Pat(at, fs) == [k |-> "Pattern", at |-> at, formals |-> fs]
Fm(i, d)    == [name |-> i, default |-> d]
Lst(es)     == [k |-> "List", items |-> es]
Sel(s, i)   == [k |-> "Select", set |-> s, index |-> i]
OrD(i, d)   == [k |-> "OrDefault", index |-> i, default |-> d]
StrOf(ps)   == [k |-> "Str", parts |-> ps]
Part        == [k |-> "Literal"]
Interp(e)   == [k |-> "StrInterpol", inner |-> e]
Neg(e)      == [k |-> "UnaryOp", value |-> e]
Wth(n, e)   == [k |-> "With", namespace |-> n, body |-> e]
En(key, e)  == [key |-> key, value |-> e]
Ih(ids)     == [from |-> None, ids |-> ids]
IhF(f, ids) == [from |-> [k |-> "InheritFrom", inner |-> f], ids |-> ids]
Set(r, es, is) ==
  [k |-> "AttrSet", recursive |-> r, entries |-> es, inherits |-> is]
Let(es, is, e) ==
  [k |-> "LetIn", entries |-> es, inherits |-> is, body |-> e]
Legacy(es, is) == [k |-> "LegacyLet", entries |-> es, inherits |-> is]
Root(e)     == [k |-> "Root", inner |-> e]

----------------------------------------------------------------------------
(* e in the position of an operand of every construct, x being the others *)
Operand(e, x) ==
  <<App(e, Num), App(x, e), Ass(e, Num), Ass(x, e), Bin("Add", e, x),
   Bin("IsSet", e, B), Bin("IsSet", x, Dyn(e)), Par(e),
   If(e, x, Num), If(x, e, Num), Lst(<<e, x>>), Sel(e, B), Sel(x, Dyn(e)),
   Sel(Id("builtins"), Dyn(e)), OrD(Sel(e, B), x), OrD(Sel(x, B), e),
   StrOf(<<Part, Interp(e)>>), Neg(e), Wth(e, B), Wth(x, e)>>

(* e below or beside a binder *)
Scoped(e) ==
  <<Lam(A, e), Lam(Pat("", <<Fm("a", e), Fm("b", None)>>), e),
   Lam(Pat("b", <<Fm("a", None)>>), e),
   Let(<<En(<<A>>, e)>>, <<>>, e), Let(<<En(<<A>>, e), En(<<B>>, A)>>, <<>>, B),
   Let(<<En(<<A, B>>, e)>>, <<>>, A), Let(<<En(<<Dyn(e), B>>, A)>>, <<>>, B),
   Let(<<>>, <<Ih(<<"a">>)>>, e), Let(<<>>, <<IhF(e, <<"a", "b">>)>>, A),
   Let(<<En(<<B>>, e)>>, <<IhF(e, <<"a">>)>>, A), Let(<<>>, <<>>, e),
   Legacy(<<En(<<Id("body")>>, e), En(<<A>>, e)>>, <<>>),
   Set(FALSE, <<En(<<A>>, e), En(<<B>>, A)>>, <<Ih(<<"a">>)>>),
   Set(FALSE, <<En(<<A, B>>, e)>>, <<>>), Set(FALSE, <<En(<<Dyn(e)>>, e)>>, <<>>),
   Set(FALSE, <<>>, <<IhF(e, <<"b">>)>>),
   Set(TRUE, <<En(<<A>>, e), En(<<B>>, A)>>, <<>>),
   Set(TRUE, <<En(<<A, Dyn(e)>>, B)>>, <<Ih(<<"b">>)>>)>>

Around1(e) == Operand(e, A) \o Scoped(e)

Forms == DOMAIN Around1(A)
Atoms == {A, Num}
Level1 == {Around1(e)[i] : e \in Atoms, i \in Forms}
Level2 == {Around1(f)[i] : f \in Level1, i \in Forms}

(* docs/testset/fix.nix: f: let x = f x; in x *)
Fix == Lam(B, Let(<<En(<<A>>, App(B, A))>>, <<>>, A))

(* Two scopes that are siblings, and shadowing of a builtin. *)
Siblings ==
  {App(Lam(A, x), Lam(B, y)) : x \in {A, B}, y \in {A, B}}
  \cup {Lam(Id("true"), Id("true")), Wth(Set(FALSE, <<>>, <<>>), Wth(Num, A)),
        App(Wth(Num, A), A), App(Wth(Num, Num), Wth(Num, B)),
        StrOf(<<>>), StrOf(<<Part>>), Set(TRUE, <<>>, <<>>), PathVal,
        App(Id("import"), PathVal)}

(***************************************************************************)
(* a-: a'_: a-, the same with lets, two of the same spelling far apart,    *)
(* and a dynamic key in a scope inside the one that is meant.              *)
(***************************************************************************)
Quote == Id("a'_")
Dash  == Id("a-")
Text  == Dyn(StrOf(<<Part>>))
InnerScope == Set(TRUE, <<En(<<Text>>, Num), En(<<Id("body")>>, A)>>, <<>>)
Hidden ==
  {Lam(Dash, Lam(Quote, Dash)), Lam(Dash, Lam(Quote, Quote)),
   Let(<<En(<<Dash>>, Num)>>, <<>>, Lam(Quote, Dash)),
   Set(TRUE, <<En(<<A>>, Num), En(<<B>>, InnerScope)>>, <<>>),
   Wth(Num, InnerScope)}
HiddenParts ==
  {Quote, Dash, Text, Text.inner, InnerScope, Lam(Quote, Dash), Lam(Quote, Quote)}

(* Trees that a handler answers with Err or panics on. *)
Broken ==
  {[k |-> "PathWithInterpol"], [k |-> "Value", v |-> "inf"],
   [k |-> "Value", v |-> "badint"], Legacy(<<En(<<A>>, Num)>>, <<>>),
   App(Num, None), Bin("IsSet", Num, None), Bin("", Num, Num),
   Ass(None, Num), Lam(Num, Num), Lam(Pat("", <<Fm("", Num)>>), Num),
   Let(<<En(<<A>>, None)>>, <<>>, Num), Sel(None, A),
   Let(<<En(<<>>, A)>>, <<>>, Num), Let(<<>>, <<>>, None)}

ParseError == [k |-> "Error"]

(* Operands that are awaited, outside any function of the emitted code. *)
Imported == App(Id("import"), PathVal)
TopLevel == {Operand(Imported, Num)[i] : i \in 1 .. 20}

Tame == {Root(p) : p \in (Siblings \cup {Fix}) \cup (TopLevel \cup Hidden)}

Small == Tame \cup {Root(p) : p \in Broken \cup Level1} \cup {ParseError}

Large == {Root(Lam(A, Around1(f)[i])) : f \in Level1, i \in Forms}

MCPrograms == Large \cup Small

----------------------------------------------------------------------------
(* The children that are no operands themselves. *)
Pieces(e) ==
  <<Dyn(e), Interp(e), Sel(e, B), Pat("", <<Fm("a", e), Fm("b", None)>>), e>>

Inner == {p.inner : p \in MCPrograms \ {ParseError}}

Deep == Inner \cup MCPrograms

Pieced == {Pieces(e)[i] : e \in Atoms \cup (Level1 \cup {Imported}), i \in 1 .. 5}
  \cup {B, Id("true"), Id("builtins"), Id("import"), Id("body"), PathVal,
        Sel(A, B), Sel(Num, B), Part, Pat("b", <<Fm("a", None)>>), Pat("", <<Fm("", Num)>>),
        Lam(A, A), Lam(A, B), Lam(B, A), Lam(B, B), App(B, A), Fix.body,
        Set(FALSE, <<>>, <<>>), Wth(Num, A), Wth(Num, B), Wth(Num, Num)}

Levels == Level2 \cup (Pieced \cup HiddenParts)

MCNode == Deep \cup Levels
=============================================================================
