-------------------------- MODULE TranslateProps ----------------------------
(***************************************************************************)
(* What the translator must guarantee: its own bookkeeping (the stack of   *)
(* names, the depth of `with', its assertions), and the shape of the       *)
(* JavaScript it emits, read off the tokens of acc.                        *)
(***************************************************************************)
EXTENDS Translate

(* No call is ever made with laziness already "Did": see BlockAfterArrow. *)
Ctx == {s \in StackCtx : s.lazy_st # "Did"}

KvItem ==
  {i \in [t : {"kv"}, entry : Entry, scope : Scopes] :
     i.scope = NO_SCOPE => /\ i.entry.key # <<>>
                           /\ i.entry.key[1].k = "Ident"
                           /\ i.entry.value # None}

Item ==
  Token
  \cup [t : {"node"}, node : NodeOpt, sctx : Ctx]
  \cup [t : {"ident"}, id : NameSet, sctx : Ctx]
  \cup [t : {"key"}, node : NodeOpt]
  \cup [t : {"part"}, node : {n \in Node : n.k \in {"Literal", "StrInterpol"}}]
  \cup [t : {"formal"}, formal : PatEntry]
  \cup KvItem
  \cup [t : {"inh", "propinh"}, inh : Inherits]
  \cup [t : {"inhid", "thenid"}, id : NameSet]
  \cup [t : {"keys"}, keys : SUBSET NameSet, categ : IdentCateg]
  \cup [t : {"trunc"}, len : Nat]
  \cup [t : {"unwith"}, d : Nat]

(* Types, and the contexts that calls are made with. *)
TypeOK ==
  /\ prog \in Programs
  /\ status \in {"parsed", "running", "done", "err", "panic"}
  /\ todo \in Seq(Item)
  /\ vars \in Seq([n : NameSet \cup {DFL_VARS[j].n : j \in DOMAIN DFL_VARS},
                 c : IdentCateg])
  /\ with_stack \in Nat
  /\ acc \in Seq(Token)

----------------------------------------------------------------------------
(***************************************************************************)
(* AssertsHold: whenever a handler is about to restore vars, vars has not  *)
(* shrunk below the length the handler saved, so none of the assert!s of   *)
(* translate_let and Lambda can fire; and the saved lengths of the calls   *)
(* on the stack are nested, so every truncation ends that call's frame and *)
(* no other.                                                               *)
(***************************************************************************)
IsTrunc(j) == todo[j].t = "trunc"

AssertsHold ==
  /\ \A j \in DOMAIN todo : IsTrunc(j) => todo[j].len <= Len(vars)
  /\ \A i, j \in DOMAIN todo :
       i < j /\ IsTrunc(i) /\ IsTrunc(j) => todo[j].len <= todo[i].len

(***************************************************************************)
(* BuiltinsKept: the initial entries of vars stay where translate() put    *)
(* them, whatever is pushed and truncated above them.                      *)
(***************************************************************************)
BuiltinsKept ==
  /\ Len(vars) >= Len(DFL_VARS)
  /\ \A j \in 1 .. Len(DFL_VARS) : vars[j] = DFL_VARS[j]

(***************************************************************************)
(* FramesRestored: a translation that returns leaves no name registered    *)
(* and no `with' counted (the code has a FIXME to use a guard for this).   *)
(***************************************************************************)
FramesRestored ==
  status = "done" => vars = DFL_VARS /\ with_stack = 0

(***************************************************************************)
(* WithNested: with_stack is what the innermost open `with' saved, plus    *)
(* one, and 0 outside any: the decrement never goes below zero, and no     *)
(* identifier is taken for a `with' variable outside a `with'.             *)
(***************************************************************************)
IsUnwith(j) == todo[j].t = "unwith"

WithNested ==
  status = "running" =>
    /\ (\A j \in DOMAIN todo : ~IsUnwith(j)) => with_stack = 0
    /\ \A j \in DOMAIN todo :
         IsUnwith(j) /\ (\A i \in 1 .. (j - 1) : ~IsUnwith(i))
           => with_stack = todo[j].d + 1

----------------------------------------------------------------------------
(***************************************************************************)
(* BlockAfterArrow: `{let ..}' and `{await ..}' are function bodies, never *)
(* object literals: each follows the `=>' of a PLazy wrapper directly (the *)
(* implementation detail of lazyness_incoming that Assert relies on).      *)
(***************************************************************************)
BlockAfterArrow ==
  \A j \in DOMAIN acc :
    acc[j] = Open("block", "") => j > 1 /\ acc[j - 1] = Open("lazy", "")

(***************************************************************************)
(* StrictUseAwaited: where the emitted code uses a value at once (callee,  *)
(* condition, operand of a selection, interpolation, key), the value is no *)
(* promise: the expression begins with `(await ' or cannot be a promise.   *)
(* UsesAwaitedButForGaps excepts the kinds of node that ignore the context *)
(* they are called with: a unary operator, a `with', a path, and a let     *)
(* with variables.                                                         *)
(***************************************************************************)
NeverPromise == {"await", "lambda", "obj", "list", "str", "isset", "bsel"}
IgnoreContext == {"unop", "with"}

AwaitedAt(j) ==
  \/ acc[j].t = "open" /\ acc[j].x \in NeverPromise
  \/ acc[j].t = "lit" /\ acc[j].x # "export"

StrictUseAwaited ==
  \A j \in DOMAIN acc :
    j > 1 /\ acc[j - 1] = Open("use", "") => AwaitedAt(j)

UsesAwaitedButForGaps ==
  \A j \in DOMAIN acc :
    j > 1 /\ j < Len(acc) /\ acc[j - 1] = Open("use", "") =>
      \/ AwaitedAt(j)
      \/ acc[j].t = "open" /\ acc[j].x \in IgnoreContext
      \/ acc[j] = Open("lazy", "") /\ acc[j + 1] = Open("block", "")
      \/ acc[j].t = "lit" /\ acc[j].x = "export"

----------------------------------------------------------------------------
(***************************************************************************)
(* The nesting of the emitted code: the j-th element of Enclosing is the   *)
(* sequence of the brackets (their positions in acc) open before token j.  *)
(***************************************************************************)
Enclosing ==
  LET upto[j \in 0 .. Len(acc)] ==
        IF j = 0 THEN << <<>> >>
        ELSE LET before == upto[j - 1]
                 open == before[j]
             IN Append(before,
                  IF acc[j].t = "open" THEN Append(open, j)
                  ELSE IF acc[j].t = "close" THEN SubSeq(open, 1, Len(open) - 1)
                  ELSE open)
  IN upto[Len(acc)]

Around(open, j) == {open[j][i] : i \in DOMAIN open[j]}

Innermost(open, j) == IF open[j] = <<>> THEN 0 ELSE open[j][Len(open[j])]

(* The JavaScript functions whose body may contain await. *)
AsyncFns == {"lazy", "lambda", "with", NIX_IN_SCOPE, ATTRS_SCOPE}

(***************************************************************************)
(* Bracket b binds name v: a declaration directly in a function body or    *)
(* block, or an assignment directly in the function of a scope.            *)
(***************************************************************************)
Binds(open, b, v) ==
  \E j \in DOMAIN acc :
    /\ acc[j].v = v /\ Innermost(open, j) = b
    /\ \/ acc[b].x \in {"lambda", "block"} /\ acc[j].t = "decl"
       \/ acc[b].x = NIX_IN_SCOPE /\ acc[j].t = "open" /\ acc[j].x = "set"

BinderCateg(b) ==
  CASE acc[b].x = "lambda" -> "LambdaArg"
    [] acc[b].x = "block"  -> "LetLetVar"
    [] OTHER               -> "LetInScopeVar"

Binders(open, j, v) == {b \in Around(open, j) : Binds(open, b, v)}

Latest(B) == CHOOSE b \in B : \A c \in B : c <= b

(***************************************************************************)
(* Where JavaScript looks a name up.  A variable is found in the functions *)
(* and blocks that declare one of the same spelling, a key in the scopes   *)
(* that assign it or a dynamic key (the name ""), which may turn out to be *)
(* the same at run time.                                                   *)
(***************************************************************************)
Declaration(i) == acc[i].t = "decl"
Assignment(i) == acc[i].t = "open" /\ acc[i].x = "set"

Answers(open, b, c, v) ==
  \E i \in DOMAIN acc :
    /\ Innermost(open, i) = b
    /\ \/ /\ c \in {"LambdaArg", "LetLetVar"} /\ acc[b].x \in {"lambda", "block"}
          /\ Declaration(i) /\ JsName(c, acc[i].v) = JsName(c, v)
       \/ /\ c \in {"LetInScopeVar", "WithScopeVar"} /\ acc[b].x = NIX_IN_SCOPE
          /\ Assignment(i) /\ acc[i].v \in {v, ""}

Mangled(open, b, c, v) ==
  \E i \in DOMAIN acc :
    /\ Innermost(open, i) = b /\ Declaration(i)
    /\ acc[i].v # v /\ JsName(c, acc[i].v) = JsName(c, v)

Dynamic(open, b) ==
  \E i \in DOMAIN acc : Innermost(open, i) = b /\ Assignment(i) /\ acc[i].v = ""

(***************************************************************************)
(* ReadsReachTheirBinder: JavaScript's own scoping agrees with the table   *)
(* the translator looked the name up in.  Every variable is read the way   *)
(* the innermost enclosing binder of that name provides it; a builtin or a *)
(* `with' variable is read only where no binder of the emitted code hides  *)
(* it, the latter inside a `with'.  And nothing inside the binder answers  *)
(* JavaScript's lookup, with two exceptions: another name of the same      *)
(* spelling, and a dynamic key.                                            *)
(***************************************************************************)
ReadsReachTheirBinder ==
  status = "done" =>
    LET open == Enclosing
    IN \A j \in DOMAIN acc :
         LET v == acc[j].v
             B == Binders(open, j, v)
         IN /\ acc[j].t = "lit" /\ acc[j].x = "builtin" => B = {}
            /\ acc[j].t = "read" =>
                 /\ IF acc[j].x = "WithScopeVar"
                    THEN B = {} /\ \E b \in Around(open, j) : acc[b].x = "with"
                    ELSE B # {} /\ acc[j].x = BinderCateg(Latest(B))
                 /\ \A b \in Around(open, j) :
                      Answers(open, b, acc[j].x, v) =>
                        \/ B # {} /\ b <= Latest(B)
                        \/ Mangled(open, b, acc[j].x, v) \/ Dynamic(open, b)

(***************************************************************************)
(* AwaitInAsyncButForGaps: `await' occurs in async functions only;         *)
(* anywhere else the emitted code does not parse.  Excepted is what the    *)
(* handlers that emit no wrapper of their own contain: `?', the namespace  *)
(* of a `with', unary operators and selections from builtins.              *)
(***************************************************************************)
OutsideAsync(open, j) ==
  /\ acc[j].t = "open" /\ acc[j].x = "await"
  /\ \A b \in Around(open, j) : acc[b].x \notin AsyncFns

AwaitInAsyncButForGaps ==
  status = "done" =>
    LET open == Enclosing
    IN \A j \in DOMAIN acc :
         OutsideAsync(open, j) =>
           \E b \in Around(open, j) : acc[b].x \in {"isset", "ns", "unop", "bsel"}

(***************************************************************************)
(* The PLazy (or function) at i is deferred unless it is the value of a    *)
(* const nixInhRn that one of the next statements calls `.then' on, which  *)
(* starts it at once.                                                      *)
(***************************************************************************)
Delaying == {"lazy", "lambda"}

Started(open, i) ==
  /\ acc[i].x = "lazy" /\ acc[i - 1].x = "const"
  /\ LET b == Innermost(open, i - 1)
     IN \E t \in DOMAIN acc :
          /\ t > i /\ acc[t].t = "lit" /\ acc[t].x = "then"
          /\ Innermost(open, Innermost(open, t)) = b
          /\ \A k \in i .. t : ~(acc[k] = Open("const", "") /\ Innermost(open, k) = b)

Deferred(open, i) == acc[i].x \in Delaying /\ ~Started(open, i)

(***************************************************************************)
(* EarlyReadsAreAliases: a name bound by a let, a recursive attrset or an  *)
(* argument pattern is read only after the statement that assigns it, or   *)
(* from code that is deferred where it stands (who awaits a deferred value *)
(* later is not followed).  Excepted are the values that are emitted       *)
(* without a wrapper: a plain identifier (an alias or an inherit),         *)
(* possibly inside attrset literals, `?', a unary operator, a `with', a    *)
(* selection from builtins, a dynamic key, a let or recursive attrset in   *)
(* the form of a scope function; the source of an inherit of several       *)
(* names, whose wrapper `.then' starts; and a let-variable given only by   *)
(* nested key paths, which is never assigned at all.                       *)
(***************************************************************************)
NeverAssigned(open, b, v) ==
  \A i \in DOMAIN acc : ~(acc[i] = Open("set", v) /\ Innermost(open, i) = b)

Assigned(open, b, v, j) ==
  \/ \E i \in 1 .. (j - 1) :
       acc[i] = Close("set", v) /\ Innermost(open, i + 1) = b
  \/ acc[b].x = "lambda" /\ NeverAssigned(open, b, v)

EarlyRead(open, j) ==
  /\ acc[j].t = "read" /\ acc[j].x # "WithScopeVar"
  /\ LET b == Latest(Binders(open, j, acc[j].v))
     IN /\ ~Assigned(open, b, acc[j].v, j)
        /\ \A i \in Around(open, j) : i > b => ~Deferred(open, i)

Unwrapped(i) ==
  \/ acc[i].x \in {"set", "obj", "const", "merge", ATTRS_SCOPE}
  \/ acc[i].x = "await" /\ acc[i + 1] = Open("merge", "")

EarlyReadsAreAliases ==
  status = "done" =>
    LET open == Enclosing
    IN \A j \in DOMAIN acc :
         EarlyRead(open, j) =>
           LET b == Latest(Binders(open, j, acc[j].v))
               W == {i \in Around(open, j) : i > b /\ ~Unwrapped(i)}
           IN \/ W = {}
              \/ acc[b].x = "block" /\ NeverAssigned(open, b, acc[j].v)
              \/ LET w == CHOOSE i \in W : \A k \in W : i <= k
                 IN \/ acc[w].x \in {"isset", "unop", "with", "ns", "bsel", "use", NIX_IN_SCOPE}
                    \/ Started(open, w)

----------------------------------------------------------------------------
(***************************************************************************)
(* Terminates: the translation of a finite program returns.                *)
(***************************************************************************)
Terminates == <>(status \in {"done", "err", "panic"})
=============================================================================
