----------------------------- MODULE Translate ------------------------------
(***************************************************************************)
(* The Nix to JavaScript translator (lib.rs), one translate_node handler   *)
(* per action.  The recursion of the Rust code is a stack of work: `todo'  *)
(* holds, first to last, what the running calls have still to push, call   *)
(* or restore.  A handler replaces its own call by its template.           *)
(*                                                                         *)
(* Kept: every push that opens, closes, reads, declares or assigns, every  *)
(* change of `vars' and `with_stack', every early return, every assert.    *)
(* Left out: wording of the output, commas, and the source map calls,      *)
(* which read acc and write only names, mappings and the lp_ positions.    *)
(***************************************************************************)
EXTENDS Lazyness, Naturals

CONSTANTS
  Node,      \* the syntax nodes, closed under children
  Programs,  \* the nodes rnix may hand to translate()
  Names,     \* every identifier of the programs, in alphabetical order
  Mangle     \* the spelling of an identifier as a JavaScript variable

None == [k |-> "None"]             \* an absent child (Option::None)
ExtractScope == [k |-> "ExtractScope"]
NodeOpt == Node \cup {None}
NameSet == {Names[j] : j \in DOMAIN Names}

IdentCateg == {"Literal", "AlBuiltin", "LambdaArg", "LetLetVar",
               "LetInScopeVar", "WithScopeVar"}

(***************************************************************************)
(* The initial variables, one representative of each kind of entry.        *)
(***************************************************************************)
DFL_VARS == <<[n |-> "builtins", c |-> "Literal"],
              [n |-> "import",   c |-> "AlBuiltin"],
              [n |-> "true",     c |-> "Literal"]>>

Entry   == [key : Seq(Node), value : NodeOpt]
Inherits == [from : {None} \cup [k : {"InheritFrom"}, inner : NodeOpt],
             ids  : Seq(NameSet)]
PatEntry == [name : NameSet \cup {""}, default : NodeOpt]

(***************************************************************************)
(* The accessors of the typed syntax tree, per kind of node.               *)
(***************************************************************************)
NodeShape(n) ==
  /\ n.k = "Apply"     => n.lambda \in NodeOpt /\ n.value \in NodeOpt
  /\ n.k = "Assert"    => n.condition \in NodeOpt /\ n.body \in NodeOpt
  /\ n.k = "AttrSet"   => n.recursive \in BOOLEAN
  /\ n.k \in {"AttrSet", "LetIn", "LegacyLet"} =>
       n.entries \in Seq(Entry) /\ n.inherits \in Seq(Inherits)
  /\ n.k = "LetIn"     => n.body \in NodeOpt
  /\ n.k = "BinOp"     => /\ n.operator \in STRING
                          /\ n.lhs \in NodeOpt /\ n.rhs \in NodeOpt
  /\ n.k \in {"Dynamic", "Paren", "Root", "StrInterpol"} => n.inner \in NodeOpt
  /\ n.k = "Ident"     => n.id \in NameSet
  /\ n.k = "IfElse"    => /\ n.condition \in NodeOpt
                          /\ n.body \in NodeOpt /\ n.else_body \in NodeOpt
  /\ n.k = "Lambda"    => n.arg \in NodeOpt /\ n.body \in NodeOpt
  /\ n.k = "Pattern"   => /\ n.at \in NameSet \cup {""}
                          /\ n.formals \in Seq(PatEntry)
  /\ n.k = "List"      => n.items \in Seq(Node)
  /\ n.k = "OrDefault" => n.index \in NodeOpt /\ n.default \in NodeOpt
  /\ n.k = "Select"    => n.set \in NodeOpt /\ n.index \in NodeOpt
  /\ n.k = "Str"       =>
       n.parts \in Seq({p \in Node : p.k \in {"Literal", "StrInterpol"}})
  /\ n.k = "UnaryOp"   => n.value \in NodeOpt
  /\ n.k = "Value"     => n.v \in {"number", "path", "badint", "inf"}
  /\ n.k = "With"      => n.namespace \in NodeOpt /\ n.body \in NodeOpt

ASSUME NodesAssumption ==
  /\ Programs \subseteq Node
  /\ Names \in Seq(STRING) /\ "" \notin NameSet
  /\ \A n \in Node : n.k # "None" /\ NodeShape(n)

(* `-' becomes `_$_' and a quote `_$': two identifiers may be spelled alike. *)
ASSUME MangleAssumption == Mangle \in [NameSet -> STRING]

VARIABLES
  prog,        \* the program, fixed by the first step of translate()
  status,      \* "parsed", "running", "done", or "err" / "panic"
  todo,        \* what the calls on the stack have still to do
  vars,        \* Context.vars: the names in scope and how to reach them
  with_stack,  \* Context.with_stack
  acc          \* Context.acc: the JavaScript emitted so far

allvars == <<prog, status, todo, vars, with_stack, acc>>

----------------------------------------------------------------------------
(***************************************************************************)
(* The elements of `todo'.  A token is pushed to acc as it is; the others  *)
(* are calls, and what their callers do after they return.                 *)
(***************************************************************************)
Read(c, v) == [t |-> "read", x |-> c, v |-> v]
Decl(v)    == [t |-> "decl", x |-> "", v |-> v]
Lit(x, v)  == [t |-> "lit",  x |-> x, v |-> v]

Sub(n, s)      == [t |-> "node",   node |-> n, sctx |-> s]
IdentRef(i, s) == [t |-> "ident",  id |-> i, sctx |-> s]
KeyEl(n)       == [t |-> "key",    node |-> n]
StrPart(n)     == [t |-> "part",   node |-> n]
Formal(f)      == [t |-> "formal", formal |-> f]
Kv(e, scope)   == [t |-> "kv",     entry |-> e, scope |-> scope]
Inh(h)         == [t |-> "inh",    inh |-> h]
InhId(i)       == [t |-> "inhid",  id |-> i]
ThenId(i)      == [t |-> "thenid", id |-> i]
PropInh(h)     == [t |-> "propinh", inh |-> h]
Keys(ks, c)    == [t |-> "keys",   keys |-> ks, categ |-> c]
Truncate(m)    == [t |-> "trunc",  len |-> m]
Unwith(d)      == [t |-> "unwith", d |-> d]   \* d: with_stack at entry

WN == mksctx("Want", "Nothing")
NN == mksctx("Nothing", "Nothing")
NW == mksctx("Nothing", "Want")

NIX_IN_SCOPE == "nixInScope"
ATTRS_SCOPE  == "nixAttrsScope"
NO_SCOPE     == "let"              \* scope: None, the keys are let-variables
Scopes == {NIX_IN_SCOPE, ATTRS_SCOPE, NO_SCOPE}

TokenKinds == {"open", "close", "read", "decl", "lit"}
Constructs ==
  {"await", "lazy", "lambda", "block", "call", "merge", "use", "set", "const",
   "isset", "if", "obj", "list", "str", "sel", "bsel", "unop", "with", "ns"}
  \cup Scopes
Leaves == {"builtin", "str", "number", "export", "extract", "empty", "then"}
Token == [t : TokenKinds, x : Constructs \cup Leaves \cup IdentCateg \cup {""},
          v : NameSet \cup {""}]

(***************************************************************************)
(* resolve_ident: the last entry of vars with that name; failing that, a   *)
(* variable of the enclosing `with', if there is one.                      *)
(***************************************************************************)
Bound(id) == \E j \in DOMAIN vars : vars[j].n = id

(* Mutant: the first entry wins, an outer binding hides the inner one. *)
resolve_ident_first(id) ==
  IF Bound(id)
  THEN vars[CHOOSE j \in DOMAIN vars :
              /\ vars[j].n = id
              /\ \A i \in DOMAIN vars : i < j => vars[i].n # id].c
  ELSE IF with_stack > 0 THEN "WithScopeVar" ELSE "Err"

(* Mutant: an unknown name is taken for a variable of a `with' anywhere. *)
resolve_ident_any(id) ==
  IF Bound(id)
  THEN vars[CHOOSE j \in DOMAIN vars :
              /\ vars[j].n = id
              /\ \A i \in DOMAIN vars : i > j => vars[i].n # id].c
  ELSE IF with_stack >= 0 THEN "WithScopeVar" ELSE "Err"

resolve_ident(id) ==
  IF Bound(id)
  THEN vars[CHOOSE j \in DOMAIN vars :
              /\ vars[j].n = id
              /\ \A i \in DOMAIN vars : i > j => vars[i].n # id].c
  ELSE IF with_stack > 0 THEN "WithScopeVar" ELSE "Err"

Wellknown(n) ==
  n.k = "Ident" /\ resolve_ident(n.id) \in {"Literal", "AlBuiltin"}

(***************************************************************************)
(* getkeys: the first path elements that are identifiers, and all the      *)
(* inherited names; the set, since the code sorts and removes duplicates.  *)
(***************************************************************************)
getkeys(n) ==
  {i \in NameSet :
     \/ \E j \in DOMAIN n.entries :
          LET key == n.entries[j].key
          IN key # <<>> /\ key[1].k = "Ident" /\ key[1].id = i
     \/ \E j \in DOMAIN n.inherits :
          \E m \in DOMAIN n.inherits[j].ids : n.inherits[j].ids[m] = i}

----------------------------------------------------------------------------
(***************************************************************************)
(* Steps of the work stack.                                                *)
(***************************************************************************)
Running(t) == status = "running" /\ todo # <<>> /\ Head(todo).t = t

(***************************************************************************)
(* The nodes a handler answers with Err: an absent child (rtv), a legacy   *)
(* let without body, a lambda without a usable argument, a value that      *)
(* does not deserialize.                                                   *)
(***************************************************************************)
IsBody(e) == Len(e.key) = 1 /\ e.key[1].k = "Ident" /\ e.key[1].id = "body"

BodyEntry(n, j) ==
  IsBody(n.entries[j]) /\ \A i \in 1 .. (j - 1) : ~IsBody(n.entries[i])

BadArg(arg) ==
  \/ arg.k \notin {"Ident", "Pattern"}
  \/ arg.k = "Pattern" /\ \E j \in DOMAIN arg.formals : arg.formals[j].name = ""

Malformed(n) ==
  \/ n.k = "None"
  \/ n.k = "Assert" /\ n.condition = None
  \/ n.k = "BinOp"  /\ n.operator = ""
  \/ n.k = "Lambda" /\ BadArg(n.arg)
  \/ n.k = "LetIn"  /\ n.body = None
  \/ n.k = "LegacyLet" /\ ~\E j \in DOMAIN n.entries :
                              BodyEntry(n, j) /\ n.entries[j].value # None
  \/ n.k = "Select" /\ (n.set = None \/ n.index = None)
  \/ n.k = "Value"  /\ n.v = "badint"

(* The unreachable!() kinds, and the float serde_json cannot represent. *)
Panics(n) ==
  \/ n.k \in {"Error", "Key", "KeyValue", "PathWithInterpol", "Pattern",
              "PatBind", "PatEntry"}
  \/ n.k = "Value" /\ n.v = "inf"

Visit(kind) ==
  Running("node") /\ Head(todo).node.k = kind /\ ~Malformed(Head(todo).node)

Replace(T) ==
  /\ todo' = T \o Tail(todo)
  /\ UNCHANGED <<prog, status, vars, with_stack, acc>>

Abort(s) ==
  /\ status' = s
  /\ todo' = <<>>
  /\ UNCHANGED <<prog, vars, with_stack, acc>>

(* Context.push: one token of the output. *)
Push ==
  /\ status = "running" /\ todo # <<>> /\ Head(todo).t \in TokenKinds
  /\ acc' = Append(acc, Head(todo))
  /\ todo' = Tail(todo)
  /\ UNCHANGED <<prog, status, vars, with_stack>>

Fail ==
  \/ Running("node") /\ Malformed(Head(todo).node) /\ Abort("err")
  \/ Running("ident") /\ resolve_ident(Head(todo).id) = "Err" /\ Abort("err")
  \/ Running("key") /\ Head(todo).node = None /\ Abort("err")

Panic == Running("node") /\ Panics(Head(todo).node) /\ Abort("panic")

N == Head(todo).node                  \* the node being visited
S == Head(todo).sctx                  \* and the context it was called with

Incoming(await_tr, lazy_tr) == lazyness_incoming(S, await_tr, lazy_tr, "Front")

Wrap(L, T) == L.pre \o T \o L.post

(* A child whose value the emitted code uses at once. *)
Use(n, s) == <<Open("use", ""), Sub(n, s), Close("use", "")>>

----------------------------------------------------------------------------
(* Mutant: the callee's promise is not awaited when the context wants it. *)
ApplyForward ==
  /\ Visit("Apply")
  /\ Replace(Wrap(Incoming("Forward", "Need"),
       <<Open("call", "")>> \o Use(N.lambda, WN) \o
       <<Sub(N.value, NN), Close("call", "")>>))

(***************************************************************************)
(* translate_node, one action per kind of node.                            *)
(***************************************************************************)
Apply ==
  /\ Visit("Apply")
  /\ Replace(Wrap(Incoming("Need", "Need"),
       <<Open("call", "")>> \o Use(N.lambda, WN) \o
       <<Sub(N.value, NN), Close("call", "")>>))

(* `{await nixBltiRT.assert(..); return (..); }' needs a preceding `=>'. *)
Assert ==
  /\ Visit("Assert")
  /\ Replace(Wrap(Incoming("Flush", "Force"),
       <<Open("block", "")>> \o
       <<Open("await", ""), Open("call", ""), Sub(N.condition, NN),
         Close("call", ""), Close("await", ""),
         Sub(N.body, WN), Close("block", "")>>))

(* Mutant: operators are evaluated where they stand, never deferred. *)
BinOpEager ==
  /\ Visit("BinOp")
  /\ N.operator # "IsSet"
  /\ Replace(Wrap(Incoming("Need", "Forward"),
       <<Open("call", ""), Sub(N.lhs, NN), Sub(N.rhs, NN), Close("call", "")>>))

BinOp ==
  /\ Visit("BinOp")
  /\ N.operator # "IsSet"
  /\ Replace(Wrap(Incoming("Need", "Flush"),
       <<Open("call", ""), Sub(N.lhs, NN), Sub(N.rhs, NN), Close("call", "")>>))

(* `Object.prototype.hasOwnProperty.call(..)': no wrapper at all. *)
IsSet ==
  /\ Visit("BinOp")
  /\ N.operator = "IsSet"
  /\ Replace(<<Open("isset", "")>> \o Use(N.lhs, WN) \o
             <<KeyEl(N.rhs), Close("isset", "")>>)

(* Mutant: the call is repeated on the same node. *)
TransparentAgain ==
  /\ \E kind \in {"Dynamic", "Paren", "Root"} : Visit(kind)
  /\ Replace(<<Sub(N, S)>>)

Transparent ==
  /\ \E kind \in {"Dynamic", "Paren", "Root"} : Visit(kind)
  /\ Replace(<<Sub(N.inner, S)>>)

Ident ==
  /\ Visit("Ident")
  /\ Replace(<<IdentRef(N.id, S)>>)

(* Mutant: the condition is evaluated outside the deferred function. *)
IfElseEager ==
  /\ Visit("IfElse")
  /\ LET L == Incoming("Flush", "Forward")
     IN Replace(Wrap(L, <<Open("if", "")>> \o Use(N.condition, WN) \o
          <<Sub(N.body, L.sctx), Sub(N.else_body, L.sctx), Close("if", "")>>))

IfElse ==
  /\ Visit("IfElse")
  /\ LET L == Incoming("Flush", "Flush")
     IN Replace(Wrap(L, <<Open("if", "")>> \o Use(N.condition, WN) \o
          <<Sub(N.body, L.sctx), Sub(N.else_body, L.sctx), Close("if", "")>>))

(***************************************************************************)
(* Lambda.  The argument names are registered before the body is           *)
(* translated; the length to truncate vars to is saved first.              *)
(***************************************************************************)
LambdaArg(i) == [n |-> i, c |-> "LambdaArg"]

(* Mutant: the argument stays registered after the body. *)
LambdaIdentKept ==
  /\ Visit("Lambda")
  /\ N.arg.k = "Ident"
  /\ vars' = Append(vars, LambdaArg(N.arg.id))
  /\ todo' = <<Open("lambda", ""), Decl(N.arg.id), Sub(N.body, WN),
               Close("lambda", "")>> \o Tail(todo)
  /\ UNCHANGED <<prog, status, with_stack, acc>>

LambdaIdent ==
  /\ Visit("Lambda")
  /\ N.arg.k = "Ident"
  /\ vars' = Append(vars, LambdaArg(N.arg.id))
  /\ todo' = <<Open("lambda", ""), Decl(N.arg.id), Sub(N.body, WN),
               Truncate(Len(vars)), Close("lambda", "")>> \o Tail(todo)
  /\ UNCHANGED <<prog, status, with_stack, acc>>

LambdaPattern ==
  /\ Visit("Lambda")
  /\ N.arg.k = "Pattern"
  /\ LET p == N.arg
         at == IF p.at = "" THEN <<>> ELSE <<p.at>>
     IN /\ vars' = vars \o [j \in DOMAIN at |-> LambdaArg(at[j])]
                        \o [j \in DOMAIN p.formals |-> LambdaArg(p.formals[j].name)]
        /\ todo' = <<Open("lambda", "")>> \o [j \in DOMAIN at |-> Decl(at[j])]
                   \o <<Open("await", ""), Close("await", "")>>
                   \o [j \in DOMAIN p.formals |-> Formal(p.formals[j])]
                   \o <<Sub(N.body, WN), Truncate(Len(vars)),
                        Close("lambda", "")>>
                   \o Tail(todo)
  /\ UNCHANGED <<prog, status, with_stack, acc>>

(* `let nix__z = nixOp._lambdaA2chk(argname, "z", default);' *)
PatternFormal ==
  /\ Running("formal")
  /\ LET f == Head(todo).formal
     IN Replace(<<Decl(f.name), Open("set", f.name)>> \o
                (IF f.default = None THEN <<>> ELSE <<Sub(f.default, NW)>>) \o
                <<Close("set", f.name)>>)

----------------------------------------------------------------------------
(***************************************************************************)
(* translate_let, shared by attribute sets, let..in and legacy let.  The   *)
(* values are always translated with (Nothing, Want), both callers passing *)
(* values_lazy = true.  `body' is a node or ExtractScope; m is the length  *)
(* of vars at the call.                                                    *)
(***************************************************************************)
SimpleInherits(n) ==
  \A j \in DOMAIN n.inherits :
     n.inherits[j].from = None \/ Len(n.inherits[j].ids) = 1

(* Every key a plain identifier: an object literal will do. *)
IsLiteralSet(n, body, scope) ==
  /\ scope # NIX_IN_SCOPE /\ body = ExtractScope
  /\ \A j \in DOMAIN n.entries :
       /\ n.entries[j].value # None
       /\ Len(n.entries[j].key) = 1 /\ n.entries[j].key[1].k = "Ident"
  /\ SimpleInherits(n)

(* Every key starts with an identifier: let-variables will do. *)
IsLetVars(n, body, scope) ==
  /\ scope = NIX_IN_SCOPE /\ body # ExtractScope
  /\ \A j \in DOMAIN n.entries :
       /\ n.entries[j].value # None
       /\ n.entries[j].key # <<>> /\ n.entries[j].key[1].k = "Ident"
  /\ SimpleInherits(n)

LetLiteral(n, s) ==
  Wrap(lazyness_incoming(s, "Forward", "Forward", "Front"),
    <<Open("obj", "")>>
      \o [j \in DOMAIN n.entries |-> Sub(n.entries[j].value, NW)]
      \o [j \in DOMAIN n.inherits |-> PropInh(n.inherits[j])]
      \o <<Close("obj", "")>>)

LetVariables(n, body, s, m) ==
  Wrap(lazyness_incoming(s, "Forward", "Force", "Front"),
    <<Open("block", "")>> \o (<<Keys(getkeys(n), "LetLetVar")>>
      \o [j \in DOMAIN n.entries |-> Kv(n.entries[j], NO_SCOPE)]
      \o [j \in DOMAIN n.inherits |-> Inh(n.inherits[j])]
      \o <<Sub(body, WN), Close("block", ""), Truncate(m)>>))

(* `(async scope=>{..})(nixBlti.mkScope(..))' *)
LetScope(n, body, scope, s, m) ==
  Wrap(lazyness_incoming(s, "Need", "Forward", "Front"),
    <<Open(scope, "")>>
      \o (IF scope = NIX_IN_SCOPE
          THEN <<Keys(getkeys(n), "LetInScopeVar")>> ELSE <<>>)
      \o [j \in DOMAIN n.entries |-> Kv(n.entries[j], scope)]
      \o [j \in DOMAIN n.inherits |-> Inh(n.inherits[j])]
      \o (IF body = ExtractScope THEN <<Lit("extract", "")>> ELSE <<Sub(body, WN)>>)
      \o <<Close(scope, ""), Truncate(m)>>)

translate_let(n, body, scope, s, m) ==
  IF n.entries = <<>> /\ n.inherits = <<>>
  THEN IF body = ExtractScope THEN <<Lit("empty", "")>> ELSE <<Sub(body, s)>>
  ELSE IF IsLiteralSet(n, body, scope) THEN LetLiteral(n, s)
  ELSE IF IsLetVars(n, body, scope) THEN LetVariables(n, body, s, m)
  ELSE LetScope(n, body, scope, s, m)

AttrSet ==
  /\ Visit("AttrSet")
  /\ Replace(translate_let(N, ExtractScope,
               IF N.recursive THEN NIX_IN_SCOPE ELSE ATTRS_SCOPE, S, Len(vars)))

LetIn ==
  /\ Visit("LetIn")
  /\ Replace(translate_let(N, N.body, NIX_IN_SCOPE, S, Len(vars)))

LegacyLet ==
  /\ Visit("LegacyLet")
  /\ \E j \in DOMAIN N.entries :
       /\ BodyEntry(N, j)
       /\ Replace(translate_let(N, N.entries[j].value, NIX_IN_SCOPE, S, Len(vars)))

(* vars.push for each key, in order; let-variables are declared as well. *)
RegisterKey ==
  /\ Running("keys")
  /\ LET ks == Head(todo).keys
         c  == Head(todo).categ
     IN \/ ks = {} /\ Replace(<<>>)
        \/ \E j \in DOMAIN Names :
             /\ Names[j] \in ks
             /\ \A i \in 1 .. (j - 1) : Names[i] \notin ks
             /\ vars' = Append(vars, [n |-> Names[j], c |-> c])
             /\ todo' = (IF c = "LetLetVar" THEN <<Decl(Names[j])>> ELSE <<>>)
                        \o <<Keys(ks \ {Names[j]}, c)>> \o Tail(todo)
             /\ UNCHANGED <<prog, status, with_stack, acc>>

(* Mutant: one entry too many is removed. *)
TruncateVarsBelow ==
  /\ Running("trunc")
  /\ LET m == Head(todo).len
     IN /\ vars' = IF m <= Len(vars) THEN SubSeq(vars, 1, m - 1) ELSE vars
        /\ status' = IF m <= Len(vars) THEN status ELSE "panic"
  /\ todo' = Tail(todo)
  /\ UNCHANGED <<prog, with_stack, acc>>

(* assert!(vars.len() >= orig_vstkl); vars.truncate(orig_vstkl) *)
TruncateVars ==
  /\ Running("trunc")
  /\ LET m == Head(todo).len
     IN /\ vars' = IF m <= Len(vars) THEN SubSeq(vars, 1, m) ELSE vars
        /\ status' = IF m <= Len(vars) THEN status ELSE "panic"
  /\ todo' = Tail(todo)
  /\ UNCHANGED <<prog, with_stack, acc>>

(***************************************************************************)
(* translate_node_kv.  A nested key path is merged into the first key's    *)
(* attrset, which a scope creates beforehand and let-variables do not.     *)
(***************************************************************************)
KeyName(n) == IF n.k = "Ident" THEN n.id ELSE ""

KeyValue ==
  /\ Running("kv")
  /\ LET e == Head(todo).entry
         scope == Head(todo).scope
         k1 == e.key[1]
         create == <<KeyEl(k1), KeyEl(k1),
                     Open("set", KeyName(k1)), Close("set", KeyName(k1))>>
     IN \/ (e.key = <<>> \/ e.value = None) /\ Abort("err")
        \/ /\ Len(e.key) = 1 /\ e.value # None
           /\ Replace(<<KeyEl(k1), Open("set", KeyName(k1)),
                        Sub(e.value, NW), Close("set", KeyName(k1))>>)
        \/ /\ Len(e.key) > 1 /\ e.value # None
           /\ Replace((IF scope = NO_SCOPE THEN <<>> ELSE create) \o
                <<Open("await", ""), Open("merge", ""),
                  IF scope = NO_SCOPE
                  THEN IdentRef(k1.id, mksctx("Did", "Nothing")) ELSE KeyEl(k1),
                  Sub(e.value, NW)>>
                \o [j \in 1 .. (Len(e.key) - 1) |-> KeyEl(e.key[j + 1])]
                \o <<Close("merge", ""), Close("await", "")>>)

(* key_element_force_str / key_element_indexing / rhs of `?' *)
KeyElement ==
  /\ Running("key")
  /\ N # None
  /\ Replace(IF N.k = "Ident" THEN <<>> ELSE Use(N, WN))

(* translate_node_inherit *)
Selected(h) == <<Open("sel", "")>> \o Use(h.from.inner, WN) \o <<Close("sel", "")>>

Inherit ==
  /\ Running("inh")
  /\ LET h == Head(todo).inh
         one == lazyness_incoming(NW, "Forward", "Need", "Front")
         many == lazyness_incoming(NW, "Forward", "Flush", "Front")
     IN \/ /\ h.from = None
           /\ Replace([j \in DOMAIN h.ids |-> InhId(h.ids[j])])
        \/ /\ h.from # None /\ Len(h.ids) = 1
           /\ Replace(<<Open("set", h.ids[1])>> \o Wrap(one, Selected(h)) \o
                      <<Close("set", h.ids[1])>>)
        \/ /\ h.from # None /\ Len(h.ids) # 1
           /\ Replace(<<Open("const", "")>> \o
                      Wrap(many, <<Sub(h.from.inner, many.sctx)>>) \o
                      <<Close("const", "")>> \o
                      [j \in DOMAIN h.ids |-> ThenId(h.ids[j])])

(* The literal "then" is `nixInhRn.then(nixV=>nixV..)' of the last const,  *)
(* whose PLazy it starts: see Started.                                     *)
InheritIdent ==
  \/ /\ Running("inhid")
     /\ LET i == Head(todo).id
        IN Replace(<<Open("set", i), IdentRef(i, NW), Close("set", i)>>)
  \/ /\ Running("thenid")
     /\ LET i == Head(todo).id
        IN Replace(<<Open("set", i), Lit("then", ""), Close("set", i)>>)

(* the inherits of an object literal *)
PropInherit ==
  /\ Running("propinh")
  /\ LET h == Head(todo).inh
     IN \/ /\ h.from = None
           /\ Replace([j \in DOMAIN h.ids |-> IdentRef(h.ids[j], NW)])
        \/ /\ h.from # None
           /\ Replace(Wrap(lazyness_incoming(NW, "Flush", "Flush", "Front"),
                           Selected(h)))

----------------------------------------------------------------------------
(* The spelling of name v read as category c: mangled behind `nix__' for a *)
(* JavaScript variable, as it is for a key of nixInScope.                  *)
JsName(c, v) == IF c \in {"LambdaArg", "LetLetVar"} THEN Mangle[v] ELSE v

(* translate_node_ident_raw: builtins as they are, variables awaited if    *)
(* the context wants it.  A token has the Nix name; the code spells it     *)
(* JsName.                                                                 *)
IdentRaw ==
  /\ Running("ident")
  /\ \E c \in IdentCateg :
       /\ c = resolve_ident(Head(todo).id)
       /\ IF c \in {"Literal", "AlBuiltin"} THEN Replace(<<Lit("builtin", Head(todo).id)>>)
          ELSE Replace(Wrap(lazyness_incoming(S, "Flush", "Flush", "Back"),
                            <<Read(c, Head(todo).id)>>))

List ==
  /\ Visit("List")
  /\ Replace(Wrap(Incoming("Forward", "Flush"),
       <<Open("list", "")>> \o [j \in DOMAIN N.items |-> Sub(N.items[j], NN)]
         \o <<Close("list", "")>>))

OrDefault ==
  /\ Visit("OrDefault")
  /\ Replace(Wrap(Incoming("Need", "Need"),
       <<Open("call", ""), Sub(N.index, NW), Sub(N.default, NW),
         Close("call", "")>>))

Select ==
  /\ Visit("Select")
  /\ IF Wellknown(N.set)
     THEN Replace(Wrap(Incoming("Forward", "Forward"),
            <<Open("bsel", "")>> \o Use(N.set, NN) \o
            <<KeyEl(N.index), Close("bsel", "")>>))
     ELSE Replace(Wrap(Incoming("Need", "Need"),
            <<Open("sel", "")>> \o Use(N.set, WN) \o
            <<KeyEl(N.index), Close("sel", "")>>))

(* A string without interpolation is a literal whatever the context. *)
Str ==
  /\ Visit("Str")
  /\ IF N.parts = <<>> \/ (Len(N.parts) = 1 /\ N.parts[1].k = "Literal")
     THEN Replace(<<Lit("str", "")>>)
     ELSE Replace(Wrap(Incoming("Forward", "Need"),
            <<Open("str", "")>> \o [j \in DOMAIN N.parts |-> StrPart(N.parts[j])]
              \o <<Close("str", "")>>))

StringPart ==
  /\ Running("part")
  /\ Replace(IF N.k = "Literal" THEN <<Lit("str", "")>> ELSE Use(N.inner, WN))

UnaryOp ==
  /\ Visit("UnaryOp")
  /\ Replace(<<Open("unop", ""), Sub(N.value, NN), Close("unop", "")>>)

Value ==
  /\ Visit("Value")
  /\ N.v # "inf"
  /\ Replace(<<Lit(IF N.v = "path" THEN "export" ELSE "number", "")>>)

(* `(async nixInScope=>(body))(nixBlti.mkScopeWith(nixInScope,namespace))' *)
With ==
  /\ Visit("With")
  /\ with_stack' = with_stack + 1
  /\ todo' = <<Open("with", ""), Sub(N.body, WN)>> \o
             (<<Unwith(with_stack)>> \o
              (<<Close("with", ""), Open("ns", "")>> \o Use(N.namespace, WN) \o
               <<Close("ns", "")>> \o Tail(todo)))
  /\ UNCHANGED <<prog, status, vars, acc>>

(* Mutants: the depth is not restored, or restored twice. *)
WithEndKept ==
  /\ Running("unwith")
  /\ todo' = Tail(todo)
  /\ UNCHANGED <<prog, status, vars, with_stack, acc>>

WithEndTwice ==
  /\ Running("unwith")
  /\ with_stack' = with_stack - 2
  /\ todo' = Tail(todo)
  /\ UNCHANGED <<prog, status, vars, acc>>

WithEnd ==
  /\ Running("unwith")
  /\ with_stack' = with_stack - 1
  /\ todo' = Tail(todo)
  /\ UNCHANGED <<prog, status, vars, acc>>

----------------------------------------------------------------------------
(* translate(): parse errors are returned before anything is emitted. *)
Start ==
  /\ status = "parsed"
  /\ IF prog.k = "Error" THEN status' = "err" /\ todo' = <<>>
     ELSE status' = "running" /\ todo' = <<Sub(prog, NW)>>
  /\ UNCHANGED <<prog, vars, with_stack, acc>>

Finish ==
  /\ status = "running" /\ todo = <<>>
  /\ status' = "done"
  /\ UNCHANGED <<prog, todo, vars, with_stack, acc>>

Terminated ==
  /\ status \in {"done", "err", "panic"}
  /\ UNCHANGED allvars

Init ==
  /\ prog \in Programs
  /\ status = "parsed"
  /\ todo = <<>>
  /\ vars = DFL_VARS
  /\ with_stack = 0
  /\ acc = <<>>

Expression ==
  \/ Apply \/ Assert \/ AttrSet \/ BinOp \/ IsSet \/ Transparent \/ Ident
  \/ IfElse \/ LambdaIdent \/ LambdaPattern \/ LegacyLet \/ LetIn \/ List
  \/ OrDefault \/ Select \/ Str \/ UnaryOp \/ Value \/ With

Continuation ==
  \/ Push \/ PatternFormal \/ RegisterKey \/ TruncateVars \/ KeyValue
  \/ KeyElement \/ Inherit \/ InheritIdent \/ PropInherit \/ IdentRaw
  \/ StringPart \/ WithEnd

Next ==
  \/ Start \/ Expression \/ Continuation \/ Fail \/ Panic \/ Finish
  \/ Terminated

(* The translator is a sequential program: it runs until it returns. *)
Spec == Init /\ [][Next]_allvars /\ WF_allvars(Next)
=============================================================================
