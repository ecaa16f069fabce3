----------------------------- MODULE DeepMerge ------------------------------
(***************************************************************************)
(* The entries of one attribute set or `let' (lib.rs, translate_let and    *)
(* translate_node_kv): statements that run one after the other, an entry   *)
(* with a nested key through _deepMerge (index.ts).  What has been built   *)
(* is a tree, written as the set of its leaves: a leaf is a key path and   *)
(* the number of the entry its value comes from.                           *)
(***************************************************************************)
EXTENDS Naturals, Sequences, SequencesExt

CONSTANTS
  Key,       \* attribute names
  Literals,  \* the entries written: sequences of [path, value]
  Outers     \* what the enclosing scope holds

Kinds == {"attrs", "rec", "letin"}

Path == Seq(Key) \ {<<>>}

(* A value is a number, {<<>>}, or a set of numbers: the paths below it. *)
Number == {<<>>}

Entry == [path : Path, value : (SUBSET (Path \cup Number)) \ {{}}]

ASSUME EntriesAssumption == Literals \subseteq Seq(Entry)

VARIABLES
  kind,   \* what the entries belong to
  lit,    \* the entries
  pc,     \* the entry that runs next
  own,    \* the leaves built
  outer,  \* the leaves of the enclosing scope, the prototype of a `rec'
  error   \* the exception that ended the evaluation

vars == <<kind, lit, pc, own, outer, error>>

(***************************************************************************)
(* translate_let: a real object when every key is simple, variables for a  *)
(* `let', a scope for the others.                                          *)
(***************************************************************************)
Form ==
  IF kind = "letin" THEN "let"
  ELSE IF kind = "attrs" /\ \A i \in DOMAIN lit : Len(lit[i].path) = 1 THEN "object"
  ELSE "scope"

Below(T, path) == {l \in T : IsPrefix(path, l[1])}

TypeOf(T, path) ==
  IF Below(T, path) = {} THEN "undefined"
  ELSE IF \E l \in T : l[1] = path THEN "number" ELSE "object"

(* T after `path = value of entry i' *)
Put(T, path, i) ==
  (T \ Below(T, path)) \cup {<<path \o q, i>> : q \in lit[i].value}

----------------------------------------------------------------------------
Running == error = "" /\ pc <= Len(lit)

Fail(e) == error' = e /\ UNCHANGED <<own, outer>>

(* `a=v;' the set trap of a scope refuses a key that is there already. *)
Assign(i) ==
  /\ Len(lit[i].path) = 1
  /\ own' = IF Form = "scope" /\ Below(own, lit[i].path) # {} THEN own
            ELSE Put(own, lit[i].path, i)
  /\ UNCHANGED <<outer, error>>

(* Mutant: a key of the enclosing scope counts as there. *)
MissingEverywhere(k) ==
  Below(own, <<k>>) = {} /\ ~(kind = "rec" /\ Below(outer, <<k>>) # {})

(* Mutant: the set for a nested key is never made. *)
MissingNever(k) == FALSE

(* `if(!hasOwnProperty(scope,k))scope[k]=Object.create(null);' *)
Missing(k) == Below(own, <<k>>) = {}

(***************************************************************************)
(* scope[k] is the set just made, the scope's own value or, for a `rec',   *)
(* that of the enclosing scope.  A set has no prototype, so that the       *)
(* method hasOwnProperty, which a path with more than one key left needs,  *)
(* is not there.                                                           *)
(***************************************************************************)
_deepMerge(i) ==
  LET k     == lit[i].path[1]
      fresh == Form = "scope" /\ Missing(k)
      mine  == fresh \/ kind # "rec" \/ Below(own, <<k>>) # {}
      base  == IF fresh THEN "object" ELSE TypeOf(IF mine THEN own ELSE outer, <<k>>)
  IN /\ Len(lit[i].path) > 1
     /\ \/ base # "object" /\ Fail("NixEvalError")
        \/ base = "object" /\ Len(lit[i].path) > 2 /\ Fail("TypeError")
        \/ /\ base = "object" /\ Len(lit[i].path) = 2
           /\ own' = IF mine THEN Put(own, lit[i].path, i) ELSE own
           /\ outer' = IF mine THEN outer ELSE Put(outer, lit[i].path, i)
           /\ UNCHANGED error

translate_node_kv ==
  /\ Running
  /\ Assign(pc) \/ _deepMerge(pc)
  /\ pc' = pc + 1
  /\ UNCHANGED <<kind, lit>>

Init ==
  /\ kind \in Kinds /\ lit \in Literals /\ outer \in Outers
  /\ pc = 1 /\ own = {} /\ error = ""

Next == translate_node_kv

Spec == Init /\ [][Next]_vars
=============================================================================
