----------------------------- MODULE ScopeProps -----------------------------
(***************************************************************************)
(* What emitted code relies on when it reads names through scopes.         *)
(***************************************************************************)
EXTENDS Scope

(* Types; an object refers to objects made before it, so lookups end. *)
TypeOK ==
  /\ heap \in Seq(Object)
  /\ \A o \in Ids : /\ heap[o].proto < o
                    /\ \A j \in DOMAIN heap[o].objs : heap[o].objs[j] \in 1 .. (o - 1)

(***************************************************************************)
(* HasMatchesGet: the two traps of `with' and the inherited operations of  *)
(* mkScope agree through any nesting: when `k in s' holds, the read of     *)
(* s[k] ends in an object that holds k, so that it gives undefined only if *)
(* undefined was stored there; when it does not hold, the read gives       *)
(* undefined.                                                              *)
(***************************************************************************)
HasMatchesGet ==
  \A o \in Ids, k \in Key :
    IF Has(heap, o, k)
    THEN Holder(heap, o, k) \in Ids /\ k \in OwnKeys(heap, Holder(heap, o, k))
    ELSE Get(heap, o, k) = Undefined

(***************************************************************************)
(* AllKeysIncludesInherited: what index.ts says of the allKeys property,   *)
(* that it gets `all keys present in a scope, including inherited ones'.   *)
(* The code lists the names of the scope and of the object directly above. *)
(***************************************************************************)
AllKeysIncludesInherited ==
  \A o \in Ids : heap[o].kind = "scope" =>
    AllKeys(heap, o) = {k \in Key : Has(heap, o, k)}

(***************************************************************************)
(* LookupsMoveToNewNamesOnly: once a name is found, by a holder of any of  *)
(* the objects above it, it stays found.  The lookup moves only to an      *)
(* object that did not hold the name before the step, which need not be    *)
(* the younger one: a scope that a `with' tries first may get the name     *)
(* last.  The object that provided it keeps it, and if that is a scope,    *)
(* with the value it had: a scope's binding is shadowed, never altered.    *)
(***************************************************************************)
LookupsMoveToNewNamesOnly ==
  [][\A o \in Ids, k \in Key : Has(heap, o, k) =>
       LET was == Holder(heap, o, k)
           now == Holder(heap', o, k)
       IN /\ now \in Ids
          /\ now = was \/ k \notin OwnKeys(heap, now)
          /\ k \in OwnKeys(heap', was)
          /\ heap[was].kind = "scope" => heap'[was].own[k] = heap[was].own[k]]_heap

(***************************************************************************)
(* ExtractedIsDetached: extractScope gives the scope `detached from its    *)
(* parent scope': a set with the scope's own keys and values and no        *)
(* inherited name.  From then on what the set shows changes only when the  *)
(* set itself is written, and writing it (_deepMerge) changes no other     *)
(* object, the scope it came from included.                                *)
(***************************************************************************)
ExtractedIsDetached ==
  [][/\ \A o \in Ids : Extract(o) =>
          \A k \in Key : /\ Has(heap', Len(heap'), k) <=> k \in OwnKeys(heap, o)
                         /\ k \in OwnKeys(heap, o) =>
                              Get(heap', Len(heap'), k) = heap[o].own[k]
     /\ \A o \in Ids, k \in Key :
          heap[o].kind = "plain" /\ Get(heap', o, k) # Get(heap, o, k) =>
            /\ Get(heap', o, k) = heap'[o].own[k]
            /\ \A p \in Ids \ {o} : heap'[p] = heap[p]]_heap
=============================================================================
