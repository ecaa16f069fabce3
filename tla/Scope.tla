------------------------------- MODULE Scope --------------------------------
(***************************************************************************)
(* The scope objects of nix-builtins (index.ts): mkScope, mkScopeWith,     *)
(* the write-once proxy, allKeys and extractScope, over a heap of objects. *)
(* A scope inherits from the object it was made of, a `with' scope looks   *)
(* through a list of objects, a plain object is an attribute set.          *)
(* Objects are numbered in the order they are made, so that an object can  *)
(* only refer to smaller ones.  A key may be held with the value undefined *)
(* (`rec{a=b;b=1;}' assigns a before b), which is not the same as not to   *)
(* be held.                                                                *)
(***************************************************************************)
EXTENDS Naturals, Sequences, FiniteSets

CONSTANTS
  Key,        \* attribute names
  Value,      \* attribute values
  Undefined,  \* JavaScript's undefined
  Absent,     \* no such own property
  MaxObjects  \* bound: objects made

ASSUME ScopeAssumption ==
  Undefined \notin Value /\ Absent \notin Value \cup {Undefined} /\ MaxObjects \in Nat

VARIABLE heap     \* the objects: Seq(Object)

Stored == Value \cup {Undefined}

Own == [Key -> Stored \cup {Absent}]

Object == [kind : {"plain", "scope", "with"}, own : Own, proto : Nat, objs : Seq(Nat)]

Ids == DOMAIN heap

Empty == [k \in Key |-> Absent]

OwnKeys(h, o) == {k \in Key : h[o].own[k] # Absent}

----------------------------------------------------------------------------
(***************************************************************************)
(* Property lookup in heap h, in the object itself, then along the         *)
(* prototype chain; a `with' scope takes the first object that has the     *)
(* key.  Holder is the object the lookup ends in, 0 if there is none.      *)
(***************************************************************************)
(* Mutant: without the trap, `in' does not see through a `with'. *)
HasUntrapped(h, o, key) ==
  LET has[i \in 0 .. Len(h)] ==
        i # 0 /\ (h[i].own[key] # Absent \/ has[h[i].proto])
  IN has[o]

(* handler.has and the inherited [[HasProperty]] *)
HasTable(h, key) ==
  LET has[i \in 0 .. Len(h)] ==
        /\ i # 0
        /\ \/ h[i].own[key] # Absent
           \/ has[h[i].proto]
           \/ \E j \in DOMAIN h[i].objs : has[h[i].objs[j]]
  IN has

Has(h, o, key) == HasTable(h, key)[o]

(* objs.find: the first object that has the key *)
Finds(h, s, key, j) ==
  /\ j \in DOMAIN s /\ Has(h, s[j], key)
  /\ \A i \in 1 .. (j - 1) : ~Has(h, s[i], key)

(* handler.get and the inherited [[Get]] *)
HolderTable(h, key) ==
  LET hold[i \in 0 .. Len(h)] ==
        IF i = 0 \/ h[i].own[key] # Absent THEN i
        ELSE IF h[i].kind # "with" THEN hold[h[i].proto]
        ELSE IF \E j \in DOMAIN h[i].objs : Has(h, h[i].objs[j], key)
        THEN hold[h[i].objs[CHOOSE j \in DOMAIN h[i].objs : Finds(h, h[i].objs, key, j)]]
        ELSE 0
  IN hold

Holder(h, o, key) == HolderTable(h, key)[o]

Get(h, o, key) ==
  IF Holder(h, o, key) = 0 THEN Undefined ELSE h[Holder(h, o, key)].own[key]

(***************************************************************************)
(* The allKeys property.  Object.keys of a proxy gives the own keys of its *)
(* target; an attribute set has no such property and is filtered out.      *)
(***************************************************************************)
ObjectKeys(h, o) == IF o = 0 THEN {} ELSE OwnKeys(h, o)

AllKeysTable(h) ==
  LET all[i \in 1 .. Len(h)] ==
        IF h[i].kind = "scope" THEN OwnKeys(h, i) \cup ObjectKeys(h, h[i].proto)
        ELSE IF h[i].kind = "with" THEN UNION {all[h[i].objs[j]] : j \in DOMAIN h[i].objs}
        ELSE {}
  IN all

AllKeys(h, o) == AllKeysTable(h)[o]

----------------------------------------------------------------------------
New(obj) == Len(heap) < MaxObjects /\ heap' = Append(heap, obj)

(* An attribute set made by the program. *)
NewAttrs(own) ==
  New([kind |-> "plain", own |-> own, proto |-> 0, objs |-> <<>>])

(* Mutant: the prototype is the object being made. *)
mkScopeSelf(orig) ==
  New([kind |-> "scope", own |-> Empty, proto |-> Len(heap) + 1, objs |-> <<>>])

(* mkScope(orig), orig = 0 for mkScope() and mkScope(null) *)
mkScope(orig) ==
  New([kind |-> "scope", own |-> Empty, proto |-> orig, objs |-> <<>>])

mkScopeWith(objs) ==
  New([kind |-> "with", own |-> Empty, proto |-> 0, objs |-> objs])

(* Mutant: keys stay writable. *)
SetAgain(o, k, v) ==
  /\ heap[o].kind = "scope"
  /\ heap' = [heap EXCEPT ![o].own[k] = v]

(***************************************************************************)
(* scope[k] = v: the proxy defines a key once, as read-only; a second      *)
(* assignment is refused, which code that is not strict does not notice.   *)
(***************************************************************************)
Set(o, k, v) ==
  /\ heap[o].kind = "scope"
  /\ heap' = IF heap[o].own[k] = Absent
             THEN [heap EXCEPT ![o].own[k] = v] ELSE heap

(* _deepMerge ends in attrs[pfi] = value, which a plain object obeys. *)
Merge(o, k, v) ==
  /\ heap[o].kind = "plain"
  /\ heap' = [heap EXCEPT ![o].own[k] = v]

(* Mutant: inherited names are copied too. *)
ExtractAll(o) ==
  /\ heap[o].kind = "scope"
  /\ New([kind |-> "plain", proto |-> 0, objs |-> <<>>,
          own |-> [k \in Key |-> IF Has(heap, o, k) THEN Get(heap, o, k) ELSE Absent]])

(* scope[extractScope]: the own keys, in an object without a prototype *)
Extract(o) ==
  /\ heap[o].kind = "scope"
  /\ New([kind |-> "plain", own |-> heap[o].own, proto |-> 0, objs |-> <<>>])

(* translate() begins every program with `nixInScope=nixBlti.mkScopeWith()'. *)
Init == heap = <<[kind |-> "with", own |-> Empty, proto |-> 0, objs |-> <<>>]>>

Next ==
  \/ \E own \in Own : NewAttrs(own)
  \/ \E orig \in {0} \cup Ids : mkScope(orig)
  \/ \E o, p \in Ids : mkScopeWith(<<o, p>>)
  \/ \E o \in Ids, k \in Key, v \in Stored : Set(o, k, v) \/ Merge(o, k, v)
  \/ \E o \in Ids : Extract(o)

Spec == Init /\ [][Next]_heap
=============================================================================
