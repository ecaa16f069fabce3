--------------------------- MODULE RuntimeProofs ----------------------------
(***************************************************************************)
(* Proofs about the runtime that programs are run with (mock-runtime.mjs): *)
(* first the import cache, then lookups through NIX_PATH.                  *)
(***************************************************************************)
EXTENDS ImportProps, PathExportProps, SequenceTheorems, TLAPS

(***************************************************************************)
(* Proofs about the import cache, for every set of paths and directory     *)
(* trees and any number of requests.  OneTailPerKey is not inductive by    *)
(* itself: it needs that a name for which importTail was called keeps an   *)
(* entry in the cache, so that import_ never calls it again.  What callers *)
(* are answered rests on two further layers: where every promise comes     *)
(* from (AInv), and what the evaluation of a file has come to (MInv).      *)
(***************************************************************************)
TailRec == [key : Path, real : Path, phase : Phase, val : Nat]
ValRec == [real : Path, pos : Nat, phase : Phase, wait : Ref]

(* Every name with a call of importTail is in the cache. *)
TailsCached == \A t \in DOMAIN tails : cache[tails[t].key] # None

(* The next dependency of a file is looked up within its list. *)
Positions == \A v \in DOMAIN vals : vals[v].pos >= 1

IInv == TypeOK /\ Positions /\ TailsCached /\ OneTailPerKey

----------------------------------------------------------------------------
(* Sequences: updating one element, and appending one. *)
LEMMA UpdateSeq ==
  ASSUME NEW T, NEW s \in Seq(T), NEW i \in DOMAIN s, NEW e \in T
  PROVE  /\ [s EXCEPT ![i] = e] \in Seq(T)
         /\ DOMAIN [s EXCEPT ![i] = e] = DOMAIN s
  OBVIOUS

LEMMA AppendSeq ==
  ASSUME NEW T, NEW s \in Seq(T), NEW e \in T
  PROVE  /\ Append(s, e) \in Seq(T)
         /\ DOMAIN Append(s, e) = DOMAIN s \cup {Len(s) + 1}
         /\ DOMAIN s = 1 .. Len(s)
         /\ \A i \in DOMAIN s : Append(s, e)[i] = s[i]
         /\ Append(s, e)[Len(s) + 1] = e
         /\ Len(s) \in Nat
  OBVIOUS

LEMMA ElementSeq ==
  ASSUME NEW T, NEW s \in Seq(T), NEW i \in DOMAIN s
  PROVE  s[i] \in T
  OBVIOUS

(* The elements of the sequences have their types. *)
LEMMA Records ==
  ASSUME IInv
  PROVE  /\ tails \in Seq(TailRec) /\ vals \in Seq(ValRec)
         /\ \A t \in DOMAIN tails : tails[t] \in TailRec
         /\ \A v \in DOMAIN vals : vals[v] \in ValRec
<1>1. tails \in Seq(TailRec) /\ vals \in Seq(ValRec)
  BY DEF IInv, TypeOK, TailRec, ValRec
<1> QED  BY <1>1, ElementSeq

LEMMA Refs ==
  /\ None \in Ref
  /\ \A n \in Nat : TailRef(n) \in Ref /\ ValRef(n) \in Ref
  /\ \A n \in Nat : TailRef(n) # None /\ ValRef(n) # None
  BY DEF None, Ref, TailRef, ValRef

(* A promise that exists goes on existing. *)
LEMMA ExistsStays ==
  ASSUME DOMAIN tails \subseteq DOMAIN tails', DOMAIN vals \subseteq DOMAIN vals',
         NEW ref, Exists(ref)
  PROVE  Exists(ref)'
  BY DEF Exists

(* import_: the cache gains at most the entry asked for, and a call of     *)
(* importTail is made only if the name had no entry.                       *)
LEMMA ImportCall ==
  ASSUME IInv, NEW p \in Path, import_(p)
  PROVE  /\ cache' \in [Path -> Ref]
         /\ tails' \in Seq(TailRec)
         /\ DOMAIN tails \subseteq DOMAIN tails'
         /\ \A t \in DOMAIN tails : tails'[t] = tails[t]
         /\ cache'[p] # None
         /\ \A q \in Path : cache[q] # None => cache'[q] = cache[q]
         /\ \A q \in Path : \/ cache'[q] = cache[q]
                            \/ cache'[q].of = "tail" /\ cache'[q].n \in DOMAIN tails'
         /\ \A t \in DOMAIN tails' \ DOMAIN tails :
              /\ tails'[t].phase = "read"
              /\ tails'[t].key = p
              /\ cache[p] = None
         /\ \A s, t \in DOMAIN tails' \ DOMAIN tails : s = t
<1> DEFINE n == Len(tails) + 1
<1>1. /\ tails \in Seq(TailRec) /\ cache \in [Path -> Ref]
  BY DEF IInv, TypeOK, TailRec
<1>2. Tail0(p) \in TailRec
  BY DEF Tail0, TailRec, Phase
<1>3. CASE Missing(p)
  <2>1. /\ cache' = [cache EXCEPT ![p] = TailRef(n)]
        /\ tails' = Append(tails, Tail0(p))
    BY <1>3 DEF import_
  <2>2. /\ tails' \in Seq(TailRec)
        /\ DOMAIN tails' = DOMAIN tails \cup {n}
        /\ \A t \in DOMAIN tails : tails'[t] = tails[t]
        /\ tails'[n] = Tail0(p)
        /\ n \in Nat
    BY <1>1, <1>2, <2>1, AppendSeq
  <2>3. /\ cache' \in [Path -> Ref]
        /\ cache'[p] = TailRef(n)
        /\ \A q \in Path : q # p => cache'[q] = cache[q]
    BY <1>1, <2>1, <2>2, Refs
  <2>4. TailRef(n) # None /\ TailRef(n).of = "tail" /\ TailRef(n).n = n
    BY <2>2, Refs DEF TailRef
  <2>5. Tail0(p).phase = "read" /\ Tail0(p).key = p
    BY DEF Tail0
  <2>6. cache[p] = None
    BY <1>3 DEF Missing
  <2> HIDE DEF n
  <2> QED  BY <2>2, <2>3, <2>4, <2>5, <2>6
<1>4. CASE ~Missing(p)
  BY <1>1, <1>4 DEF import_, Missing
<1> QED  BY <1>3, <1>4

----------------------------------------------------------------------------
LEMMA InitIInv == Init => IInv
<1> SUFFICES ASSUME Init PROVE IInv  OBVIOUS
<1>1. files \in FileSystems /\ cache \in [Path -> Ref]
  BY Refs DEF Init
<1>2. tails = <<>> /\ vals = <<>> /\ requests = <<>>
  BY DEF Init
<1>3. \A p \in Path : Exists(cache[p])
  BY DEF Init, Exists, None
<1> QED  BY <1>1, <1>2, <1>3 DEF IInv, TypeOK, Positions, TailsCached, OneTailPerKey

(* A step that changes the record of one call of importTail. *)
LEMMA TailUpdate ==
  ASSUME IInv, NEW t \in DOMAIN tails, NEW r \in TailRec,
         r.key = tails[t].key,
         r.phase = "adopt" => r.val \in DOMAIN vals,
         tails' = [tails EXCEPT ![t] = r],
         UNCHANGED <<files, cache, vals, requests>>
  PROVE  IInv'
<1>1. tails \in Seq(TailRec)
  BY DEF IInv, TypeOK, TailRec
<1>2. /\ tails' \in Seq(TailRec)
      /\ DOMAIN tails' = DOMAIN tails
  BY <1>1, UpdateSeq
<1>3. /\ tails'[t] = r
      /\ \A s \in DOMAIN tails : s # t => tails'[s] = tails[s]
  BY <1>1
<1>4. \A s \in DOMAIN tails : tails'[s].key = tails[s].key
  BY <1>3
<1>5. \A ref : Exists(ref) => Exists(ref)'
  BY <1>2 DEF Exists
<1>6. TypeOK'
  <2>1. /\ files' \in FileSystems /\ cache' \in [Path -> Ref]
        /\ vals' \in Seq(ValRec)
        /\ requests' \in Seq([path : Path, ref : Ref])
    BY DEF IInv, TypeOK, ValRec
  <2>2. /\ \A p \in Path : Exists(cache[p])'
        /\ \A v \in DOMAIN vals' : Exists(vals[v].wait)'
        /\ \A i \in DOMAIN requests' : Exists(requests[i].ref)' /\ requests'[i].ref # None
    BY <1>2 DEF IInv, TypeOK, Exists
  <2>3. \A s \in DOMAIN tails' : tails'[s].phase = "adopt" => tails'[s].val \in DOMAIN vals'
    BY <1>2, <1>3 DEF IInv, TypeOK
  <2> QED  BY <1>2, <2>1, <2>2, <2>3 DEF TypeOK, TailRec, ValRec
<1>7. Positions' /\ TailsCached' /\ OneTailPerKey'
  BY <1>2, <1>4 DEF IInv, Positions, TailsCached, OneTailPerKey
<1> QED  BY <1>6, <1>7 DEF IInv

(* A step that changes the record of one evaluated file. *)
LEMMA ValUpdate ==
  ASSUME IInv, NEW v \in DOMAIN vals, NEW r \in ValRec,
         r.pos >= 1, Exists(r.wait),
         vals' = [vals EXCEPT ![v] = r],
         UNCHANGED <<files, cache, tails, requests>>
  PROVE  IInv'
<1>1. vals \in Seq(ValRec)
  BY DEF IInv, TypeOK, ValRec
<1>2. /\ vals' \in Seq(ValRec)
      /\ DOMAIN vals' = DOMAIN vals
  BY <1>1, UpdateSeq
<1>3. /\ vals'[v] = r
      /\ \A s \in DOMAIN vals : s # v => vals'[s] = vals[s]
  BY <1>1
<1>4. TypeOK'
  <2>1. /\ files' \in FileSystems /\ cache' \in [Path -> Ref]
        /\ tails' \in Seq(TailRec)
        /\ requests' \in Seq([path : Path, ref : Ref])
    BY DEF IInv, TypeOK, TailRec
  <2>2. /\ \A p \in Path : Exists(cache[p])'
        /\ \A i \in DOMAIN requests' : Exists(requests[i].ref)' /\ requests'[i].ref # None
    BY <1>2 DEF IInv, TypeOK, Exists
  <2>3. \A s \in DOMAIN vals' : Exists(vals[s].wait)'
    <3> SUFFICES ASSUME NEW s \in DOMAIN vals' PROVE Exists(vals[s].wait)'
      OBVIOUS
    <3>1. Exists(vals[s].wait)
      BY <1>2 DEF IInv, TypeOK
    <3>2. CASE s = v
      BY <1>2, <1>3, <3>2 DEF Exists
    <3>3. CASE s # v
      BY <1>2, <1>3, <3>1, <3>3 DEF Exists
    <3> QED  BY <3>2, <3>3
  <2>4. \A t \in DOMAIN tails' : tails'[t].phase = "adopt" => tails'[t].val \in DOMAIN vals'
    BY <1>2 DEF IInv, TypeOK
  <2> QED  BY <1>2, <2>1, <2>2, <2>3, <2>4 DEF TypeOK, TailRec, ValRec
<1>5. Positions'
  BY <1>2, <1>3 DEF IInv, Positions
<1>6. TailsCached' /\ OneTailPerKey'
  BY DEF IInv, TailsCached, OneTailPerKey
<1> QED  BY <1>4, <1>5, <1>6 DEF IInv

----------------------------------------------------------------------------
(* importTail *)
LEMMA ReadFailedIInv ==
  ASSUME IInv, NEW t \in DOMAIN tails, ReadFailed(t)
  PROVE  IInv'
<1> DEFINE r == [tails[t] EXCEPT !.phase = "err"]
<1>1. tails[t] \in TailRec
  BY Records
<1>2. r \in TailRec /\ r.key = tails[t].key /\ r.phase # "adopt"
  BY <1>1 DEF TailRec, Phase
<1>3. tails' = [tails EXCEPT ![t] = r] /\ UNCHANGED <<files, cache, vals, requests>>
  BY DEF ReadFailed
<1> HIDE DEF r
<1> QED  BY <1>2, <1>3, TailUpdate

LEMMA ReadDirectoryIInv ==
  ASSUME IInv, NEW t \in DOMAIN tails, ReadDirectory(t)
  PROVE  IInv'
<1> DEFINE r == [tails[t] EXCEPT !.phase = "redirected",
                                 !.real = files.dflt[tails[t].real]]
<1>1. tails[t] \in TailRec
  BY Records
<1>2. files.dflt[tails[t].real] \in Path
  BY <1>1, ImportAssumption DEF IInv, TypeOK, ReadDirectory, TailRec
<1>3. r \in TailRec /\ r.key = tails[t].key /\ r.phase # "adopt"
  BY <1>1, <1>2 DEF TailRec, Phase
<1>4. tails' = [tails EXCEPT ![t] = r] /\ UNCHANGED <<files, cache, vals, requests>>
  BY DEF ReadDirectory
<1> HIDE DEF r
<1> QED  BY <1>3, <1>4, TailUpdate

LEMMA AdoptIInv ==
  ASSUME IInv, NEW t \in DOMAIN tails, Adopt(t)
  PROVE  IInv'
<1> DEFINE ph == State(ValRef(tails[t].val))
           r == [tails[t] EXCEPT !.phase = ph]
<1>1. tails[t] \in TailRec
  BY Records
<1>2. ph \in {"ok", "err"}
  BY DEF Adopt, Settled, Fulfilled, Rejected
<1>3. tails' = [tails EXCEPT ![t] = r] /\ UNCHANGED <<files, cache, vals, requests>>
  BY DEF Adopt
<1> HIDE DEF ph
<1>4. r \in TailRec /\ r.key = tails[t].key /\ r.phase # "adopt"
  BY <1>1, <1>2 DEF TailRec, Phase
<1> HIDE DEF r
<1> QED  BY <1>3, <1>4, TailUpdate

(* The evaluated file is new, and its real path's entry refers to it. *)
LEMMA ReadFileIInv ==
  ASSUME IInv, NEW t \in DOMAIN tails, ReadFile(t)
  PROVE  IInv'
<1>1. tails \in Seq(TailRec) /\ vals \in Seq(ValRec) /\ tails[t] \in TailRec
  BY Records
<1>2. CASE ~files.translates[tails[t].real]
  <2> DEFINE r == [tails[t] EXCEPT !.phase = "err"]
  <2>1. r \in TailRec /\ r.key = tails[t].key /\ r.phase # "adopt"
    BY <1>1 DEF TailRec, Phase
  <2>2. tails' = [tails EXCEPT ![t] = r] /\ UNCHANGED <<files, cache, vals, requests>>
    BY <1>2 DEF ReadFile
  <2> HIDE DEF r
  <2> QED  BY <2>1, <2>2, TailUpdate
<1>3. CASE files.translates[tails[t].real]
  <2> DEFINE p == tails[t].real
             n == Len(vals) + 1
             e == [real |-> p, pos |-> 1, phase |-> "run", wait |-> None]
             r == [tails[t] EXCEPT !.phase = "adopt", !.val = n]
  <2>1. /\ vals' = Append(vals, e)
        /\ cache' = [cache EXCEPT ![p] = ValRef(n)]
        /\ tails' = [tails EXCEPT ![t] = r]
        /\ files' = files /\ requests' = requests
    BY <1>3 DEF ReadFile
  <2>2. p \in Path /\ e \in ValRec /\ e.pos = 1 /\ e.wait = None
    BY <1>1, Refs DEF TailRec, ValRec, Phase
  <2>3. n \in Nat
    BY <1>1
  <2>4. r \in TailRec /\ r.key = tails[t].key /\ r.val = n
    BY <1>1, <2>3 DEF TailRec, Phase
  <2> HIDE DEF e, r
  <2>5. /\ vals' \in Seq(ValRec) /\ DOMAIN vals' = DOMAIN vals \cup {n}
        /\ \A v \in DOMAIN vals : vals'[v] = vals[v]
        /\ vals'[n] = e
    BY <1>1, <2>1, <2>2, AppendSeq
  <2>6. /\ tails' \in Seq(TailRec) /\ DOMAIN tails' = DOMAIN tails
        /\ tails'[t] = r
        /\ \A s \in DOMAIN tails : s # t => tails'[s] = tails[s]
    BY <1>1, <2>1, <2>4, UpdateSeq
  <2>7. /\ cache' \in [Path -> Ref] /\ cache'[p] = ValRef(n)
        /\ \A q \in Path : q # p => cache'[q] = cache[q]
    BY <2>1, <2>2, <2>3, Refs DEF IInv, TypeOK
  <2>8. ValRef(n).of = "val" /\ ValRef(n).n = n /\ ValRef(n) # None
    BY <2>3, Refs DEF ValRef
  <2> HIDE DEF p, n
  <2>9. \A q \in Path : Exists(cache[q])'
    <3> SUFFICES ASSUME NEW q \in Path PROVE Exists(cache[q])'  OBVIOUS
    <3>1. CASE q = p
      BY <2>5, <2>7, <2>8, <3>1 DEF Exists
    <3>2. CASE q # p
      <4>1. Exists(cache[q])
        BY DEF IInv, TypeOK
      <4> QED  BY <2>5, <2>6, <2>7, <3>2, <4>1 DEF Exists
    <3> QED  BY <3>1, <3>2
  <2>10. \A v \in DOMAIN vals' : Exists(vals[v].wait)'
    <3> SUFFICES ASSUME NEW v \in DOMAIN vals' PROVE Exists(vals[v].wait)'  OBVIOUS
    <3>1. CASE v = n
      BY <2>2, <2>5, <3>1 DEF Exists, None
    <3>2. CASE v \in DOMAIN vals
      <4>1. Exists(vals[v].wait)
        BY <3>2 DEF IInv, TypeOK
      <4> QED  BY <2>5, <2>6, <3>2, <4>1 DEF Exists
    <3> QED  BY <2>5, <3>1, <3>2
  <2>11. \A i \in DOMAIN requests' : Exists(requests[i].ref)' /\ requests'[i].ref # None
    BY <2>1, <2>5, <2>6 DEF IInv, TypeOK, Exists
  <2>12. \A s \in DOMAIN tails' : tails'[s].phase = "adopt" => tails'[s].val \in DOMAIN vals'
    BY <2>4, <2>5, <2>6 DEF IInv, TypeOK
  <2>13. TypeOK'
    <3>1. files' \in FileSystems /\ requests' \in Seq([path : Path, ref : Ref])
      BY <2>1 DEF IInv, TypeOK
    <3> QED  BY <2>5, <2>6, <2>7, <2>9, <2>10, <2>11, <2>12, <3>1
             DEF TypeOK, TailRec, ValRec
  <2>14. Positions'
    BY <2>2, <2>5 DEF IInv, Positions
  <2>15. \A s \in DOMAIN tails : tails'[s].key = tails[s].key /\ tails[s].key \in Path
    <3>1. \A s \in DOMAIN tails : tails[s] \in TailRec
      BY Records
    <3> QED  BY <2>4, <2>6, <3>1 DEF TailRec
  <2>16. TailsCached' /\ OneTailPerKey'
    BY <2>6, <2>7, <2>8, <2>15 DEF IInv, TailsCached, OneTailPerKey
  <2> QED  BY <2>13, <2>14, <2>16 DEF IInv
<1> QED  BY <1>2, <1>3

----------------------------------------------------------------------------
(* Evaluation, and requests from outside *)
LEMMA EvalDoneIInv ==
  ASSUME IInv, NEW v \in DOMAIN vals, EvalDone(v)
  PROVE  IInv'
<1> DEFINE r == [vals[v] EXCEPT !.phase = "ok"]
<1>1. vals[v] \in ValRec /\ vals[v].pos >= 1 /\ Exists(vals[v].wait)
  BY Records DEF IInv, TypeOK, Positions
<1>2. r \in ValRec /\ r.pos = vals[v].pos /\ r.wait = vals[v].wait
  BY <1>1 DEF ValRec, Phase
<1>3. vals' = [vals EXCEPT ![v] = r] /\ UNCHANGED <<files, cache, tails, requests>>
  BY DEF EvalDone
<1> HIDE DEF r
<1> QED  BY <1>1, <1>2, <1>3, ValUpdate

LEMMA EvalResumeIInv ==
  ASSUME IInv, NEW v \in DOMAIN vals, EvalResume(v)
  PROVE  IInv'
<1> DEFINE go == [vals[v] EXCEPT !.phase = "run", !.pos = vals[v].pos + 1]
           stop == [vals[v] EXCEPT !.phase = "err"]
<1>1. vals[v] \in ValRec /\ vals[v].pos >= 1 /\ Exists(vals[v].wait)
  BY Records DEF IInv, TypeOK, Positions
<1>2. go \in ValRec /\ go.pos >= 1 /\ go.wait = vals[v].wait
  <2>1. vals[v].pos + 1 \in Nat /\ vals[v].pos + 1 >= 1
    BY <1>1 DEF ValRec
  <2>2. go.pos = vals[v].pos + 1 /\ go.wait = vals[v].wait
    BY <1>1 DEF ValRec
  <2>3. go \in ValRec
    BY <1>1, <2>1 DEF ValRec, Phase
  <2> QED  BY <2>1, <2>2, <2>3
<1>3. stop \in ValRec /\ stop.pos >= 1 /\ stop.wait = vals[v].wait
  BY <1>1 DEF ValRec, Phase
<1>4. \/ vals' = [vals EXCEPT ![v] = go]
      \/ vals' = [vals EXCEPT ![v] = stop]
  BY DEF EvalResume
<1>5. UNCHANGED <<files, cache, tails, requests>>
  BY DEF EvalResume
<1> HIDE DEF go, stop
<1> QED  BY <1>1, <1>2, <1>3, <1>4, <1>5, ValUpdate

(* What a call of import_ leaves true of cache and tails. *)
LEMMA ImportKeeps ==
  ASSUME IInv, NEW p \in Path, import_(p), DOMAIN vals' = DOMAIN vals
  PROVE  /\ \A q \in Path : Exists(cache[q])'
         /\ \A t \in DOMAIN tails' :
              tails'[t].phase = "adopt" => tails'[t].val \in DOMAIN vals'
         /\ TailsCached'
         /\ OneTailPerKey'
<1>1. DOMAIN tails \subseteq DOMAIN tails' /\ \A t \in DOMAIN tails : tails'[t] = tails[t]
  BY ImportCall
<1>2. \A q \in Path : Exists(cache[q])'
  <2> SUFFICES ASSUME NEW q \in Path PROVE Exists(cache[q])'  OBVIOUS
  <2>1. Exists(cache[q])
    BY DEF IInv, TypeOK
  <2>2. \/ cache'[q] = cache[q]
        \/ cache'[q].of = "tail" /\ cache'[q].n \in DOMAIN tails'
    BY ImportCall
  <2> QED  BY <1>1, <2>1, <2>2 DEF Exists
<1>3. \A t \in DOMAIN tails' \ DOMAIN tails :
         tails'[t].phase = "read" /\ tails'[t].key = p /\ cache[p] = None
  BY ImportCall
<1>4. \A t \in DOMAIN tails' :
         tails'[t].phase = "adopt" => tails'[t].val \in DOMAIN vals'
  BY <1>1, <1>3 DEF IInv, TypeOK
<1>5. \A t \in DOMAIN tails : tails[t].key \in Path /\ cache[tails[t].key] # None
  BY Records DEF IInv, TailsCached, TailRec
<1>6. TailsCached'
  <2>1. cache'[p] # None /\ \A q \in Path : cache[q] # None => cache'[q] = cache[q]
    BY ImportCall
  <2> QED  BY <1>1, <1>3, <1>5, <2>1 DEF TailsCached
<1>7. OneTailPerKey'
  <2>1. \A s, t \in DOMAIN tails' \ DOMAIN tails : s = t
    BY ImportCall
  <2>2. \A s, t \in DOMAIN tails : tails[s].key = tails[t].key => s = t
    BY DEF IInv, OneTailPerKey
  <2> QED  BY <1>1, <1>3, <1>5, <2>1, <2>2 DEF OneTailPerKey
<1> QED  BY <1>2, <1>4, <1>6, <1>7

LEMMA EvalImportIInv ==
  ASSUME IInv, NEW v \in DOMAIN vals, EvalImport(v)
  PROVE  IInv'
<1> DEFINE p == Deps(v)[vals[v].pos]
<1>1. vals[v] \in ValRec /\ vals[v].pos >= 1 /\ Exists(vals[v].wait)
  BY Records DEF IInv, TypeOK, Positions
<1>2. CASE p = BadPath
  <2> DEFINE r == [vals[v] EXCEPT !.phase = "err"]
  <2>1. r \in ValRec /\ r.pos = vals[v].pos /\ r.wait = vals[v].wait
    BY <1>1 DEF ValRec, Phase
  <2>2. vals' = [vals EXCEPT ![v] = r] /\ UNCHANGED <<files, cache, tails, requests>>
    BY <1>2 DEF EvalImport
  <2> HIDE DEF r
  <2> QED  BY <1>1, <2>1, <2>2, ValUpdate
<1>3. CASE p # BadPath
  <2>1. PICK q \in Path : q = p
    <3>1. files.deps \in [Path -> Seq(Path \cup {BadPath})]
      BY ImportAssumption DEF IInv, TypeOK, FileSystem
    <3>2. Deps(v) \in Seq(Path \cup {BadPath})
      BY <1>1, <3>1 DEF Deps, ValRec
    <3>3. vals[v].pos \in 1 .. Len(Deps(v))
      BY <1>1, <3>2 DEF EvalImport, ValRec
    <3>4. p \in Path \cup {BadPath}
      BY <3>2, <3>3
    <3> QED  BY <1>3, <3>4
  <2> DEFINE r == [vals[v] EXCEPT !.phase = "wait", !.wait = cache'[q]]
  <2>2. import_(q) /\ vals' = [vals EXCEPT ![v] = r] /\ UNCHANGED <<files, requests>>
    BY <1>3, <2>1 DEF EvalImport
  <2>3. cache' \in [Path -> Ref] /\ tails' \in Seq(TailRec)
    BY <2>1, <2>2, ImportCall
  <2>4. DOMAIN tails \subseteq DOMAIN tails'
    BY <2>1, <2>2, ImportCall
  <2>5. r \in ValRec /\ r.pos = vals[v].pos /\ r.wait = cache'[q]
    BY <1>1, <2>1, <2>3 DEF ValRec, Phase
  <2> HIDE DEF r
  <2>6. /\ vals' \in Seq(ValRec) /\ DOMAIN vals' = DOMAIN vals
        /\ vals'[v] = r
        /\ \A s \in DOMAIN vals : s # v => vals'[s] = vals[s]
    BY <2>2, <2>5, Records, UpdateSeq
  <2>7. /\ \A x \in Path : Exists(cache[x])'
        /\ \A t \in DOMAIN tails' :
             tails'[t].phase = "adopt" => tails'[t].val \in DOMAIN vals'
        /\ TailsCached' /\ OneTailPerKey'
    BY <2>1, <2>2, <2>6, ImportKeeps
  <2>8. \A s \in DOMAIN vals' : Exists(vals[s].wait)'
    <3> SUFFICES ASSUME NEW s \in DOMAIN vals' PROVE Exists(vals[s].wait)'  OBVIOUS
    <3>1. CASE s = v
      <4>1. Exists(cache[q])'
        BY <2>1, <2>7
      <4> QED  BY <2>5, <2>6, <3>1, <4>1 DEF Exists
    <3>2. CASE s # v
      <4>1. Exists(vals[s].wait)
        BY <2>6 DEF IInv, TypeOK
      <4> QED  BY <2>4, <2>6, <3>2, <4>1 DEF Exists
    <3> QED  BY <3>1, <3>2
  <2>9. /\ files' \in FileSystems /\ requests' \in Seq([path : Path, ref : Ref])
        /\ \A i \in DOMAIN requests' : Exists(requests[i].ref)' /\ requests'[i].ref # None
    BY <2>2, <2>4, <2>6 DEF IInv, TypeOK, Exists
  <2>10. Positions'
    BY <1>1, <2>5, <2>6 DEF IInv, Positions
  <2> QED  BY <2>3, <2>6, <2>7, <2>8, <2>9, <2>10 DEF IInv, TypeOK, TailRec, ValRec
<1> QED  BY <1>2, <1>3

LEMMA RequestIInv ==
  ASSUME IInv, NEW p \in Path, Request(p)
  PROVE  IInv'
<1> DEFINE r == [path |-> p, ref |-> cache'[p]]
           Req == [path : Path, ref : Ref]
<1>1. import_(p) /\ requests' = Append(requests, r) /\ UNCHANGED <<files, vals>>
  BY DEF Request
<1>2. cache' \in [Path -> Ref] /\ tails' \in Seq(TailRec) /\ cache'[p] # None
  BY <1>1, ImportCall
<1>3. DOMAIN tails \subseteq DOMAIN tails'
  BY <1>1, ImportCall
<1>4. r \in Req /\ r.ref = cache'[p]
  BY <1>2
<1>5. requests \in Seq(Req)
  BY DEF IInv, TypeOK
<1> HIDE DEF r, Req
<1>6. /\ requests' \in Seq(Req)
      /\ DOMAIN requests' = DOMAIN requests \cup {Len(requests) + 1}
      /\ \A i \in DOMAIN requests : requests'[i] = requests[i]
      /\ requests'[Len(requests) + 1] = r
  BY <1>1, <1>4, <1>5, AppendSeq
<1>7. /\ \A q \in Path : Exists(cache[q])'
      /\ \A t \in DOMAIN tails' :
           tails'[t].phase = "adopt" => tails'[t].val \in DOMAIN vals'
      /\ TailsCached' /\ OneTailPerKey'
  BY <1>1, ImportKeeps
<1>8. \A i \in DOMAIN requests' : Exists(requests[i].ref)' /\ requests'[i].ref # None
  <2> SUFFICES ASSUME NEW i \in DOMAIN requests'
               PROVE  Exists(requests[i].ref)' /\ requests'[i].ref # None
    OBVIOUS
  <2>1. CASE i = Len(requests) + 1
    <3>1. Exists(cache[p])'
      BY <1>7
    <3> QED  BY <1>2, <1>4, <1>6, <2>1, <3>1 DEF Exists
  <2>2. CASE i \in DOMAIN requests
    <3>1. Exists(requests[i].ref) /\ requests[i].ref # None
      BY <2>2 DEF IInv, TypeOK
    <3> QED  BY <1>1, <1>3, <1>6, <2>2, <3>1 DEF Exists
  <2> QED  BY <1>6, <2>1, <2>2
<1>9. /\ files' \in FileSystems /\ vals' \in Seq(ValRec)
      /\ \A v \in DOMAIN vals' : Exists(vals[v].wait)'
      /\ Positions'
  BY <1>1, <1>3, Records DEF IInv, TypeOK, Positions, Exists
<1> QED  BY <1>2, <1>6, <1>7, <1>8, <1>9 DEF IInv, TypeOK, TailRec, ValRec, Req

----------------------------------------------------------------------------
LEMMA StepIInv == IInv /\ [Next]_vars => IInv'
<1> SUFFICES ASSUME IInv, [Next]_vars PROVE IInv'  OBVIOUS
<1>1. ASSUME NEW p \in Path, Request(p) PROVE IInv'
  BY <1>1, RequestIInv
<1>2. ASSUME NEW t \in DOMAIN tails, TailStep(t) PROVE IInv'
  BY <1>2, ReadFailedIInv, ReadDirectoryIInv, ReadFileIInv, AdoptIInv DEF TailStep
<1>3. ASSUME NEW v \in DOMAIN vals, ValStep(v) PROVE IInv'
  BY <1>3, EvalImportIInv, EvalResumeIInv, EvalDoneIInv DEF ValStep
<1>4. CASE UNCHANGED vars
  BY <1>4 DEF vars, IInv, TypeOK, Positions, TailsCached, OneTailPerKey, Exists
<1> QED  BY <1>1, <1>2, <1>3, <1>4 DEF Next

(* The inductive invariant: what is held exists, and whoever was loaded    *)
(* stays in the cache.                                                     *)
THEOREM CacheInvariance == Spec => []IInv
<1>1. Init => IInv
  BY InitIInv
<1>2. IInv /\ [Next]_vars => IInv'
  BY StepIInv
<1> QED  BY <1>1, <1>2, PTL DEF Spec

(* Types; every promise that the cache, a waiting file or a requester      *)
(* holds is one that some call of importTail or evaluation provides.       *)
THEOREM ImportTypeCorrect == Spec => []TypeOK
<1>1. IInv => TypeOK
  BY DEF IInv
<1> QED  BY <1>1, CacheInvariance, PTL

(* importTail is called once per name, however imports interleave and      *)
(* whichever of them fail.                                                 *)
THEOREM LoadedOnce == Spec => []OneTailPerKey
<1>1. IInv => OneTailPerKey
  BY DEF IInv
<1> QED  BY <1>1, CacheInvariance, PTL

----------------------------------------------------------------------------
(* A step changes the record of a call or of a file only while that is not *)
(* settled; entries of the cache are replaced, never removed.              *)
LEMMA TailStepSettled ==
  ASSUME IInv, NEW t \in DOMAIN tails, TailStep(t)
  PROVE  SettledStep
<1>1. tails[t].phase \in {"read", "redirected", "adopt"}
  BY DEF TailStep, ReadFailed, ReadDirectory, ReadFile, Adopt, Reading
<1>2. \A s \in DOMAIN tails : s # t => tails'[s] = tails[s]
  BY DEF TailStep, ReadFailed, ReadDirectory, ReadFile, Adopt, IInv, TypeOK
<1>3. \A v \in DOMAIN vals : vals'[v] = vals[v]
  <2>1. CASE ReadFile(t)
    <3> DEFINE e == [real |-> tails[t].real, pos |-> 1, phase |-> "run", wait |-> None]
    <3>1. vals' = vals \/ vals' = Append(vals, e)
      BY <2>1 DEF ReadFile
    <3> HIDE DEF e
    <3>2. vals \in Seq(ValRec)
      BY Records
    <3> QED  BY <3>1, <3>2
  <2>2. CASE vals' = vals
    BY <2>2
  <2> QED  BY <2>1, <2>2 DEF TailStep, ReadFailed, ReadDirectory, Adopt
<1>4. \A p \in Path : cache[p] # None => cache'[p] # None
  <2>1. CASE ReadFile(t)
    <3>1. Len(vals) + 1 \in Nat
      BY Records
    <3>2. ValRef(Len(vals) + 1) # None
      BY <3>1, Refs
    <3>3. \/ cache' = cache
          \/ cache' = [cache EXCEPT ![tails[t].real] = ValRef(Len(vals) + 1)]
      BY <2>1 DEF ReadFile
    <3>4. cache \in [Path -> Ref]
      BY DEF IInv, TypeOK
    <3> QED  BY <3>2, <3>3, <3>4
  <2>2. CASE cache' = cache
    BY <2>2
  <2> QED  BY <2>1, <2>2 DEF TailStep, ReadFailed, ReadDirectory, Adopt
<1> QED  BY <1>1, <1>2, <1>3, <1>4 DEF SettledStep

LEMMA ValStepSettled ==
  ASSUME IInv, NEW v \in DOMAIN vals, ValStep(v)
  PROVE  SettledStep
<1>1. vals[v].phase \in {"run", "wait"}
  BY DEF ValStep, EvalImport, EvalResume, EvalDone
<1>2. \A s \in DOMAIN vals : s # v => vals'[s] = vals[s]
  BY DEF ValStep, EvalImport, EvalResume, EvalDone, IInv, TypeOK
<1>3. /\ \A t \in DOMAIN tails : tails'[t] = tails[t]
      /\ \A p \in Path : cache[p] # None => cache'[p] # None
  <2>1. CASE UNCHANGED <<cache, tails>>
    BY <2>1
  <2>2. ASSUME NEW p \in Path, import_(p)
        PROVE  /\ \A t \in DOMAIN tails : tails'[t] = tails[t]
               /\ \A q \in Path : cache[q] # None => cache'[q] # None
    <3>1. /\ \A t \in DOMAIN tails : tails'[t] = tails[t]
          /\ \A q \in Path : cache[q] # None => cache'[q] = cache[q]
      BY <2>2, ImportCall
    <3> QED  BY <3>1
  <2>3. CASE EvalImport(v) /\ ~UNCHANGED <<cache, tails>>
    <3> DEFINE p == Deps(v)[vals[v].pos]
    <3>1. p # BadPath /\ import_(p)
      BY <2>3 DEF EvalImport
    <3>2. files.deps \in [Path -> Seq(Path \cup {BadPath})]
      BY ImportAssumption DEF IInv, TypeOK, FileSystem
    <3>3. vals[v] \in ValRec /\ vals[v].pos >= 1
      BY Records DEF IInv, Positions
    <3>4. Deps(v) \in Seq(Path \cup {BadPath})
      BY <3>2, <3>3 DEF Deps, ValRec
    <3>5. vals[v].pos \in 1 .. Len(Deps(v))
      BY <2>3, <3>3, <3>4 DEF EvalImport, ValRec
    <3>6. p \in Path
      BY <3>1, <3>4, <3>5
    <3> HIDE DEF p
    <3> QED  BY <2>2, <3>1, <3>6
  <2> QED  BY <2>1, <2>3 DEF ValStep, EvalResume, EvalDone
<1> QED  BY <1>1, <1>2, <1>3 DEF SettledStep

(* A promise settles once and for all, and no name leaves the cache: a     *)
(* failed import stays failed for everyone who asks later.                 *)
THEOREM SettledForever == Spec => SettledStays
<1>1. IInv /\ [Next]_vars => [SettledStep]_vars
  <2> SUFFICES ASSUME IInv, Next PROVE SettledStep  OBVIOUS
  <2>1. ASSUME NEW p \in Path, Request(p) PROVE SettledStep
    <3>1. import_(p) /\ vals' = vals
      BY <2>1 DEF Request
    <3>2. /\ \A t \in DOMAIN tails : tails'[t] = tails[t]
          /\ \A q \in Path : cache[q] # None => cache'[q] = cache[q]
      BY <3>1, ImportCall
    <3> QED  BY <3>1, <3>2 DEF SettledStep
  <2> QED  BY <2>1, TailStepSettled, ValStepSettled DEF Next
<1> QED  BY <1>1, CacheInvariance, PTL DEF Spec, SettledStays

----------------------------------------------------------------------------
(***************************************************************************)
(* AnswersAgree.  A name's call of importTail leads to one value, and a    *)
(* value in the cache was put there by such a call: by the one of the same *)
(* name, or of a directory whose default.nix it is.                        *)
(***************************************************************************)
Way(r) ==
  /\ r.phase = "read" => r.real = r.key
  /\ r.real # r.key => files.kind[r.key] = "dir" /\ files.dflt[r.key] = r.real
  /\ r.phase \in {"read", "redirected"} => r.val = 0
  /\ r.phase = "ok" => r.val \in DOMAIN vals /\ vals[r.val].phase = "ok"
  /\ r.phase = "err" /\ r.val # 0 => r.val \in DOMAIN vals /\ vals[r.val].phase = "err"

Ways == \A t \in DOMAIN tails : Way(tails[t])

Owned == \A v \in DOMAIN vals : \E t \in DOMAIN tails :
           tails[t].val = v /\ tails[t].real = vals[v].real

(* The promise ref was given out for the name p. *)
Names(ref, p) ==
  \/ ref.of = "tail" /\ ref.n \in DOMAIN tails /\ tails[ref.n].key = p
  \/ ref.of = "val" /\ ref.n \in DOMAIN vals /\ vals[ref.n].real = p

Named ==
  /\ \A p \in Path : cache[p] = None \/ Names(cache[p], p)
  /\ \A i \in DOMAIN requests : Names(requests[i].ref, requests[i].path)

AInv == Ways /\ Owned /\ Named

(* A step of one call of importTail that makes no value. *)
LEMMA TailUpdateAInv ==
  ASSUME IInv, AInv, NEW t \in DOMAIN tails, NEW r,
         r.key = tails[t].key, r.val = tails[t].val,
         r.real = tails[t].real \/ r.val = 0, Way(r),
         tails' = [tails EXCEPT ![t] = r],
         UNCHANGED <<files, cache, vals, requests>>
  PROVE  AInv'
<1>1. /\ DOMAIN tails' = DOMAIN tails /\ tails'[t] = r
      /\ \A s \in DOMAIN tails : s # t => tails'[s] = tails[s]
  BY DEF IInv, TypeOK
<1>2. Ways'
  BY <1>1 DEF AInv, Ways, Way
<1>3. \A v \in DOMAIN vals : v # 0
  BY Records
<1>4. Owned'
  <2> SUFFICES ASSUME NEW v \in DOMAIN vals
               PROVE  \E s \in DOMAIN tails : tails'[s].val = v /\ tails'[s].real = vals[v].real
    BY <1>1 DEF Owned
  <2>1. PICK s \in DOMAIN tails : tails[s].val = v /\ tails[s].real = vals[v].real
    BY DEF AInv, Owned
  <2>2. tails'[s].val = v /\ tails'[s].real = vals[v].real
    BY <1>1, <1>3, <2>1
  <2> QED  BY <2>2
<1>5. \A s \in DOMAIN tails : tails'[s].key = tails[s].key
  BY <1>1
<1>6. Named'
  BY <1>1, <1>5 DEF AInv, Named, Names
<1> QED  BY <1>2, <1>4, <1>6 DEF AInv

(* A step that may call importTail for new names and give out what the     *)
(* cache holds, and changes files that are not settled.                    *)
LEMMA GrowthAInv ==
  ASSUME IInv, AInv, files' = files,
         DOMAIN tails \subseteq DOMAIN tails',
         \A t \in DOMAIN tails : tails'[t] = tails[t],
         \A t \in DOMAIN tails' \ DOMAIN tails : \E p \in Path : tails'[t] = Tail0(p),
         DOMAIN vals' = DOMAIN vals,
         \A v \in DOMAIN vals : vals'[v].real = vals[v].real,
         \A v \in DOMAIN vals : vals[v].phase \in {"ok", "err"} => vals'[v] = vals[v],
         \A q \in Path : cache'[q] = cache[q] \/ Names(cache[q], q)',
         \A i \in DOMAIN requests' : \/ i \in DOMAIN requests /\ requests'[i] = requests[i]
                                     \/ Names(requests[i].ref, requests[i].path)'
  PROVE  AInv'
<1>1. \A t \in DOMAIN tails : tails'[t].key = tails[t].key
  OBVIOUS
<1>2. Ways'
  <2> SUFFICES ASSUME NEW t \in DOMAIN tails'
               PROVE  Way(tails[t])'
    BY DEF Ways
  <2>1. CASE t \in DOMAIN tails
    <3> DEFINE r == tails[t]
    <3>1. Way(r) /\ tails'[t] = r
      BY <2>1 DEF AInv, Ways
    <3> QED  BY <3>1 DEF Way
  <2>2. CASE t \notin DOMAIN tails
    <3>1. PICK p \in Path : tails'[t] = Tail0(p)
      BY <2>2
    <3> QED  BY <3>1 DEF Way, Tail0
  <2> QED  BY <2>1, <2>2
<1>3. Owned'
  BY DEF AInv, Owned
<1>4. ASSUME NEW p \in Path
      PROVE  cache'[p] = None \/ Names(cache[p], p)'
  BY <1>1 DEF AInv, Named, Names
<1>5. ASSUME NEW i \in DOMAIN requests'
      PROVE  Names(requests[i].ref, requests[i].path)'
  BY <1>1 DEF AInv, Named, Names
<1> QED  BY <1>2, <1>3, <1>4, <1>5 DEF AInv, Named

(* What import_ adds to the cache is the promise of the call it makes. *)
LEMMA ImportNames ==
  ASSUME IInv, AInv, NEW p \in Path, import_(p), DOMAIN vals' = DOMAIN vals,
         \A v \in DOMAIN vals : vals'[v].real = vals[v].real
  PROVE  /\ DOMAIN tails \subseteq DOMAIN tails'
         /\ \A t \in DOMAIN tails : tails'[t] = tails[t]
         /\ \A t \in DOMAIN tails' \ DOMAIN tails : tails'[t] = Tail0(p)
         /\ \A q \in Path : cache'[q] = cache[q] \/ Names(cache[q], q)'
         /\ Names(cache[p], p)'
<1> DEFINE n == Len(tails) + 1
<1>1. cache \in [Path -> Ref] /\ tails \in Seq(TailRec)
  BY Records DEF IInv, TypeOK
<1>2. CASE Missing(p)
  <2>1. /\ cache' = [cache EXCEPT ![p] = TailRef(n)]
        /\ tails' = Append(tails, Tail0(p))
    BY <1>2 DEF import_
  <2>2. Tail0(p) \in TailRec /\ Tail0(p).key = p
    BY DEF Tail0, TailRec, Phase
  <2>3. /\ DOMAIN tails' = DOMAIN tails \cup {n}
        /\ \A t \in DOMAIN tails : tails'[t] = tails[t]
        /\ tails'[n] = Tail0(p)
    BY <1>1, <2>1, <2>2, AppendSeq
  <2>4. cache'[p] = TailRef(n) /\ \A q \in Path : q # p => cache'[q] = cache[q]
    BY <1>1, <2>1
  <2>5. TailRef(n).of = "tail" /\ TailRef(n).n = n
    BY DEF TailRef
  <2> HIDE DEF n
  <2>6. Names(cache[p], p)'
    BY <2>2, <2>3, <2>4, <2>5 DEF Names
  <2> QED  BY <2>3, <2>4, <2>6
<1>3. CASE ~Missing(p)
  <2>1. cache' = cache /\ tails' = tails /\ cache[p] # None
    BY <1>3 DEF import_, Missing
  <2>2. Names(cache[p], p)
    BY <2>1 DEF AInv, Named
  <2> QED  BY <2>1, <2>2 DEF Names
<1> QED  BY <1>2, <1>3

LEMMA ReadFailedAInv ==
  ASSUME IInv, AInv, NEW t \in DOMAIN tails, Reading(t),
         tails' = [tails EXCEPT ![t].phase = "err"],
         UNCHANGED <<files, cache, vals, requests>>
  PROVE  AInv'
<1> DEFINE r == [tails[t] EXCEPT !.phase = "err"]
<1>1. tails[t] \in TailRec /\ Way(tails[t])
  BY Records DEF AInv, Ways
<1>2. /\ r.key = tails[t].key /\ r.val = tails[t].val /\ r.real = tails[t].real
      /\ r.phase = "err"
  BY <1>1 DEF TailRec
<1>3. tails' = [tails EXCEPT ![t] = r]
  OBVIOUS
<1> HIDE DEF r
<1>4. Way(r)
  BY <1>1, <1>2 DEF Way, Reading
<1> QED  BY <1>2, <1>3, <1>4, TailUpdateAInv

LEMMA ReadDirectoryAInv ==
  ASSUME IInv, AInv, NEW t \in DOMAIN tails, ReadDirectory(t)
  PROVE  AInv'
<1> DEFINE r == [tails[t] EXCEPT !.phase = "redirected",
                                 !.real = files.dflt[tails[t].real]]
<1>1. tails[t] \in TailRec /\ Way(tails[t]) /\ tails[t].phase = "read"
  BY Records DEF AInv, Ways, ReadDirectory
<1>2. tails[t].real = tails[t].key /\ tails[t].val = 0 /\ files.kind[tails[t].key] = "dir"
  BY <1>1 DEF Way, ReadDirectory
<1>3. /\ r.key = tails[t].key /\ r.val = 0 /\ r.real = files.dflt[tails[t].key]
      /\ r.phase = "redirected"
  BY <1>1, <1>2 DEF TailRec
<1>4. tails' = [tails EXCEPT ![t] = r] /\ UNCHANGED <<files, cache, vals, requests>>
  BY DEF ReadDirectory
<1> HIDE DEF r
<1>5. Way(r)
  BY <1>2, <1>3 DEF Way
<1> QED  BY <1>2, <1>3, <1>4, <1>5, TailUpdateAInv

LEMMA AdoptAInv ==
  ASSUME IInv, AInv, NEW t \in DOMAIN tails, Adopt(t)
  PROVE  AInv'
<1> DEFINE v == tails[t].val
           r == [tails[t] EXCEPT !.phase = vals[v].phase]
<1>1. tails[t] \in TailRec /\ Way(tails[t]) /\ v \in DOMAIN vals
  BY Records DEF AInv, Ways, Adopt, IInv, TypeOK
<1>2. State(ValRef(v)) = vals[v].phase
  BY DEF State, ValRef
<1>3. vals[v].phase \in {"ok", "err"}
  BY <1>2 DEF Adopt, Settled, Fulfilled, Rejected
<1>4. /\ r.key = tails[t].key /\ r.val = v /\ r.real = tails[t].real
      /\ r.phase = vals[v].phase
  BY <1>1 DEF TailRec
<1>5. tails' = [tails EXCEPT ![t] = r] /\ UNCHANGED <<files, cache, vals, requests>>
  BY <1>2 DEF Adopt
<1> HIDE DEF r
<1>6. Way(r)
  BY <1>1, <1>3, <1>4 DEF Way
<1> QED  BY <1>4, <1>5, <1>6, TailUpdateAInv

LEMMA ReadFileAInv ==
  ASSUME IInv, AInv, NEW t \in DOMAIN tails, ReadFile(t)
  PROVE  AInv'
<1>1. CASE ~files.translates[tails[t].real]
  BY <1>1, ReadFailedAInv DEF ReadFile
<1>2. CASE files.translates[tails[t].real]
  <2> DEFINE p == tails[t].real
             n == Len(vals) + 1
             e == [real |-> p, pos |-> 1, phase |-> "run", wait |-> None]
             r == [tails[t] EXCEPT !.phase = "adopt", !.val = n]
  <2>1. /\ vals' = Append(vals, e)
        /\ cache' = [cache EXCEPT ![p] = ValRef(n)]
        /\ tails' = [tails EXCEPT ![t] = r]
        /\ files' = files /\ requests' = requests
    BY <1>2 DEF ReadFile
  <2>2. tails[t] \in TailRec /\ Way(tails[t]) /\ p \in Path
    BY Records DEF AInv, Ways, TailRec
  <2>3. tails[t].val = 0
    BY <2>2 DEF ReadFile, Reading, Way
  <2>4. /\ r.key = tails[t].key /\ r.val = n /\ r.real = p /\ r.phase = "adopt"
    BY <2>2 DEF TailRec
  <2>5. e \in ValRec /\ e.real = p /\ vals \in Seq(ValRec)
    BY <2>2, Refs, Records DEF ValRec, Phase
  <2> HIDE DEF e, r
  <2>6. /\ DOMAIN vals' = DOMAIN vals \cup {n} /\ n \notin DOMAIN vals
        /\ \A v \in DOMAIN vals : vals'[v] = vals[v] /\ v # 0
        /\ vals'[n] = e
    BY <2>1, <2>5, AppendSeq
  <2>7. /\ DOMAIN tails' = DOMAIN tails /\ tails'[t] = r
        /\ \A s \in DOMAIN tails : s # t => tails'[s] = tails[s]
    BY <2>1
  <2>8. /\ cache'[p] = ValRef(n) /\ ValRef(n).of = "val" /\ ValRef(n).n = n
        /\ \A q \in Path : q # p => cache'[q] = cache[q]
    BY <2>1, <2>2 DEF IInv, TypeOK, ValRef
  <2>9. \A s \in DOMAIN tails : tails'[s].key = tails[s].key
    BY <2>4, <2>7
  <2>10. \A v \in DOMAIN vals : vals'[v].real = vals[v].real
    BY <2>6
  <2> HIDE DEF n
  <2>11. Ways'
    <3> SUFFICES ASSUME NEW s \in DOMAIN tails
                 PROVE  Way(tails[s])'
      BY <2>7 DEF Ways
    <3>1. CASE s = t
      BY <2>1, <2>2, <2>4, <2>7, <3>1 DEF Way
    <3>2. CASE s # t
      BY <2>1, <2>6, <2>7, <3>2 DEF AInv, Ways, Way
    <3> QED  BY <3>1, <3>2
  <2>12. Owned'
    <3> SUFFICES ASSUME NEW v \in DOMAIN vals'
                 PROVE  \E s \in DOMAIN tails' :
                          tails'[s].val = v /\ tails'[s].real = vals'[v].real
      BY DEF Owned
    <3>1. CASE v = n
      BY <2>4, <2>5, <2>6, <2>7, <3>1
    <3>2. CASE v \in DOMAIN vals
      <4>1. PICK s \in DOMAIN tails : tails[s].val = v /\ tails[s].real = vals[v].real
        BY <3>2 DEF AInv, Owned
      <4>2. s # t
        BY <2>3, <2>6, <3>2, <4>1
      <4> QED  BY <2>6, <2>7, <3>2, <4>1, <4>2
    <3> QED  BY <2>6, <3>1, <3>2
  <2>13. ASSUME NEW q \in Path
         PROVE  cache'[q] = None \/ Names(cache[q], q)'
    <3>1. CASE q = p
      BY <2>5, <2>6, <2>8, <3>1 DEF Names
    <3>2. CASE q # p
      BY <2>6, <2>7, <2>8, <2>9, <2>10, <3>2 DEF AInv, Named, Names
    <3> QED  BY <3>1, <3>2
  <2>14. \A i \in DOMAIN requests' : Names(requests[i].ref, requests[i].path)'
    BY <2>1, <2>6, <2>7, <2>9, <2>10 DEF AInv, Named, Names
  <2> QED  BY <2>11, <2>12, <2>13, <2>14 DEF AInv, Named
<1> QED  BY <1>1, <1>2

(* Evaluation of a file changes its record, never the path it was read from. *)
LEMMA ValUpdates ==
  ASSUME IInv, NEW v \in DOMAIN vals, ValStep(v)
  PROVE  /\ files' = files /\ requests' = requests
         /\ DOMAIN vals' = DOMAIN vals
         /\ \A s \in DOMAIN vals : vals'[s].real = vals[s].real
         /\ \A s \in DOMAIN vals : vals[s].phase \in {"ok", "err"} => vals'[s] = vals[s]
<1>1. vals \in Seq(ValRec) /\ vals[v] \in ValRec
  BY Records
<1>2. files' = files /\ requests' = requests
  BY DEF ValStep, EvalImport, EvalResume, EvalDone
<1>3. PICK r : vals' = [vals EXCEPT ![v] = r] /\ r.real = vals[v].real
  <2>1. CASE EvalImport(v)
    <3> DEFINE stop == [vals[v] EXCEPT !.phase = "err"]
               hold == [vals[v] EXCEPT !.phase = "wait",
                                       !.wait = cache'[Deps(v)[vals[v].pos]]]
    <3>1. stop.real = vals[v].real /\ hold.real = vals[v].real
      BY <1>1 DEF ValRec
    <3>2. vals' = [vals EXCEPT ![v] = stop] \/ vals' = [vals EXCEPT ![v] = hold]
      BY <2>1 DEF EvalImport
    <3> HIDE DEF stop, hold
    <3> QED  BY <3>1, <3>2
  <2>2. CASE EvalResume(v)
    <3> DEFINE stop == [vals[v] EXCEPT !.phase = "err"]
               go == [vals[v] EXCEPT !.phase = "run", !.pos = vals[v].pos + 1]
    <3>1. stop.real = vals[v].real /\ go.real = vals[v].real
      BY <1>1 DEF ValRec
    <3>2. vals' = [vals EXCEPT ![v] = stop] \/ vals' = [vals EXCEPT ![v] = go]
      BY <2>2 DEF EvalResume
    <3> HIDE DEF stop, go
    <3> QED  BY <3>1, <3>2
  <2>3. CASE EvalDone(v)
    <3> DEFINE end == [vals[v] EXCEPT !.phase = "ok"]
    <3>1. end.real = vals[v].real /\ vals' = [vals EXCEPT ![v] = end]
      BY <1>1, <2>3 DEF ValRec, EvalDone
    <3> HIDE DEF end
    <3> QED  BY <3>1
  <2> QED  BY <2>1, <2>2, <2>3 DEF ValStep
<1>4. vals[v].phase \in {"run", "wait"}
  BY DEF ValStep, EvalImport, EvalResume, EvalDone
<1> QED  BY <1>1, <1>2, <1>3, <1>4

LEMMA ValStepAInv ==
  ASSUME IInv, AInv, NEW v \in DOMAIN vals, ValStep(v)
  PROVE  AInv'
<1>1. /\ files' = files /\ requests' = requests
      /\ DOMAIN vals' = DOMAIN vals
      /\ \A s \in DOMAIN vals : vals'[s].real = vals[s].real
      /\ \A s \in DOMAIN vals : vals[s].phase \in {"ok", "err"} => vals'[s] = vals[s]
  BY ValUpdates
<1>2. CASE UNCHANGED <<cache, tails>>
  BY <1>1, <1>2, GrowthAInv
<1>3. CASE EvalImport(v) /\ ~UNCHANGED <<cache, tails>>
  <2> DEFINE p == Deps(v)[vals[v].pos]
  <2>1. p # BadPath /\ import_(p)
    BY <1>3 DEF EvalImport
  <2>2. files.deps \in [Path -> Seq(Path \cup {BadPath})]
    BY ImportAssumption DEF IInv, TypeOK, FileSystem
  <2>3. vals[v] \in ValRec /\ vals[v].pos >= 1
    BY Records DEF IInv, Positions
  <2>4. Deps(v) \in Seq(Path \cup {BadPath})
    BY <2>2, <2>3 DEF Deps, ValRec
  <2>5. vals[v].pos \in 1 .. Len(Deps(v))
    BY <1>3, <2>3, <2>4 DEF EvalImport, ValRec
  <2>6. p \in Path
    BY <2>1, <2>4, <2>5
  <2> HIDE DEF p
  <2>7. /\ DOMAIN tails \subseteq DOMAIN tails'
        /\ \A t \in DOMAIN tails : tails'[t] = tails[t]
        /\ \A t \in DOMAIN tails' \ DOMAIN tails : tails'[t] = Tail0(p)
        /\ \A q \in Path : cache'[q] = cache[q] \/ Names(cache[q], q)'
    BY <1>1, <2>1, <2>6, ImportNames
  <2>8. \A t \in DOMAIN tails' \ DOMAIN tails : \E q \in Path : tails'[t] = Tail0(q)
    BY <2>6, <2>7
  <2> QED  BY <1>1, <2>7, <2>8, GrowthAInv
<1> QED  BY <1>2, <1>3 DEF ValStep, EvalResume, EvalDone

LEMMA RequestAInv ==
  ASSUME IInv, AInv, NEW p \in Path, Request(p)
  PROVE  AInv'
<1> DEFINE r == [path |-> p, ref |-> cache'[p]]
           Req == [path : Path, ref : Ref]
<1>1. import_(p) /\ requests' = Append(requests, r) /\ files' = files /\ vals' = vals
  BY DEF Request
<1>2. /\ DOMAIN tails \subseteq DOMAIN tails'
      /\ \A t \in DOMAIN tails : tails'[t] = tails[t]
      /\ \A t \in DOMAIN tails' \ DOMAIN tails : tails'[t] = Tail0(p)
      /\ \A q \in Path : cache'[q] = cache[q] \/ Names(cache[q], q)'
      /\ Names(cache[p], p)'
  BY <1>1, ImportNames
<1>3. \A t \in DOMAIN tails' \ DOMAIN tails : \E q \in Path : tails'[t] = Tail0(q)
  BY <1>2
<1>4. r \in Req /\ r.path = p /\ r.ref = cache'[p]
  BY <1>1, ImportCall
<1>5. requests \in Seq(Req)
  BY DEF IInv, TypeOK
<1> HIDE DEF r, Req
<1>6. /\ DOMAIN requests' = DOMAIN requests \cup {Len(requests) + 1}
      /\ \A i \in DOMAIN requests : requests'[i] = requests[i]
      /\ requests'[Len(requests) + 1] = r
  BY <1>1, <1>4, <1>5, AppendSeq
<1>7. ASSUME NEW i \in DOMAIN requests'
      PROVE  \/ i \in DOMAIN requests /\ requests'[i] = requests[i]
             \/ Names(requests[i].ref, requests[i].path)'
  <2>1. CASE i \in DOMAIN requests
    BY <1>6, <2>1
  <2>2. CASE i = Len(requests) + 1
    BY <1>2, <1>4, <1>6, <2>2 DEF Names
  <2> QED  BY <1>6, <2>1, <2>2
<1> QED  BY <1>1, <1>2, <1>3, <1>7, GrowthAInv

(* All promises given out for a name that is no default.nix lead to the    *)
(* value of that name's one call of importTail.                            *)
LEMMA OneAnswer ==
  ASSUME IInv, AInv, NEW p \in Path, Aliases(p) = {},
         NEW r, NEW s, Names(r, p), Names(s, p), r.of = "val"
  PROVE  \/ s.of = "val" /\ s.n = r.n
         \/ s.of = "tail" /\ s.n \in DOMAIN tails /\ tails[s.n].val = r.n /\ r.n # 0
<1>1. r.n \in DOMAIN vals /\ vals[r.n].real = p /\ r.n # 0
  BY Records DEF Names
<1>2. ASSUME NEW v \in DOMAIN vals, vals[v].real = p
      PROVE  \E t \in DOMAIN tails : tails[t].val = v /\ tails[t].key = p
  <2>1. PICK t \in DOMAIN tails : tails[t].val = v /\ tails[t].real = p
    BY <1>2 DEF AInv, Owned
  <2>2. tails[t].key \in Path /\ Way(tails[t])
    BY Records DEF TailRec, AInv, Ways
  <2>3. tails[t].key = p
    BY <2>1, <2>2 DEF Way, Aliases
  <2> QED  BY <2>1, <2>3
<1>3. PICK t \in DOMAIN tails : tails[t].val = r.n /\ tails[t].key = p
  BY <1>1, <1>2
<1>4. CASE s.of = "tail"
  BY <1>1, <1>3, <1>4 DEF Names, IInv, OneTailPerKey
<1>5. CASE s.of = "val"
  <2>1. PICK u \in DOMAIN tails : tails[u].val = s.n /\ tails[u].key = p
    BY <1>2, <1>5 DEF Names
  <2> QED  BY <1>3, <1>5, <2>1 DEF IInv, OneTailPerKey
<1> QED  BY <1>4, <1>5 DEF Names

LEMMA AInvAgrees ==
  ASSUME IInv, AInv
  PROVE  AnswersAgree
<1> SUFFICES ASSUME NEW i \in DOMAIN requests, NEW j \in DOMAIN requests,
                    requests[i].path = requests[j].path,
                    Aliases(requests[i].path) = {},
                    Settled(requests[i].ref), Settled(requests[j].ref)
             PROVE  /\ State(requests[i].ref) = State(requests[j].ref)
                    /\ Fulfilled(requests[i].ref) =>
                         ValueOf(requests[i].ref) = ValueOf(requests[j].ref)
  BY DEF AnswersAgree
<1> DEFINE r == requests[i].ref
           s == requests[j].ref
           p == requests[i].path
<1>1. p \in Path /\ Aliases(p) = {} /\ Names(r, p) /\ Names(s, p) /\ Settled(r) /\ Settled(s)
  <2>1. requests[i] \in [path : Path, ref : Ref]
    BY ElementSeq DEF IInv, TypeOK
  <2>2. Names(requests[i].ref, requests[i].path) /\ Names(requests[j].ref, requests[j].path)
    BY DEF AInv, Named
  <2> QED  BY <2>1, <2>2
<1> HIDE DEF r, s, p
(* The promise of a call agrees with the value that the call led to. *)
<1>2. ASSUME NEW t \in DOMAIN tails, tails[t].val # 0, tails[t].phase \in {"ok", "err"}
      PROVE  vals[tails[t].val].phase = tails[t].phase
  BY <1>2 DEF AInv, Ways, Way
<1>3. ASSUME NEW x, NEW y, Names(x, p), Names(y, p), Settled(x), Settled(y), x.of = "val"
      PROVE  State(x) = State(y) /\ ValueOf(x) = ValueOf(y)
  <2>1. \/ y.of = "val" /\ y.n = x.n
        \/ y.of = "tail" /\ y.n \in DOMAIN tails /\ tails[y.n].val = x.n /\ x.n # 0
    BY <1>1, <1>3, OneAnswer
  <2> QED  BY <1>2, <1>3, <2>1 DEF State, ValueOf, Settled, Fulfilled, Rejected
<1>4. CASE r.of = "val"
  BY <1>1, <1>3, <1>4 DEF r, s
<1>5. CASE s.of = "val"
  BY <1>1, <1>3, <1>5 DEF r, s
<1>6. CASE r.of # "val" /\ s.of # "val"
  <2>1. r.of = "tail" /\ s.of = "tail" /\ r.n = s.n
    BY <1>1, <1>6 DEF Names, IInv, OneTailPerKey
  <2>2. State(r) = State(s) /\ ValueOf(r) = ValueOf(s)
    BY <2>1 DEF State, ValueOf
  <2> QED  BY <2>2 DEF r, s
<1> QED  BY <1>4, <1>5, <1>6

(* Every value was made by a call of importTail, and every promise given   *)
(* out for a name is that of the name's call or a value of its file.       *)
THEOREM ServedByOne == Spec => []AInv
<1>1. Init => AInv
  BY DEF Init, AInv, Ways, Owned, Named
<1>2. IInv /\ AInv /\ [Next]_vars => AInv'
  <2> SUFFICES ASSUME IInv, AInv, [Next]_vars PROVE AInv'  OBVIOUS
  <2>1. ASSUME NEW p \in Path, Request(p) PROVE AInv'
    BY <2>1, RequestAInv
  <2>2. ASSUME NEW t \in DOMAIN tails, TailStep(t) PROVE AInv'
    <3>1. CASE ReadFailed(t)
      BY <3>1, ReadFailedAInv DEF ReadFailed
    <3>2. CASE ReadDirectory(t) \/ ReadFile(t) \/ Adopt(t)
      BY <3>2, ReadDirectoryAInv, ReadFileAInv, AdoptAInv
    <3> QED  BY <2>2, <3>1, <3>2 DEF TailStep
  <2>3. ASSUME NEW v \in DOMAIN vals, ValStep(v) PROVE AInv'
    BY <2>3, ValStepAInv
  <2>4. CASE UNCHANGED vars
    BY <2>4 DEF vars, AInv, Ways, Way, Owned, Named, Names
  <2> QED  BY <2>1, <2>2, <2>3, <2>4 DEF Next
<1> QED  BY <1>1, <1>2, CacheInvariance, PTL DEF Spec

(* Callers who ask for the same name get the same answer, the same value   *)
(* included, whether the cache gave them the promise of importTail or the  *)
(* value that replaced it (mock-runtime.mjs import_ and importTail).       *)
THEOREM SameAnswer == Spec => []AnswersAgree
<1>1. IInv /\ AInv => AnswersAgree
  BY AInvAgrees
<1> QED  BY <1>1, CacheInvariance, ServedByOne, PTL

----------------------------------------------------------------------------
(***************************************************************************)
(* AnswersMatchFiles.  A name is good when its file has been evaluated to  *)
(* the end.  Evaluation passes good names only, so that everything         *)
(* reachable from a good name is good; a file is on no cycle because it    *)
(* was not good when all it imports was.  A failure is traced to a name    *)
(* that is to blame for it.                                                *)
(***************************************************************************)
Good(p) == \E v \in DOMAIN vals : vals[v].real = Target(p) /\ vals[v].phase = "ok"

FailureTraced(p) == \E q \in Reach({p}) : Blamed(q)

Resolved == \A t \in DOMAIN tails : tails[t].val # 0 =>
              tails[t].val \in DOMAIN vals /\ vals[tails[t].val].real = Target(tails[t].key)

(* The imports of file v before the one it has come to. *)
Passed(v) == {j \in DOMAIN Deps(v) : j < vals[v].pos}

Evaluation(v) ==
  /\ files.kind[vals[v].real] = "file" /\ files.translates[vals[v].real]
  /\ \A j \in Passed(v) : Deps(v)[j] \in Path /\ Good(Deps(v)[j])
  /\ vals[v].phase = "ok" => vals[v].pos > Len(Deps(v))
  /\ vals[v].phase = "wait" => /\ vals[v].pos \in DOMAIN Deps(v)
                               /\ Deps(v)[vals[v].pos] \in Path
                               /\ Names(vals[v].wait, Deps(v)[vals[v].pos])
  /\ vals[v].phase = "err" => \A p \in Path : Target(p) = vals[v].real => FailureTraced(p)

GoodOffCycles == \A p \in Path : Good(p) => ~OnCycle(p)

MInv == Resolved /\ (\A v \in DOMAIN vals : Evaluation(v)) /\ GoodOffCycles

(* Reachability *)
LEMMA ReachHolds ==
  ASSUME NEW S, S \subseteq Path
  PROVE  S \subseteq Reach(S)
  BY DEF Reach

LEMMA ReachWithin ==
  ASSUME NEW S, NEW T \in SUBSET Path, S \subseteq T, Closed(T)
  PROVE  Reach(S) \subseteq T
  BY DEF Reach

LEMMA ReachDep ==
  ASSUME NEW p \in Path, NEW q \in Path, q \in DepsOf(p)
  PROVE  Reach({q}) \subseteq Reach({p})
<1>1. q # BadPath
  BY ImportAssumption
<1>2. ASSUME NEW T \in SUBSET Path, {p} \subseteq T, Closed(T)
      PROVE  {q} \subseteq T
  BY <1>1, <1>2 DEF Closed
<1> QED  BY <1>2 DEF Reach

(* Types *)
LEMMA FileFacts ==
  ASSUME IInv
  PROVE  /\ files.deps \in [Path -> Seq(Path \cup {BadPath})]
         /\ \A p \in Path : Target(p) \in Path
  BY ImportAssumption DEF IInv, TypeOK, FileSystem, Target

LEMMA DepsFacts ==
  ASSUME IInv, NEW v \in DOMAIN vals
  PROVE  /\ Deps(v) \in Seq(Path \cup {BadPath})
         /\ vals[v].real \in Path /\ vals[v].pos \in Nat /\ vals[v].pos >= 1
         /\ DOMAIN Deps(v) = 1 .. Len(Deps(v)) /\ Len(Deps(v)) \in Nat
<1>1. vals[v] \in ValRec /\ vals[v].pos >= 1
  BY Records DEF IInv, Positions
<1>2. Deps(v) \in Seq(Path \cup {BadPath})
  BY <1>1, FileFacts DEF Deps, ValRec
<1> QED  BY <1>1, <1>2 DEF ValRec

(* A file that is good has imported all it imports. *)
LEMMA GoodDeps ==
  ASSUME IInv, MInv, NEW p \in Path, NEW v \in DOMAIN vals, vals[v].real = Target(p),
         vals[v].pos > Len(Deps(v))
  PROVE  \A q \in DepsOf(p) : q \in Path /\ Good(q)
<1>1. Deps(v) = files.deps[Target(p)]
  BY DEF Deps
<1>2. \A j \in DOMAIN Deps(v) : j \in Passed(v)
  BY DepsFacts DEF Passed
<1>3. \A j \in DOMAIN Deps(v) : Deps(v)[j] \in Path /\ Good(Deps(v)[j])
  BY <1>2 DEF MInv, Evaluation
<1> QED  BY <1>1, <1>3 DEF DepsOf

GoodNames == {p \in Path : Good(p)}

LEMMA GoodClosed ==
  ASSUME IInv, MInv
  PROVE  Closed(GoodNames)
<1> SUFFICES ASSUME NEW p \in Path, Good(p), NEW q \in DepsOf(p)
             PROVE  q \in Path /\ Good(q)
  BY DEF Closed, GoodNames
<1>1. PICK v \in DOMAIN vals : vals[v].real = Target(p) /\ vals[v].phase = "ok"
  BY DEF Good
<1>2. vals[v].pos > Len(Deps(v))
  BY <1>1 DEF MInv, Evaluation
<1> QED  BY <1>1, <1>2, GoodDeps

(* What a settled promise that was given out for p tells about p. *)
LEMMA AnswerTells ==
  ASSUME IInv, AInv, MInv, NEW p \in Path, NEW ref, Names(ref, p)
  PROVE  /\ Fulfilled(ref) => Good(p) /\ vals[ValueOf(ref)].real = Target(p)
         /\ Rejected(ref) => FailureTraced(p)
<1>1. ASSUME NEW v \in DOMAIN vals, vals[v].real = Target(p)
      PROVE  /\ vals[v].phase = "ok" => Good(p)
             /\ vals[v].phase = "err" => FailureTraced(p)
  BY <1>1 DEF Good, MInv, Evaluation
<1>2. CASE ref.of = "tail"
  <2> DEFINE t == ref.n
  <2>1. t \in DOMAIN tails /\ tails[t].key = p /\ Way(tails[t])
    BY <1>2 DEF Names, AInv, Ways
  <2>2. State(ref) = tails[t].phase /\ ValueOf(ref) = tails[t].val
    BY <1>2 DEF State, ValueOf
  <2> HIDE DEF t
  <2>3. tails[t].val # 0 => tails[t].val \in DOMAIN vals /\ vals[tails[t].val].real = Target(p)
    BY <2>1 DEF MInv, Resolved
  <2>4. ASSUME tails[t].phase = "ok"
        PROVE  Good(p) /\ vals[tails[t].val].real = Target(p)
    <3>1. tails[t].val \in DOMAIN vals /\ vals[tails[t].val].phase = "ok"
      BY <2>1, <2>4 DEF Way
    <3>2. tails[t].val # 0
      BY <3>1, Records
    <3> QED  BY <1>1, <2>3, <3>1, <3>2
  <2>5. ASSUME tails[t].phase = "err"
        PROVE  FailureTraced(p)
    <3>1. CASE tails[t].val = 0
      <4>1. Blamed(p)
        BY <2>1, <2>5, <3>1 DEF Blamed
      <4>2. p \in Reach({p})
        BY ReachHolds
      <4> QED  BY <4>1, <4>2 DEF FailureTraced
    <3>2. CASE tails[t].val # 0
      BY <1>1, <2>1, <2>3, <2>5, <3>2 DEF Way
    <3> QED  BY <3>1, <3>2
  <2> QED  BY <2>2, <2>4, <2>5 DEF Fulfilled, Rejected
<1>3. CASE ref.of = "val"
  <2>1. ref.n \in DOMAIN vals /\ vals[ref.n].real = p
    BY <1>3 DEF Names
  <2>2. files.kind[p] = "file"
    BY <2>1 DEF MInv, Evaluation
  <2>3. Target(p) = p
    BY <2>2 DEF Target
  <2>4. State(ref) = vals[ref.n].phase /\ ValueOf(ref) = ref.n
    BY <1>3 DEF State, ValueOf
  <2> QED  BY <1>1, <2>1, <2>3, <2>4 DEF Fulfilled, Rejected
<1> QED  BY <1>2, <1>3 DEF Names

LEMMA MInvMatches ==
  ASSUME IInv, AInv, MInv
  PROVE  AnswersMatchFiles
<1> SUFFICES ASSUME NEW i \in DOMAIN requests
             PROVE  LET p == requests[i].path
                        ref == requests[i].ref
                    IN /\ Fulfilled(ref) => /\ vals[ValueOf(ref)].real = Target(p)
                                            /\ \A q \in Reach({p}) : Sound(q)
                       /\ Rejected(ref) => \E q \in Reach({p}) : Blamed(q)
  BY DEF AnswersMatchFiles
<1> DEFINE p == requests[i].path
           ref == requests[i].ref
<1>1. requests[i] \in [path : Path, ref : Ref] /\ Names(ref, p)
  BY ElementSeq DEF IInv, TypeOK, AInv, Named
<1>2. p \in Path /\ Names(ref, p)
  BY <1>1
<1> HIDE DEF p, ref
<1>3. /\ Fulfilled(ref) => Good(p) /\ vals[ValueOf(ref)].real = Target(p)
      /\ Rejected(ref) => \E q \in Reach({p}) : Blamed(q)
  BY <1>2, AnswerTells DEF FailureTraced
<1>4. ASSUME NEW q \in Path, Good(q)
      PROVE  Sound(q)
  <2>1. PICK v \in DOMAIN vals : vals[v].real = Target(q) /\ vals[v].phase = "ok"
    BY <1>4 DEF Good
  <2>2. /\ files.kind[Target(q)] = "file" /\ files.translates[Target(q)]
        /\ vals[v].pos > Len(Deps(v))
    BY <2>1 DEF MInv, Evaluation
  <2>3. BadPath \notin DepsOf(q)
    BY <2>1, <2>2, GoodDeps, ImportAssumption
  <2>4. ~OnCycle(q)
    BY <1>4 DEF MInv, GoodOffCycles
  <2> QED  BY <2>2, <2>3, <2>4 DEF Sound
<1>5. ASSUME Good(p)
      PROVE  \A q \in Reach({p}) : Sound(q)
  <2>1. GoodNames \in SUBSET Path /\ {p} \subseteq GoodNames
    BY <1>2, <1>5 DEF GoodNames
  <2>2. Reach({p}) \subseteq GoodNames
    BY <2>1, GoodClosed, ReachWithin
  <2> QED  BY <1>4, <2>2 DEF GoodNames
<1> QED  BY <1>3, <1>5 DEF p, ref

(* What every step keeps: the files, the names of calls, the paths that    *)
(* values were read from, and what is settled.                             *)
Keeps ==
  /\ files' = files /\ SettledStep
  /\ DOMAIN tails \subseteq DOMAIN tails' /\ DOMAIN vals \subseteq DOMAIN vals'
  /\ \A t \in DOMAIN tails : tails'[t].key = tails[t].key
  /\ \A v \in DOMAIN vals : vals'[v].real = vals[v].real

LEMMA TailStepKeeps ==
  ASSUME IInv, NEW t \in DOMAIN tails, TailStep(t)
  PROVE  /\ Keeps /\ DOMAIN tails' = DOMAIN tails
         /\ \A s \in DOMAIN tails : s # t => tails'[s] = tails[s]
<1>1. /\ tails \in Seq(TailRec) /\ vals \in Seq(ValRec) /\ tails[t] \in TailRec
  BY Records
<1>2. files' = files
  BY DEF TailStep, ReadFailed, ReadDirectory, ReadFile, Adopt
<1>3. PICK r : tails' = [tails EXCEPT ![t] = r] /\ r.key = tails[t].key
  <2> DEFINE fail == [tails[t] EXCEPT !.phase = "err"]
             dir == [tails[t] EXCEPT !.phase = "redirected",
                                     !.real = files.dflt[tails[t].real]]
             eval == [tails[t] EXCEPT !.phase = "adopt", !.val = Len(vals) + 1]
             adopt == [tails[t] EXCEPT !.phase = State(ValRef(tails[t].val))]
  <2>1. /\ fail.key = tails[t].key /\ dir.key = tails[t].key
        /\ eval.key = tails[t].key /\ adopt.key = tails[t].key
    BY <1>1 DEF TailRec
  <2>2. \/ tails' = [tails EXCEPT ![t] = fail] \/ tails' = [tails EXCEPT ![t] = dir]
        \/ tails' = [tails EXCEPT ![t] = eval] \/ tails' = [tails EXCEPT ![t] = adopt]
    BY DEF TailStep, ReadFailed, ReadDirectory, ReadFile, Adopt
  <2> HIDE DEF fail, dir, eval, adopt
  <2> QED  BY <2>1, <2>2
<1>4. /\ DOMAIN tails' = DOMAIN tails
      /\ \A s \in DOMAIN tails : s # t => tails'[s] = tails[s]
      /\ \A s \in DOMAIN tails : tails'[s].key = tails[s].key
  BY <1>1, <1>3
<1>5. DOMAIN vals \subseteq DOMAIN vals' /\ \A v \in DOMAIN vals : vals'[v] = vals[v]
  <2>1. CASE ReadFile(t)
    <3> DEFINE e == [real |-> tails[t].real, pos |-> 1, phase |-> "run", wait |-> None]
    <3>1. vals' = vals \/ vals' = Append(vals, e)
      BY <2>1 DEF ReadFile
    <3> HIDE DEF e
    <3> QED  BY <1>1, <3>1
  <2>2. CASE vals' = vals
    BY <2>2
  <2> QED  BY <2>1, <2>2 DEF TailStep, ReadFailed, ReadDirectory, Adopt
<1> QED  BY <1>2, <1>4, <1>5, TailStepSettled DEF Keeps

(* What only the files decide does not change. *)
LEMMA FilesDecide ==
  ASSUME files' = files
  PROVE  /\ \A p : Target(p)' = Target(p) /\ DepsOf(p)' = DepsOf(p)
         /\ \A p : Reach({p})' = Reach({p})
         /\ \A p : OnCycle(p)' <=> OnCycle(p)
<1>1. \A p : Target(p)' = Target(p) /\ DepsOf(p)' = DepsOf(p)
  BY DEF Target, DepsOf
<1>2. \A T : Closed(T)' <=> Closed(T)
  BY <1>1 DEF Closed
<1>3. \A S : Reach(S)' = Reach(S)
  BY <1>2 DEF Reach
<1> QED  BY <1>1, <1>3 DEF OnCycle

LEMMA TracedStays ==
  ASSUME Keeps, NEW p
  PROVE  /\ Good(p) => Good(p)'
         /\ FailureTraced(p) => FailureTraced(p)'
<1>1. Target(p)' = Target(p) /\ Reach({p})' = Reach({p}) /\ \A q : DepsOf(q)' = DepsOf(q)
  BY FilesDecide DEF Keeps
<1>2. \A q : Blamed(q) => Blamed(q)'
  BY <1>1 DEF Blamed, Keeps, SettledStep
<1> QED  BY <1>1, <1>2 DEF Good, FailureTraced, Keeps, SettledStep

LEMMA EvaluationStays ==
  ASSUME IInv, MInv, Keeps, NEW v \in DOMAIN vals, vals'[v] = vals[v]
  PROVE  Evaluation(v)'
<1>1. Evaluation(v)
  BY DEF MInv
<1>2. files' = files /\ Deps(v)' = Deps(v) /\ Passed(v)' = Passed(v)
  BY DEF Keeps, Deps, Passed
<1>3. \A j \in Passed(v) : Deps(v)[j] \in Path /\ Good(Deps(v)[j])'
  <2> SUFFICES ASSUME NEW j \in Passed(v)
               PROVE  Deps(v)[j] \in Path /\ Good(Deps(v)[j])'
    OBVIOUS
  <2>1. PICK q \in Path : q = Deps(v)[j] /\ Good(q)
    BY <1>1 DEF Evaluation
  <2>2. Good(q)'
    BY <2>1, TracedStays
  <2> QED  BY <1>2, <2>1, <2>2 DEF Good, Target
<1>4. vals[v].phase = "wait" =>
        /\ vals[v].pos \in DOMAIN Deps(v) /\ Deps(v)[vals[v].pos] \in Path
        /\ Names(vals[v].wait, Deps(v)[vals[v].pos])'
  BY <1>1, <1>2 DEF Evaluation, Names, Keeps
<1>5. ASSUME vals[v].phase = "err", NEW p \in Path, Target(p)' = vals[v].real
      PROVE  FailureTraced(p)'
  <2>1. Target(p) = vals[v].real
    BY <1>2, <1>5, FilesDecide
  <2> QED  BY <1>1, <1>5, <2>1, TracedStays DEF Evaluation
<1> QED  BY <1>1, <1>2, <1>3, <1>4, <1>5 DEF Evaluation

(* No file has become good. *)
LEMMA NoNewGood ==
  ASSUME MInv, files' = files,
         \A v \in DOMAIN vals' : vals'[v].phase = "ok" =>
           v \in DOMAIN vals /\ vals[v].phase = "ok" /\ vals'[v].real = vals[v].real
  PROVE  GoodOffCycles'
<1>1. ASSUME NEW p \in Path, Good(p)'
      PROVE  ~OnCycle(p)'
  <2>1. Good(p)
    BY <1>1, FilesDecide DEF Good
  <2> QED  BY <2>1, FilesDecide DEF MInv, GoodOffCycles
<1> QED  BY <1>1 DEF GoodOffCycles

(* A step of one call of importTail that makes no value. *)
LEMMA TailUpdateMInv ==
  ASSUME IInv, MInv, Keeps, DOMAIN tails' = DOMAIN tails, vals' = vals,
         \A t \in DOMAIN tails : tails'[t].val = tails[t].val
  PROVE  MInv'
<1>1. Resolved'
  BY FilesDecide DEF MInv, Resolved, Keeps
<1>2. \A v \in DOMAIN vals' : Evaluation(v)'
  BY EvaluationStays
<1>3. GoodOffCycles'
  BY NoNewGood DEF Keeps
<1> QED  BY <1>1, <1>2, <1>3 DEF MInv

LEMMA TailStepMInv ==
  ASSUME IInv, AInv, MInv, NEW t \in DOMAIN tails, TailStep(t)
  PROVE  MInv'
<1>1. /\ Keeps /\ DOMAIN tails' = DOMAIN tails
      /\ \A s \in DOMAIN tails : s # t => tails'[s] = tails[s]
  BY TailStepKeeps
<1>2. /\ tails \in Seq(TailRec) /\ vals \in Seq(ValRec) /\ tails[t] \in TailRec
      /\ Way(tails[t])
  BY Records DEF AInv, Ways
<1>3. CASE vals' = vals
  <2>1. tails'[t].val = tails[t].val
    <3>1. CASE ReadFailed(t) \/ ReadDirectory(t) \/ Adopt(t)
      BY <1>2, <3>1 DEF ReadFailed, ReadDirectory, Adopt, TailRec
    <3>2. CASE ReadFile(t) /\ ~files.translates[tails[t].real]
      BY <1>2, <3>2 DEF ReadFile, TailRec
    <3>3. CASE ReadFile(t) /\ files.translates[tails[t].real]
      <4> DEFINE e == [real |-> tails[t].real, pos |-> 1, phase |-> "run", wait |-> None]
      <4>1. vals' = Append(vals, e)
        BY <3>3 DEF ReadFile
      <4> HIDE DEF e
      <4>2. Len(vals') = Len(vals) + 1 /\ Len(vals) \in Nat
        BY <1>2, <4>1
      <4> QED  BY <1>3, <4>2
    <3> QED  BY <3>1, <3>2, <3>3 DEF TailStep
  <2>2. \A s \in DOMAIN tails : tails'[s].val = tails[s].val
    BY <1>1, <2>1
  <2> QED  BY <1>1, <1>3, <2>2, TailUpdateMInv
<1>4. CASE vals' # vals
  <2>0. PICK n : n = Len(vals) + 1
    OBVIOUS
  <2> DEFINE p == tails[t].real
             e == [real |-> p, pos |-> 1, phase |-> "run", wait |-> None]
             r == [tails[t] EXCEPT !.phase = "adopt", !.val = n]
  <2>1. /\ vals' = Append(vals, e) /\ tails' = [tails EXCEPT ![t] = r]
        /\ files.kind[p] = "file" /\ files.translates[p]
    BY <1>4, <2>0 DEF TailStep, ReadFailed, ReadDirectory, ReadFile, Adopt
  <2>2. r.key = tails[t].key /\ r.val = n
    BY <1>2 DEF TailRec
  <2>3. /\ e \in ValRec /\ e.real = p /\ e.pos = 1 /\ e.phase = "run"
    BY <1>2, Refs DEF ValRec, TailRec, Phase
  <2> HIDE DEF e, r
  <2>4. /\ DOMAIN vals' = DOMAIN vals \cup {n} /\ n \in Nat
        /\ \A v \in DOMAIN vals : vals'[v] = vals[v]
        /\ vals'[n] = e
    BY <1>2, <2>0, <2>1, <2>3, AppendSeq
  <2>5. tails'[t] = r
    BY <2>1
  <2>6. Target(tails[t].key) = p
    BY <1>2, <2>1 DEF Way, Target
  <2>7. Resolved'
    <3> SUFFICES ASSUME NEW s \in DOMAIN tails, tails'[s].val # 0
                 PROVE  /\ tails'[s].val \in DOMAIN vals'
                        /\ vals'[tails'[s].val].real = Target(tails'[s].key)
      BY <1>1, FilesDecide DEF Resolved, Keeps
    <3> HIDE DEF p
    <3>1. CASE s = t
      BY <2>2, <2>3, <2>4, <2>5, <2>6, <3>1
    <3>2. CASE s # t
      BY <1>1, <2>4, <3>2 DEF MInv, Resolved
    <3> QED  BY <3>1, <3>2
  <2>8. Evaluation(n)'
    <3>1. Passed(n)' = {}
      <4>1. vals'[n].pos = 1 /\ Deps(n)' = files.deps[p]
        BY <1>1, <2>3, <2>4 DEF Deps, Keeps
      <4>2. files.deps[p] \in Seq(Path \cup {BadPath})
        BY <1>2, FileFacts DEF TailRec
      <4> QED  BY <4>1, <4>2 DEF Passed
    <3> QED  BY <1>1, <2>1, <2>3, <2>4, <3>1 DEF Evaluation, Keeps
  <2>9. \A v \in DOMAIN vals : Evaluation(v)'
    BY <1>1, <2>4, EvaluationStays
  <2>10. GoodOffCycles'
    <3>1. \A v \in DOMAIN vals' : vals'[v].phase = "ok" =>
            v \in DOMAIN vals /\ vals[v].phase = "ok" /\ vals'[v].real = vals[v].real
      BY <2>3, <2>4
    <3> QED  BY <1>1, <3>1, NoNewGood DEF Keeps
  <2> QED  BY <2>4, <2>7, <2>8, <2>9, <2>10 DEF MInv
<1> QED  BY <1>3, <1>4

(* A step that makes no value; v is the file whose evaluation it is, if    *)
(* there is one.                                                           *)
LEMMA GrowthMInv ==
  ASSUME IInv, MInv, Keeps, DOMAIN vals' = DOMAIN vals,
         \A t \in DOMAIN tails : tails'[t] = tails[t],
         \A t \in DOMAIN tails' \ DOMAIN tails : \E p \in Path : tails'[t] = Tail0(p),
         \A v \in DOMAIN vals : vals'[v] = vals[v] \/ Evaluation(v)',
         GoodOffCycles'
  PROVE  MInv'
<1>1. \A t \in DOMAIN tails' \ DOMAIN tails : tails'[t].val = 0
  BY DEF Tail0
<1>2. Resolved'
  BY <1>1, FilesDecide DEF MInv, Resolved, Keeps
<1>3. \A v \in DOMAIN vals' : Evaluation(v)'
  BY EvaluationStays
<1> QED  BY <1>2, <1>3 DEF MInv

LEMMA RequestMInv ==
  ASSUME IInv, AInv, MInv, NEW p \in Path, Request(p)
  PROVE  MInv'
<1>1. import_(p) /\ files' = files /\ vals' = vals
  BY DEF Request
<1>2. /\ DOMAIN tails \subseteq DOMAIN tails'
      /\ \A t \in DOMAIN tails : tails'[t] = tails[t]
      /\ \A t \in DOMAIN tails' \ DOMAIN tails : tails'[t] = Tail0(p)
  BY <1>1, ImportNames
<1>3. \A q \in Path : cache[q] # None => cache'[q] # None
  <2>1. \A q \in Path : cache[q] # None => cache'[q] = cache[q]
    BY <1>1, ImportCall
  <2> QED  BY <2>1
<1>4. Keeps
  BY <1>1, <1>2, <1>3 DEF Keeps, SettledStep
<1>5. GoodOffCycles'
  BY <1>1, NoNewGood
<1> QED  BY <1>1, <1>2, <1>4, <1>5, GrowthMInv

(* The calls of importTail after a step of an evaluation. *)
LEMMA ValStepTails ==
  ASSUME IInv, AInv, NEW v \in DOMAIN vals, ValStep(v)
  PROVE  /\ Keeps /\ \A t \in DOMAIN tails : tails'[t] = tails[t]
         /\ \A t \in DOMAIN tails' \ DOMAIN tails : \E p \in Path : tails'[t] = Tail0(p)
<1>1. /\ files' = files /\ DOMAIN vals' = DOMAIN vals
      /\ \A s \in DOMAIN vals : vals'[s].real = vals[s].real
  BY ValUpdates
<1>2. /\ DOMAIN tails \subseteq DOMAIN tails'
      /\ \A t \in DOMAIN tails : tails'[t] = tails[t]
      /\ \A t \in DOMAIN tails' \ DOMAIN tails : \E p \in Path : tails'[t] = Tail0(p)
  <2>1. CASE tails' = tails
    BY <2>1
  <2>2. CASE EvalImport(v) /\ tails' # tails
    <3> DEFINE p == Deps(v)[vals[v].pos]
    <3>1. p # BadPath /\ import_(p) /\ vals[v].pos <= Len(Deps(v))
      BY <2>2 DEF EvalImport
    <3>2. p \in Path
      BY <3>1, DepsFacts
    <3> HIDE DEF p
    <3>3. /\ DOMAIN tails \subseteq DOMAIN tails'
          /\ \A t \in DOMAIN tails : tails'[t] = tails[t]
          /\ \A t \in DOMAIN tails' \ DOMAIN tails : tails'[t] = Tail0(p)
      BY <1>1, <3>1, <3>2, ImportNames
    <3> QED  BY <3>2, <3>3
  <2> QED  BY <2>1, <2>2 DEF ValStep, EvalResume, EvalDone
<1> QED  BY <1>1, <1>2, ValStepSettled DEF Keeps

(* The record of file v before and after a step. *)
LEMMA EvaluationMoves ==
  ASSUME IInv, MInv, Keeps, NEW v \in DOMAIN vals, NEW r,
         vals' = [vals EXCEPT ![v] = r], r.real = vals[v].real,
         \/ r.pos = vals[v].pos
         \/ /\ r.pos = vals[v].pos + 1 /\ vals[v].pos \in DOMAIN Deps(v)
            /\ \E q \in Path : q = Deps(v)[vals[v].pos] /\ Good(q),
         r.phase = "ok" => r.pos > Len(Deps(v)),
         r.phase = "wait" => \E q \in Path : /\ r.pos \in DOMAIN Deps(v) /\ Deps(v)[r.pos] = q
                                             /\ Names(r.wait, q)',
         r.phase = "err" => \A p \in Path : Target(p) = vals[v].real => FailureTraced(p)
  PROVE  Evaluation(v)'
<1>1. Evaluation(v) /\ vals'[v] = r /\ files' = files
  BY DEF MInv, Keeps
<1>2. Deps(v)' = Deps(v)
  BY <1>1 DEF Deps
<1>3. ASSUME NEW j \in Passed(v)'
      PROVE  Deps(v)[j] \in Path /\ Good(Deps(v)[j])'
  <2>1. j \in DOMAIN Deps(v) /\ j < r.pos
    BY <1>1, <1>2, <1>3 DEF Passed
  <2>2. PICK q \in Path : q = Deps(v)[j] /\ Good(q)
    <3>1. CASE j < vals[v].pos
      BY <1>1, <2>1, <3>1 DEF Evaluation, Passed
    <3>2. CASE ~(j < vals[v].pos)
      <4>1. r.pos = vals[v].pos + 1 /\ \E q \in Path : q = Deps(v)[vals[v].pos] /\ Good(q)
        BY <2>1, <3>2
      <4>2. j = vals[v].pos
        BY <2>1, <3>2, <4>1, DepsFacts
      <4> QED  BY <4>1, <4>2
    <3> QED  BY <3>1, <3>2
  <2>3. Good(q)'
    BY <2>2, TracedStays
  <2> QED  BY <1>1, <1>2, <2>2, <2>3 DEF Good, Target
<1>4. ASSUME r.phase = "err", NEW p \in Path, Target(p)' = vals[v].real
      PROVE  FailureTraced(p)'
  <2>1. Target(p) = vals[v].real
    BY <1>1, <1>4, FilesDecide
  <2> QED  BY <1>4, <2>1, TracedStays
<1>5. r.phase = "wait" => /\ r.pos \in DOMAIN Deps(v) /\ Deps(v)[r.pos] \in Path
                          /\ Names(vals[v].wait, Deps(v)[vals[v].pos])'
  BY <1>1, <1>2 DEF Names
<1>6. \A j \in Passed(v)' : Deps(v)'[j] \in Path /\ Good(Deps(v)[j])'
  BY <1>2, <1>3
<1> QED  BY <1>1, <1>2, <1>4, <1>5, <1>6 DEF Evaluation

(* Only files that are not good yet become good: when they do, what they   *)
(* import is good, so that they cannot reach themselves.                   *)
LEMMA DoneOffCycles ==
  ASSUME IInv, MInv, Keeps, NEW v \in DOMAIN vals, DOMAIN vals' = DOMAIN vals,
         \A s \in DOMAIN vals : s # v => vals'[s] = vals[s],
         vals[v].pos > Len(Deps(v))
  PROVE  GoodOffCycles'
<1>1. ASSUME NEW p \in Path, Good(p)'
      PROVE  ~OnCycle(p)
  <2>1. CASE Good(p)
    BY <2>1 DEF MInv, GoodOffCycles
  <2>2. CASE ~Good(p)
    <3>1. Target(p)' = Target(p)
      BY FilesDecide DEF Keeps
    <3>2. vals[v].real = Target(p)
      BY <1>1, <2>2, <3>1 DEF Good, Keeps
    <3>3. \A q \in DepsOf(p) : q \in Path /\ Good(q)
      BY <3>2, GoodDeps
    <3>4. GoodNames \in SUBSET Path /\ DepsOf(p) \ {BadPath} \subseteq GoodNames
      BY <3>3 DEF GoodNames
    <3>5. Reach(DepsOf(p) \ {BadPath}) \subseteq GoodNames
      BY <3>4, GoodClosed, ReachWithin
    <3> QED  BY <2>2, <3>5 DEF OnCycle, GoodNames
  <2> QED  BY <2>1, <2>2
<1>2. \A p : OnCycle(p)' <=> OnCycle(p)
  BY FilesDecide DEF Keeps
<1> QED  BY <1>1, <1>2 DEF GoodOffCycles

LEMMA EvalImportMInv ==
  ASSUME IInv, AInv, MInv, NEW v \in DOMAIN vals, EvalImport(v)
  PROVE  Evaluation(v)' /\ GoodOffCycles'
<1>1. ValStep(v)
  BY DEF ValStep
<1>2. Keeps /\ DOMAIN vals' = DOMAIN vals /\ \A s \in DOMAIN vals : vals'[s].real = vals[s].real
  BY <1>1, ValStepTails, ValUpdates
<1>3. vals[v] \in ValRec /\ vals \in Seq(ValRec)
  BY Records
<1>4. /\ Deps(v) \in Seq(Path \cup {BadPath}) /\ vals[v].real \in Path
      /\ vals[v].pos \in DOMAIN Deps(v)
  BY DepsFacts DEF EvalImport
<1>5. PICK q \in Path \cup {BadPath} : q = Deps(v)[vals[v].pos]
  BY <1>4
<1>6. CASE q = BadPath
  <2> DEFINE r == [vals[v] EXCEPT !.phase = "err"]
  <2>1. r.real = vals[v].real /\ r.pos = vals[v].pos /\ r.phase = "err"
    BY <1>3 DEF ValRec
  <2>2. vals' = [vals EXCEPT ![v] = r]
    BY <1>5, <1>6 DEF EvalImport
  <2> HIDE DEF r
  <2>3. ASSUME NEW p \in Path, Target(p) = vals[v].real
        PROVE  FailureTraced(p)
    <3>1. BadPath \in DepsOf(p)
      BY <1>4, <1>5, <1>6, <2>3 DEF DepsOf, Deps
    <3>2. p \in Reach({p})
      BY ReachHolds
    <3> QED  BY <3>1, <3>2 DEF FailureTraced, Blamed
  <2>4. Evaluation(v)'
    BY <1>2, <2>1, <2>2, <2>3, EvaluationMoves
  <2>5. GoodOffCycles'
    <3>1. \A s \in DOMAIN vals' : vals'[s].phase = "ok" =>
            s \in DOMAIN vals /\ vals[s].phase = "ok" /\ vals'[s].real = vals[s].real
      BY <1>2, <2>1, <2>2
    <3> QED  BY <1>2, <3>1, NoNewGood DEF Keeps
  <2> QED  BY <2>4, <2>5
<1>7. CASE q # BadPath
  <2> DEFINE r == [vals[v] EXCEPT !.phase = "wait", !.wait = cache'[q]]
  <2>1. /\ r.real = vals[v].real /\ r.pos = vals[v].pos /\ r.phase = "wait"
        /\ r.wait = cache'[q]
    BY <1>3 DEF ValRec
  <2>2. vals' = [vals EXCEPT ![v] = r] /\ import_(q)
    BY <1>5, <1>7 DEF EvalImport
  <2> HIDE DEF r
  <2>3. q \in Path
    BY <1>5, <1>7
  <2>4. PICK w : w = r.wait /\ Names(w, q)'
    <3>1. Names(cache[q], q)'
      BY <1>2, <2>2, <2>3, ImportNames
    <3>2. PICK w : w = cache'[q]
      OBVIOUS
    <3> QED  BY <2>1, <3>1, <3>2 DEF Names
  <2>5. PICK x : x = r
    OBVIOUS
  <2>6. Names(x.wait, q)'
    BY <2>4, <2>5
  <2>7. Evaluation(v)'
    BY <1>2, <1>4, <1>5, <2>1, <2>2, <2>3, <2>5, <2>6, EvaluationMoves
  <2>8. GoodOffCycles'
    <3>1. \A s \in DOMAIN vals' : vals'[s].phase = "ok" =>
            s \in DOMAIN vals /\ vals[s].phase = "ok" /\ vals'[s].real = vals[s].real
      BY <1>2, <2>1, <2>2
    <3> QED  BY <1>2, <3>1, NoNewGood DEF Keeps
  <2> QED  BY <2>7, <2>8
<1> QED  BY <1>6, <1>7

LEMMA EvalResumeMInv ==
  ASSUME IInv, AInv, MInv, NEW v \in DOMAIN vals, EvalResume(v)
  PROVE  Evaluation(v)' /\ GoodOffCycles'
<1>1. ValStep(v)
  BY DEF ValStep
<1>2. Keeps /\ DOMAIN vals' = DOMAIN vals /\ \A s \in DOMAIN vals : vals'[s].real = vals[s].real
  BY <1>1, ValStepTails, ValUpdates
<1>3. vals[v] \in ValRec /\ vals \in Seq(ValRec) /\ vals[v].phase = "wait" /\ Evaluation(v)
  BY Records DEF EvalResume, MInv
<1>4. PICK q \in Path : /\ q = Deps(v)[vals[v].pos] /\ vals[v].pos \in DOMAIN Deps(v)
                        /\ Names(vals[v].wait, q)
  BY <1>3 DEF Evaluation
<1>5. /\ Fulfilled(vals[v].wait) => Good(q)
      /\ Rejected(vals[v].wait) => FailureTraced(q)
  BY <1>4, AnswerTells
<1>6. CASE Fulfilled(vals[v].wait)
  <2> DEFINE r == [vals[v] EXCEPT !.phase = "run", !.pos = vals[v].pos + 1]
  <2>1. r.real = vals[v].real /\ r.pos = vals[v].pos + 1 /\ r.phase = "run"
    BY <1>3 DEF ValRec
  <2>2. vals' = [vals EXCEPT ![v] = r]
    BY <1>6 DEF EvalResume
  <2> HIDE DEF r
  <2>3. Evaluation(v)'
    BY <1>2, <1>4, <1>5, <1>6, <2>1, <2>2, EvaluationMoves
  <2>4. GoodOffCycles'
    <3>1. \A s \in DOMAIN vals' : vals'[s].phase = "ok" =>
            s \in DOMAIN vals /\ vals[s].phase = "ok" /\ vals'[s].real = vals[s].real
      BY <1>2, <2>1, <2>2
    <3> QED  BY <1>2, <3>1, NoNewGood DEF Keeps
  <2> QED  BY <2>3, <2>4
<1>7. CASE ~Fulfilled(vals[v].wait)
  <2> DEFINE r == [vals[v] EXCEPT !.phase = "err"]
  <2>1. r.real = vals[v].real /\ r.pos = vals[v].pos /\ r.phase = "err"
    BY <1>3 DEF ValRec
  <2>2. vals' = [vals EXCEPT ![v] = r] /\ Rejected(vals[v].wait)
    BY <1>7 DEF EvalResume, Settled
  <2> HIDE DEF r
  <2>3. ASSUME NEW p \in Path, Target(p) = vals[v].real
        PROVE  FailureTraced(p)
    <3>1. q \in DepsOf(p)
      BY <1>4, <2>3 DEF DepsOf, Deps
    <3>2. Reach({q}) \subseteq Reach({p})
      BY <3>1, ReachDep
    <3> QED  BY <1>5, <2>2, <3>2 DEF FailureTraced
  <2>4. Evaluation(v)'
    BY <1>2, <2>1, <2>2, <2>3, EvaluationMoves
  <2>5. GoodOffCycles'
    <3>1. \A s \in DOMAIN vals' : vals'[s].phase = "ok" =>
            s \in DOMAIN vals /\ vals[s].phase = "ok" /\ vals'[s].real = vals[s].real
      BY <1>2, <2>1, <2>2
    <3> QED  BY <1>2, <3>1, NoNewGood DEF Keeps
  <2> QED  BY <2>4, <2>5
<1> QED  BY <1>6, <1>7

LEMMA EvalDoneMInv ==
  ASSUME IInv, AInv, MInv, NEW v \in DOMAIN vals, EvalDone(v)
  PROVE  Evaluation(v)' /\ GoodOffCycles'
<1>1. ValStep(v)
  BY DEF ValStep
<1>2. Keeps /\ DOMAIN vals' = DOMAIN vals
  BY <1>1, ValStepTails, ValUpdates
<1>3. vals[v] \in ValRec /\ vals \in Seq(ValRec) /\ vals[v].pos > Len(Deps(v))
  BY Records DEF EvalDone
<1> DEFINE r == [vals[v] EXCEPT !.phase = "ok"]
<1>4. r.real = vals[v].real /\ r.pos = vals[v].pos /\ r.phase = "ok"
  BY <1>3 DEF ValRec
<1>5. vals' = [vals EXCEPT ![v] = r]
  BY DEF EvalDone
<1> HIDE DEF r
<1>6. Evaluation(v)'
  BY <1>2, <1>3, <1>4, <1>5, EvaluationMoves
<1>7. GoodOffCycles'
  BY <1>2, <1>3, <1>5, DoneOffCycles
<1> QED  BY <1>6, <1>7

LEMMA ValStepMInv ==
  ASSUME IInv, AInv, MInv, NEW v \in DOMAIN vals, ValStep(v)
  PROVE  MInv'
<1>1. /\ Keeps /\ DOMAIN vals' = DOMAIN vals
      /\ \A t \in DOMAIN tails : tails'[t] = tails[t]
      /\ \A t \in DOMAIN tails' \ DOMAIN tails : \E p \in Path : tails'[t] = Tail0(p)
  BY ValStepTails, ValUpdates
<1>2. Evaluation(v)' /\ GoodOffCycles'
  BY EvalImportMInv, EvalResumeMInv, EvalDoneMInv DEF ValStep
<1>3. \A s \in DOMAIN vals : s # v => vals'[s] = vals[s]
  BY DEF ValStep, EvalImport, EvalResume, EvalDone, IInv, TypeOK
<1>4. \A s \in DOMAIN vals : vals'[s] = vals[s] \/ Evaluation(s)'
  BY <1>2, <1>3
<1> QED  BY <1>1, <1>2, <1>4, GrowthMInv

(* An import is fulfilled only with the value of the file its name stands  *)
(* for and when everything reachable from it could be imported, and        *)
(* rejected only for a failure of something reachable from it: for any     *)
(* directory tree and any interleaving of reads and evaluations.           *)
THEOREM RightAnswer == Spec => []AnswersMatchFiles
<1>1. Init => MInv
  <2> SUFFICES ASSUME Init PROVE MInv  OBVIOUS
  <2>1. DOMAIN vals = {} /\ DOMAIN tails = {}
    BY DEF Init
  <2> QED  BY <2>1 DEF MInv, Resolved, GoodOffCycles, Good
<1>2. IInv /\ AInv /\ MInv /\ [Next]_vars => MInv'
  <2> SUFFICES ASSUME IInv, AInv, MInv, [Next]_vars PROVE MInv'  OBVIOUS
  <2>1. CASE Next
    BY <2>1, RequestMInv, TailStepMInv, ValStepMInv DEF Next
  <2>2. CASE UNCHANGED vars
    <3>1. files' = files /\ cache' = cache /\ tails' = tails /\ vals' = vals
      BY <2>2 DEF vars
    <3>2. Keeps
      BY <3>1 DEF Keeps, SettledStep
    <3> QED  BY <3>1, <3>2, TailUpdateMInv
  <2> QED  BY <2>1, <2>2
<1>3. IInv /\ AInv /\ MInv => AnswersMatchFiles
  BY MInvMatches
<1> QED  BY <1>1, <1>2, <1>3, CacheInvariance, ServedByOne, PTL DEF Spec

----------------------------------------------------------------------------
(***************************************************************************)
(* Theorems about lookups through NIX_PATH, for every value of NIX_PATH    *)
(* and any number of lookups and changes of the files.                     *)
(*                                                                         *)
(* An answer is true of a moment in the past, so the invariant has to      *)
(* follow the search: what a running lookup has passed was missing, and    *)
(* what is there, or is not, at present has been recorded (Watched).       *)
(***************************************************************************)
Lookups ==
  [name : Name, pos : Nat, st : {"probe", "ok", "error"}, dir : Dir \cup {""},
   up : SUBSET Dir, down : SUBSET Dir]

Typed ==
  /\ nix_path \in Seq([name : Name \cup {Unnamed}, dir : Dir])
  /\ req \in Seq(Lookups)

(* What a lookup that is still running has recorded. *)
WatchedBy(i) ==
  /\ There(req[i].name) \subseteq req[i].up
  /\ Dir \ There(req[i].name) \subseteq req[i].down
  /\ \A h \in rest : h < req[i].pos => nix_path[h].dir \in req[i].down

Watched == \A i \in DOMAIN req : req[i].st = "probe" => WatchedBy(i)

(* The part of AnswerWasTrue about one lookup. *)
TrueOf(i) ==
  Probed(i) =>
    /\ req[i].st = "ok" => \E j \in rest :
         /\ nix_path[j].dir = req[i].dir /\ req[i].dir \in req[i].up
         /\ \A h \in rest : h < j => nix_path[h].dir \in req[i].down
    /\ req[i].st = "error" => \A j \in rest : nix_path[j].dir \in req[i].down

Answered == \A i \in DOMAIN req : TrueOf(i)

Inv == Typed /\ Watched /\ Answered

----------------------------------------------------------------------------
(* Entries have a directory, and are numbered. *)
LEMMA EntryFacts ==
  ASSUME Typed, NEW j \in DOMAIN nix_path
  PROVE  j \in Nat /\ j >= 1 /\ nix_path[j].dir \in Dir
<1> DEFINE E == [name : Name \cup {Unnamed}, dir : Dir]
<1>1. nix_path \in Seq(E)
  BY DEF Typed
<1> HIDE DEF E
<1>2. j \in 1 .. Len(nix_path) /\ Len(nix_path) \in Nat /\ nix_path[j] \in E
  BY <1>1
<1>3. nix_path[j].dir \in Dir
  BY <1>2 DEF E
<1> QED  BY <1>2, <1>3

LEMMA RestFacts ==
  ASSUME Typed, NEW j \in rest
  PROVE  j \in Nat /\ nix_path[j].dir \in Dir
BY EntryFacts DEF rest, Lookup

LEMMA CallFacts ==
  ASSUME NEW n \in Name
  PROVE  /\ Call(n) \in Lookups
         /\ Call(n).name = n /\ Call(n).pos = 1 /\ Call(n).st = "probe"
         /\ Call(n).up = There(n) /\ Call(n).down = Dir \ There(n)
BY DEF Call, Lookups, There

(* A lookup that is added to the others. *)
LEMMA AddInv ==
  ASSUME Inv, NEW r \in Lookups, req' = Append(req, r), UNCHANGED <<nix_path, readable>>,
         NEW m, m = Len(req) + 1,
         r.st = "probe" => WatchedBy(m)',
         TrueOf(m)'
  PROVE  Inv'
<1>1. req \in Seq(Lookups) /\ req' \in Seq(Lookups)
  BY DEF Inv, Typed
<1>2. /\ DOMAIN req' = DOMAIN req \cup {m}
      /\ \A i \in DOMAIN req : req'[i] = req[i]
      /\ req'[m] = r
  BY <1>1
<1>3. /\ rest' = rest
      /\ \A n : There(n)' = There(n) /\ Lookup(n)' = Lookup(n)
  BY DEF rest, There, Lookup
<1>4. Typed'
  BY <1>1 DEF Inv, Typed
<1>5. ASSUME NEW i \in DOMAIN req', req'[i].st = "probe"
      PROVE  WatchedBy(i)'
  <2>1. CASE i \in DOMAIN req
    BY <1>2, <1>3, <1>5, <2>1 DEF Inv, Watched, WatchedBy
  <2>2. CASE i = m
    BY <1>2, <1>5, <2>2
  <2> QED  BY <1>2, <2>1, <2>2
<1>6. ASSUME NEW i \in DOMAIN req'
      PROVE  TrueOf(i)'
  <2>1. CASE i \in DOMAIN req
    BY <1>2, <1>3, <2>1 DEF Inv, Answered, TrueOf, Probed
  <2>2. CASE i = m
    BY <2>2
  <2> QED  BY <1>2, <2>1, <2>2
<1> QED  BY <1>4, <1>5, <1>6 DEF Inv, Watched, Answered

(* A lookup that goes on or ends, the others left alone. *)
LEMMA MoveInv ==
  ASSUME Inv, NEW i \in DOMAIN req, NEW r \in Lookups,
         req' = [req EXCEPT ![i] = r], UNCHANGED <<nix_path, readable>>,
         r.st = "probe" => WatchedBy(i)',
         TrueOf(i)'
  PROVE  Inv'
<1>1. req \in Seq(Lookups) /\ req' \in Seq(Lookups)
  BY DEF Inv, Typed
<1>2. /\ DOMAIN req' = DOMAIN req
      /\ \A k \in DOMAIN req : req'[k] = IF k = i THEN r ELSE req[k]
  BY <1>1
<1>3. /\ rest' = rest
      /\ \A n : There(n)' = There(n) /\ Lookup(n)' = Lookup(n)
  BY DEF rest, There, Lookup
<1>4. Typed'
  BY <1>1 DEF Inv, Typed
<1>5. ASSUME NEW k \in DOMAIN req', req'[k].st = "probe"
      PROVE  WatchedBy(k)'
  <2>1. CASE k # i
    BY <1>2, <1>3, <1>5, <2>1 DEF Inv, Watched, WatchedBy
  <2>2. CASE k = i
    BY <1>2, <1>5, <2>2
  <2> QED  BY <2>1, <2>2
<1>6. ASSUME NEW k \in DOMAIN req'
      PROVE  TrueOf(k)'
  <2>1. CASE k # i
    BY <1>2, <1>3, <2>1 DEF Inv, Answered, TrueOf, Probed
  <2>2. CASE k = i
    BY <2>2
  <2> QED  BY <2>1, <2>2
<1> QED  BY <1>4, <1>5, <1>6 DEF Inv, Watched, Answered

----------------------------------------------------------------------------
LEMMA ExportInv ==
  ASSUME Inv, NEW n \in Name, Export(n)
  PROVE  Inv'
<1>1. UNCHANGED <<nix_path, readable>> /\ req \in Seq(Lookups)
  BY DEF Inv, Typed, Export
<1>2. rest' = rest /\ There(n)' = There(n) /\ Lookup(n)' = Lookup(n)
  BY <1>1 DEF rest, There, Lookup
<1>0. PICK m : m = Len(req) + 1
  OBVIOUS
<1>3. ASSUME NEW r, req' = Append(req, r) PROVE req'[m] = r
  BY <1>1, <1>3, <1>0
<1> DEFINE c == Call(n)
<1>4. /\ c \in Lookups /\ c.name = n /\ c.pos = 1 /\ c.st = "probe"
      /\ c.up = There(n) /\ c.down = Dir \ There(n)
  BY CallFacts
<1> HIDE DEF c
<1>5. CASE nix_path = <<>> /\ req' = Append(req, [c EXCEPT !.st = "error"])
  <2> DEFINE r == [c EXCEPT !.st = "error"]
  <2>1. r \in Lookups /\ r.st = "error"
    BY <1>4 DEF Lookups
  <2> HIDE DEF r
  <2>2. req' = Append(req, r)
    BY <1>5 DEF r
  <2>3. req'[m] = r
    BY <1>3, <2>2
  <2>4. rest = {}
    BY <1>5 DEF rest, Lookup
  <2>5. TrueOf(m)'
    BY <1>2, <2>1, <2>3, <2>4 DEF TrueOf
  <2> QED  BY <1>1, <2>1, <2>2, <2>5, <1>0, AddInv
<1>6. ASSUME NEW j \in DOMAIN nix_path, LookupEntry(n, j),
             req' = Append(req, [c EXCEPT !.st = "ok", !.dir = nix_path[j].dir])
      PROVE  Inv'
  <2>1. PICK d \in Dir : d = nix_path[j].dir
    BY EntryFacts DEF Inv
  <2> DEFINE r == [c EXCEPT !.st = "ok", !.dir = d]
  <2>2. r \in Lookups /\ r.st = "ok" /\ r.name = n
    BY <1>4 DEF Lookups
  <2> HIDE DEF r
  <2>3. req' = Append(req, r)
    BY <1>6, <2>1 DEF r
  <2>4. req'[m] = r
    BY <1>3, <2>3
  <2>5. Lookup(n)' # {}
    BY <1>2, <1>6 DEF LookupEntry
  <2>6. TrueOf(m)'
    BY <2>2, <2>4, <2>5 DEF TrueOf, Probed
  <2> QED  BY <1>1, <2>2, <2>3, <2>6, <1>0, AddInv
<1>7. CASE req' = Append(req, c)
  <2>1. req'[m] = c
    BY <1>3, <1>7
  <2>2. \A h \in rest : ~(h < 1)
    <3>1. \A h \in DOMAIN nix_path : h \in Nat /\ h >= 1
      BY EntryFacts DEF Inv
    <3>2. rest \subseteq DOMAIN nix_path
      BY DEF rest, Lookup
    <3> QED  BY <3>1, <3>2
  <2>3. WatchedBy(m)'
    BY <1>1, <1>2, <1>4, <2>1, <2>2 DEF WatchedBy
  <2>4. TrueOf(m)'
    BY <1>4, <2>1 DEF TrueOf
  <2> QED  BY <1>1, <1>4, <1>7, <2>3, <2>4, <1>0, AddInv
<1> QED  BY <1>5, <1>6, <1>7 DEF Export, c

LEMMA ProbeInv ==
  ASSUME Inv, NEW i \in DOMAIN req, Probe(i)
  PROVE  Inv'
<1>1. PICK j \in rest :
        /\ Turn(i, j)
        /\ req' = IF <<nix_path[j].dir, req[i].name>> \in readable
                  THEN [req EXCEPT ![i].st = "ok", ![i].dir = nix_path[j].dir]
                  ELSE [req EXCEPT ![i].pos = j + 1]
  BY DEF Probe
<1>2. UNCHANGED <<nix_path, readable>> /\ req \in Seq(Lookups)
  BY DEF Inv, Typed, Probe
<1>3. rest' = rest /\ \A n : There(n)' = There(n)
  BY <1>2 DEF rest, There, Lookup
<1>4. j \in Nat /\ nix_path[j].dir \in Dir
  BY RestFacts DEF Inv
<1>5. PICK c \in Lookups : c = req[i]
  BY <1>2
<1>6. WatchedBy(i) /\ c.st = "probe"
  BY <1>5 DEF Inv, Watched, Probe
<1>7. \A h \in rest : h < j => nix_path[h].dir \in c.down
  <2> SUFFICES ASSUME NEW h \in rest, h < j
               PROVE  nix_path[h].dir \in c.down
    OBVIOUS
  <2>1. h \in Nat /\ c.pos \in Nat
    BY <1>5, RestFacts DEF Inv, Lookups
  <2>2. h < c.pos
    BY <1>1, <1>4, <1>5, <2>1 DEF Turn, Ahead
  <2> QED  BY <1>5, <1>6, <2>2 DEF WatchedBy
<1>8. CASE <<nix_path[j].dir, c.name>> \in readable
  <2>1. PICK d \in Dir : d = nix_path[j].dir
    BY <1>4
  <2> DEFINE r == [c EXCEPT !.st = "ok", !.dir = d]
  <2>2. r \in Lookups /\ r.st = "ok" /\ r.dir = d
    BY DEF Lookups
  <2>3. r.up = c.up /\ r.down = c.down /\ r.name = c.name
    BY DEF Lookups
  <2>4. req' = [req EXCEPT ![i] = r]
    BY <1>1, <1>2, <1>5, <1>8, <2>1
  <2> HIDE DEF r
  <2>5. req'[i] = r
    BY <1>2, <2>4
  <2>6. d \in c.up
    BY <1>5, <1>6, <1>8, <2>1 DEF WatchedBy, There
  <2>7. TrueOf(i)'
    BY <1>2, <1>3, <1>7, <2>1, <2>2, <2>3, <2>5, <2>6 DEF TrueOf
  <2> QED  BY <1>2, <2>2, <2>4, <2>7, MoveInv
<1>9. CASE <<nix_path[j].dir, c.name>> \notin readable
  <2>1. PICK next \in Nat : next = j + 1
    BY <1>4
  <2> DEFINE r == [c EXCEPT !.pos = next]
  <2>2. r \in Lookups /\ r.st = "probe" /\ r.pos = next
    BY <1>6 DEF Lookups
  <2>3. r.up = c.up /\ r.down = c.down /\ r.name = c.name
    BY DEF Lookups
  <2>4. req' = [req EXCEPT ![i] = r]
    BY <1>1, <1>2, <1>5, <1>9, <2>1
  <2> HIDE DEF r
  <2>5. req'[i] = r
    BY <1>2, <2>4
  <2>6. nix_path[j].dir \in c.down
    BY <1>4, <1>5, <1>6, <1>9 DEF WatchedBy, There
  <2>7. \A h \in rest : h < r.pos => nix_path[h].dir \in c.down
    <3> SUFFICES ASSUME NEW h \in rest, h < r.pos
                 PROVE  nix_path[h].dir \in c.down
      OBVIOUS
    <3>1. h \in Nat
      BY RestFacts DEF Inv
    <3>2. h < j \/ h = j
      BY <1>4, <2>1, <2>2, <3>1
    <3> QED  BY <1>7, <2>6, <3>2
  <2>8. WatchedBy(i)'
    BY <1>2, <1>3, <1>5, <1>6, <2>3, <2>5, <2>7 DEF WatchedBy
  <2>9. TrueOf(i)'
    BY <2>2, <2>5 DEF TrueOf
  <2> QED  BY <1>2, <2>2, <2>4, <2>8, <2>9, MoveInv
<1> QED  BY <1>8, <1>9

LEMMA UnresolvedInv ==
  ASSUME Inv, NEW i \in DOMAIN req, Unresolved(i)
  PROVE  Inv'
<1>1. UNCHANGED <<nix_path, readable>> /\ req \in Seq(Lookups)
  BY DEF Inv, Typed, Unresolved
<1>2. rest' = rest
  BY <1>1 DEF rest, Lookup
<1>3. PICK c \in Lookups : c = req[i]
  BY <1>1
<1> DEFINE r == [c EXCEPT !.st = "error"]
<1>4. r \in Lookups /\ r.st = "error" /\ r.down = c.down
  BY DEF Lookups
<1>5. req' = [req EXCEPT ![i] = r]
  BY <1>1, <1>3 DEF Unresolved
<1> HIDE DEF r
<1>6. req'[i] = r
  BY <1>1, <1>5
<1>7. ASSUME NEW j \in rest
      PROVE  nix_path[j].dir \in c.down
  <2>1. j \in Nat /\ c.pos \in Nat
    BY RestFacts DEF Inv, Lookups
  <2>2. j < c.pos
    BY <1>3, <2>1 DEF Unresolved, Ahead
  <2>3. WatchedBy(i)
    BY DEF Inv, Watched, Unresolved
  <2> QED  BY <1>3, <2>2, <2>3 DEF WatchedBy
<1>8. TrueOf(i)'
  BY <1>1, <1>2, <1>4, <1>6, <1>7 DEF TrueOf
<1> QED  BY <1>1, <1>4, <1>5, <1>8, MoveInv

(* A change is recorded by the lookups it concerns. *)
LEMMA FilesChangeInv ==
  ASSUME Inv, FilesChange
  PROVE  Inv'
<1>1. PICK d \in Dir, n \in Name :
        /\ readable' = IF <<d, n>> \in readable THEN readable \ {<<d, n>>}
                       ELSE readable \cup {<<d, n>>}
        /\ req' = [i \in DOMAIN req |->
                     IF req[i].st # "probe" \/ req[i].name # n THEN req[i]
                     ELSE IF <<d, n>> \in readable THEN [req[i] EXCEPT !.down = @ \cup {d}]
                     ELSE [req[i] EXCEPT !.up = @ \cup {d}]]
  BY DEF FilesChange
<1>2. UNCHANGED nix_path /\ req \in Seq(Lookups)
  BY DEF Inv, Typed, FilesChange
<1>3. rest' = rest /\ \A k : Lookup(k)' = Lookup(k)
  BY <1>2 DEF rest, Lookup
<1>4. \A k : k # n => There(k)' = There(k)
  BY <1>1 DEF There
<1>5. There(n)' = IF <<d, n>> \in readable THEN There(n) \ {d} ELSE There(n) \cup {d}
  BY <1>1 DEF There
<1>6. ASSUME NEW i \in DOMAIN req
      PROVE  /\ req'[i] \in Lookups
             /\ req'[i].st = req[i].st /\ req'[i].name = req[i].name
             /\ req'[i].pos = req[i].pos
             /\ req[i].up \subseteq req'[i].up /\ req[i].down \subseteq req'[i].down
             /\ req[i].st # "probe" => req'[i] = req[i]
             /\ req[i].st = "probe" /\ req[i].name = n =>
                  IF <<d, n>> \in readable THEN d \in req'[i].down ELSE d \in req'[i].up
  <2>1. PICK c \in Lookups : c = req[i]
    BY <1>2
  <2>2. CASE req[i].st # "probe" \/ req[i].name # n
    BY <1>1, <2>1, <2>2
  <2>3. CASE req[i].st = "probe" /\ req[i].name = n /\ <<d, n>> \in readable
    <3> DEFINE r == [c EXCEPT !.down = @ \cup {d}]
    <3>1. r \in Lookups
      BY DEF Lookups
    <3>2. /\ r.st = c.st /\ r.name = c.name /\ r.pos = c.pos /\ r.up = c.up
          /\ r.down = c.down \cup {d}
      BY DEF Lookups
    <3>3. req'[i] = r
      BY <1>1, <2>1, <2>3
    <3> HIDE DEF r
    <3> QED  BY <2>1, <2>3, <3>1, <3>2, <3>3
  <2>4. CASE req[i].st = "probe" /\ req[i].name = n /\ <<d, n>> \notin readable
    <3> DEFINE r == [c EXCEPT !.up = @ \cup {d}]
    <3>1. r \in Lookups
      BY DEF Lookups
    <3>2. /\ r.st = c.st /\ r.name = c.name /\ r.pos = c.pos /\ r.down = c.down
          /\ r.up = c.up \cup {d}
      BY DEF Lookups
    <3>3. req'[i] = r
      BY <1>1, <2>1, <2>4
    <3> HIDE DEF r
    <3> QED  BY <2>1, <2>4, <3>1, <3>2, <3>3
  <2> QED  BY <2>2, <2>3, <2>4
<1>7. DOMAIN req' = DOMAIN req
  BY <1>1
<1>8. req' \in Seq(Lookups)
  <2>1. PICK m \in Nat : DOMAIN req = 1 .. m
    BY <1>2
  <2>2. req' \in [1 .. m -> Lookups]
    BY <1>1, <1>6, <1>7, <2>1
  <2> QED  BY <2>2
<1>9. ASSUME NEW i \in DOMAIN req, req'[i].st = "probe"
      PROVE  WatchedBy(i)'
  <2>1. req[i].st = "probe" /\ WatchedBy(i)
    BY <1>6, <1>9 DEF Inv, Watched
  <2>2. \A h \in rest : h < req'[i].pos => nix_path[h].dir \in req'[i].down
    BY <1>6, <2>1 DEF WatchedBy
  <2>3. There(req[i].name)' \subseteq req'[i].up
    BY <1>4, <1>5, <1>6, <2>1 DEF WatchedBy
  <2>4. Dir \ There(req[i].name)' \subseteq req'[i].down
    BY <1>4, <1>5, <1>6, <2>1 DEF WatchedBy
  <2> QED  BY <1>2, <1>3, <1>6, <2>2, <2>3, <2>4 DEF WatchedBy
<1>10. ASSUME NEW i \in DOMAIN req
       PROVE  TrueOf(i)'
  <2>1. TrueOf(i)
    BY DEF Inv, Answered
  <2>2. CASE req[i].st = "probe"
    BY <1>6, <2>2 DEF TrueOf
  <2>3. CASE req[i].st # "probe"
    <3>1. req'[i] = req[i]
      BY <1>6, <2>3
    <3> QED  BY <1>2, <1>3, <2>1, <3>1 DEF TrueOf, Probed
  <2> QED  BY <2>2, <2>3
<1> QED  BY <1>2, <1>7, <1>8, <1>9, <1>10 DEF Inv, Typed, Watched, Answered

----------------------------------------------------------------------------
(***************************************************************************)
(* What a running lookup has passed was missing, and every change of the   *)
(* files since the call has been seen.                                     *)
(***************************************************************************)
THEOREM Invariance == ExportSpec => []Inv
<1>1. ExportInit => Inv
  <2> SUFFICES ASSUME ExportInit PROVE Inv
    OBVIOUS
  <2>1. Typed
    <3>1. nix_path \in Seq([name : Name \cup {Unnamed}, dir : Dir])
      BY ExportAssumption DEF ExportInit
    <3>2. req \in Seq(Lookups)
      BY DEF ExportInit
    <3> QED  BY <3>1, <3>2 DEF Typed
  <2>2. DOMAIN req = {}
    BY DEF ExportInit
  <2> QED  BY <2>1, <2>2 DEF Inv, Watched, Answered
<1>2. Inv /\ [ExportNext]_exportVars => Inv'
  <2> SUFFICES ASSUME Inv, [ExportNext]_exportVars PROVE Inv'
    OBVIOUS
  <2>1. ASSUME NEW n \in Name, Export(n) PROVE Inv'
    BY <2>1, ExportInv
  <2>2. ASSUME NEW i \in DOMAIN req, Probe(i) PROVE Inv'
    BY <2>2, ProbeInv
  <2>3. ASSUME NEW i \in DOMAIN req, Unresolved(i) PROVE Inv'
    BY <2>3, UnresolvedInv
  <2>4. CASE FilesChange
    BY <2>4, FilesChangeInv
  <2>5. CASE UNCHANGED exportVars
    <3>1. /\ rest' = rest
          /\ \A n : There(n)' = There(n) /\ Lookup(n)' = Lookup(n)
      BY <2>5 DEF exportVars, rest, There, Lookup
    <3> QED  BY <2>5, <3>1 DEF exportVars, Inv, Typed, Watched, WatchedBy, Answered, TrueOf, Probed
  <2> QED  BY <2>1, <2>2, <2>3, <2>4, <2>5 DEF ExportNext
<1> QED  BY <1>1, <1>2, PTL DEF ExportSpec

(***************************************************************************)
(* Every answer of the search was true at some moment of the lookup, and   *)
(* so was every failure, however the files change and whatever other       *)
(* lookups are under way (mock-runtime.mjs 118-125).                       *)
(***************************************************************************)
THEOREM TrueOnce == ExportSpec => []AnswerWasTrue
<1>1. Inv => AnswerWasTrue
  BY DEF Inv, Answered, TrueOf, AnswerWasTrue
<1> QED  BY <1>1, Invariance, PTL
=============================================================================
