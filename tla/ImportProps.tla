---------------------------- MODULE ImportProps -----------------------------
(***************************************************************************)
(* What users of the import cache rely on.                                 *)
(***************************************************************************)
EXTENDS ImportCache

Phase == {"read", "redirected", "adopt", "run", "wait", "ok", "err"}
Ref == [of : {"none", "tail", "val"}, n : Nat]

(* Types, and every promise that is held anywhere exists. *)
Exists(ref) ==
  \/ ref.of = "none"
  \/ ref.of = "tail" /\ ref.n \in DOMAIN tails
  \/ ref.of = "val"  /\ ref.n \in DOMAIN vals

TypeOK ==
  /\ files \in FileSystems
  /\ cache \in [Path -> Ref]
  /\ tails \in Seq([key : Path, real : Path, phase : Phase, val : Nat])
  /\ vals \in Seq([real : Path, pos : Nat, phase : Phase, wait : Ref])
  /\ requests \in Seq([path : Path, ref : Ref])
  /\ \A p \in Path : Exists(cache[p])
  /\ \A v \in DOMAIN vals : Exists(vals[v].wait)
  /\ \A i \in DOMAIN requests : Exists(requests[i].ref) /\ requests[i].ref # None
  /\ \A t \in DOMAIN tails :
       tails[t].phase = "adopt" => tails[t].val \in DOMAIN vals

----------------------------------------------------------------------------
(***************************************************************************)
(* OneTailPerKey: however many callers ask for a name, and whenever they   *)
(* ask, importTail is called for it once.                                  *)
(***************************************************************************)
OneTailPerKey ==
  \A s, t \in DOMAIN tails : tails[s].key = tails[t].key => s = t

(* The directories that r is the default.nix of. *)
Aliases(r) == {p \in Path : files.kind[p] = "dir" /\ files.dflt[p] = r}

(***************************************************************************)
(* The file a name stands for, the names its evaluation imports, and the   *)
(* names reachable from the names in S: the smallest set that holds S and  *)
(* what its members import.                                                *)
(***************************************************************************)
Target(p) == IF files.kind[p] = "dir" THEN files.dflt[p] ELSE p

DepsOf(p) == {files.deps[Target(p)][j] : j \in DOMAIN files.deps[Target(p)]}

Closed(T) == \A q \in T : DepsOf(q) \ {BadPath} \subseteq T

Reach(S) == {q \in Path : \A T \in SUBSET Path : S \subseteq T /\ Closed(T) => q \in T}

OnCycle(p) == p \in Reach(DepsOf(p) \ {BadPath})

Sound(p) ==
  /\ files.kind[Target(p)] = "file" /\ files.translates[Target(p)]
  /\ BadPath \notin DepsOf(p) /\ ~OnCycle(p)

(* A cause of failure that lies in p itself. *)
Blamed(p) ==
  \/ BadPath \in DepsOf(p)
  \/ \E t \in DOMAIN tails :
       tails[t].key = p /\ tails[t].phase = "err" /\ tails[t].val = 0

(***************************************************************************)
(* AnswersMatchFiles: an import is fulfilled only with the value of the    *)
(* file the name stands for, and only if everything it imports, directly   *)
(* or not, could be imported too; it is rejected only for a failure of     *)
(* something it imports, never for one of an unrelated file.               *)
(***************************************************************************)
ValueOf(ref) == IF ref.of = "tail" THEN tails[ref.n].val ELSE ref.n

AnswersMatchFiles ==
  \A i \in DOMAIN requests :
    LET p == requests[i].path
        ref == requests[i].ref
    IN /\ Fulfilled(ref) => /\ vals[ValueOf(ref)].real = Target(p)
                            /\ \A q \in Reach({p}) : Sound(q)
       /\ Rejected(ref) => \E q \in Reach({p}) : Blamed(q)

(***************************************************************************)
(* AnswersAgree: two callers who ask for the same name get the same        *)
(* answer, whether they were given the promise of importTail or what       *)
(* replaced it in the cache.  Excepted is the default.nix of a directory,  *)
(* whose entry importing the directory replaces.                           *)
(***************************************************************************)
AnswersAgree ==
  \A i, j \in DOMAIN requests :
    LET r == requests[i].ref
        s == requests[j].ref
    IN /\ requests[i].path = requests[j].path
       /\ Aliases(requests[i].path) = {}
       /\ Settled(r) /\ Settled(s)
       => State(r) = State(s) /\ (Fulfilled(r) => ValueOf(r) = ValueOf(s))

(***************************************************************************)
(* SettledStays: a promise settles once, and no entry leaves the cache.    *)
(***************************************************************************)
SettledStep ==
  /\ \A t \in DOMAIN tails :
       tails[t].phase \in {"ok", "err"} => tails'[t] = tails[t]
  /\ \A v \in DOMAIN vals :
       vals[v].phase \in {"ok", "err"} => vals'[v] = vals[v]
  /\ \A p \in Path : cache[p] # None => cache'[p] # None

SettledStays == [][SettledStep]_vars

(***************************************************************************)
(* EveryRequestSettles: where no file imports itself, directly or through  *)
(* others, every import is answered.  (Files that do hang for ever.)       *)
(***************************************************************************)
Acyclic == \A p \in Path : ~OnCycle(p)

EveryRequestSettles ==
  \A i \in 1 .. MaxRequests :
    (Acyclic /\ i \in DOMAIN requests) ~>
      (i \in DOMAIN requests /\ Settled(requests[i].ref))
=============================================================================
