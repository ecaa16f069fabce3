---------------------------- MODULE ImportCache -----------------------------
(***************************************************************************)
(* The import cache of the mock runtime (mock-runtime.mjs): import_(path)  *)
(* starts importTail(path) once per name and hands out whatever the cache  *)
(* holds for that name.  importTail reads the file, translates and         *)
(* evaluates it, stores the evaluated value under the real path, and       *)
(* returns it, which makes its own promise adopt the value's.  Evaluating  *)
(* a file may import others, one after the other.                          *)
(*                                                                         *)
(* Everything between two awaits is one step; which of the outstanding     *)
(* reads and promise reactions comes next is left open.                    *)
(***************************************************************************)
EXTENDS Naturals, Sequences

CONSTANTS
  Path,         \* the absolute paths that occur
  FileSystems,  \* the directory trees considered
  MaxRequests   \* bound: calls of import_ from outside (the REPL, a test)

NoPath  == "NoPath"                \* no default.nix below this path
BadPath == "BadPath"               \* import_(Error): the path did not evaluate

(***************************************************************************)
(* A directory tree.  `dflt' is path.resolve(p, "default.nix"); `deps' are *)
(* the imports that forcing the file's value makes, in order; a file with  *)
(* translates = FALSE makes translation or evaluation throw at once.       *)
(***************************************************************************)
FileSystem ==
  [kind : [Path -> {"file", "dir", "missing"}],
   dflt : [Path -> Path \cup {NoPath}],
   deps : [Path -> Seq(Path \cup {BadPath})],
   translates : [Path -> BOOLEAN]]

ASSUME ImportAssumption ==
  /\ NoPath \notin Path /\ BadPath \notin Path
  /\ MaxRequests \in Nat
  /\ \A f \in FileSystems :
       /\ f \in FileSystem
       /\ \A p \in Path : f.kind[p] = "dir" => f.dflt[p] \in Path

VARIABLES
  files,     \* the directory tree, fixed
  cache,     \* import_cache: Path -> a promise, or None
  tails,     \* the calls of importTail, in the order they were made
  vals,      \* the evaluated files (`stru'), in the order of their evaluation
  requests   \* calls of import_ from outside: the path and what was returned

vars == <<files, cache, tails, vals, requests>>

----------------------------------------------------------------------------
(* Promises: that of an importTail call, and the value of a file. *)
None       == [of |-> "none", n |-> 0]
TailRef(n) == [of |-> "tail", n |-> n]
ValRef(n)  == [of |-> "val",  n |-> n]

State(ref) == IF ref.of = "tail" THEN tails[ref.n].phase ELSE vals[ref.n].phase

Fulfilled(ref) == State(ref) = "ok"
Rejected(ref)  == State(ref) = "err"
Settled(ref)   == Fulfilled(ref) \/ Rejected(ref)

(***************************************************************************)
(* import_: looks the name up, calling importTail if it is not there.  The *)
(* lookup and the store are not separated by an await.                     *)
(***************************************************************************)
Tail0(p) == [key |-> p, real |-> p, phase |-> "read", val |-> 0]

Missing(p) == cache[p] = None

(* Mutant: the cache is written but never consulted. *)
import_always(p) ==
  /\ cache' = [cache EXCEPT ![p] = TailRef(Len(tails) + 1)]
  /\ tails' = Append(tails, Tail0(p))

import_(p) ==
  /\ cache' = IF Missing(p) THEN [cache EXCEPT ![p] = TailRef(Len(tails) + 1)]
              ELSE cache
  /\ tails' = IF Missing(p) THEN Append(tails, Tail0(p)) ELSE tails

(* Somebody outside asks for a file. *)
Request(p) ==
  /\ Len(requests) < MaxRequests
  /\ import_(p)
  /\ requests' = Append(requests, [path |-> p, ref |-> cache'[p]])
  /\ UNCHANGED <<files, vals>>

----------------------------------------------------------------------------
(***************************************************************************)
(* importTail, from one await to the next.  A read may fail at any time    *)
(* (`io error'); the catch block answers every failure of the first read   *)
(* that is not about a directory, and every exception of translation and   *)
(* evaluation, by throwing.                                                *)
(***************************************************************************)
Reading(t) == tails[t].phase \in {"read", "redirected"}

(* Mutant: a failure is forgotten, so that the next caller tries again. *)
ReadFailedForgets(t) ==
  /\ Reading(t)
  /\ tails' = [tails EXCEPT ![t].phase = "err"]
  /\ cache' = [cache EXCEPT ![tails[t].key] = None]
  /\ UNCHANGED <<files, vals, requests>>

ReadFailed(t) ==
  /\ Reading(t)
  /\ tails' = [tails EXCEPT ![t].phase = "err"]
  /\ UNCHANGED <<files, cache, vals, requests>>

ReadDirectory(t) ==
  /\ tails[t].phase = "read"
  /\ files.kind[tails[t].real] = "dir"
  /\ tails' = [tails EXCEPT ![t].phase = "redirected",
                            ![t].real = files.dflt[tails[t].real]]
  /\ UNCHANGED <<files, cache, vals, requests>>

(* Mutant: the cache refers to the value evaluated before. *)
ReadFileStale(t) ==
  /\ Reading(t)
  /\ files.kind[tails[t].real] = "file"
  /\ LET r == tails[t].real
         v == Len(vals)
     IN IF files.translates[r]
        THEN /\ vals' = Append(vals, [real |-> r, pos |-> 1, phase |-> "run",
                                      wait |-> None])
             /\ cache' = [cache EXCEPT ![r] = ValRef(v)]
             /\ tails' = [tails EXCEPT ![t].phase = "adopt", ![t].val = v]
        ELSE /\ tails' = [tails EXCEPT ![t].phase = "err"]
             /\ UNCHANGED <<cache, vals>>
  /\ UNCHANGED <<files, requests>>

ReadFile(t) ==
  /\ Reading(t)
  /\ files.kind[tails[t].real] = "file"
  /\ LET r == tails[t].real
         v == Len(vals) + 1
     IN IF files.translates[r]
        THEN /\ vals' = Append(vals, [real |-> r, pos |-> 1, phase |-> "run",
                                      wait |-> None])
             /\ cache' = [cache EXCEPT ![r] = ValRef(v)]
             /\ tails' = [tails EXCEPT ![t].phase = "adopt", ![t].val = v]
        ELSE /\ tails' = [tails EXCEPT ![t].phase = "err"]
             /\ UNCHANGED <<cache, vals>>
  /\ UNCHANGED <<files, requests>>

(* Mutants: a rejected value is ignored, or taken for a fulfilled one. *)
AdoptFulfilled(t) ==
  /\ tails[t].phase = "adopt"
  /\ Fulfilled(ValRef(tails[t].val))
  /\ tails' = [tails EXCEPT ![t].phase = "ok"]
  /\ UNCHANGED <<files, cache, vals, requests>>

AdoptBlindly(t) ==
  /\ tails[t].phase = "adopt"
  /\ Settled(ValRef(tails[t].val))
  /\ tails' = [tails EXCEPT ![t].phase = "ok"]
  /\ UNCHANGED <<files, cache, vals, requests>>

(* `return stru': the promise of the call follows that of the value. *)
Adopt(t) ==
  /\ tails[t].phase = "adopt"
  /\ Settled(ValRef(tails[t].val))
  /\ tails' = [tails EXCEPT ![t].phase = State(ValRef(tails[t].val))]
  /\ UNCHANGED <<files, cache, vals, requests>>

----------------------------------------------------------------------------
(***************************************************************************)
(* Evaluation of a file's value: `await nixRt.import(..)' for each of its  *)
(* dependencies.                                                           *)
(***************************************************************************)
Deps(v) == files.deps[vals[v].real]

EvalImport(v) ==
  /\ vals[v].phase = "run"
  /\ vals[v].pos <= Len(Deps(v))
  /\ LET p == Deps(v)[vals[v].pos]
     IN IF p = BadPath
        THEN /\ vals' = [vals EXCEPT ![v].phase = "err"]
             /\ UNCHANGED <<cache, tails>>
        ELSE /\ import_(p)
             /\ vals' = [vals EXCEPT ![v].phase = "wait", ![v].wait = cache'[p]]
  /\ UNCHANGED <<files, requests>>

(* Mutant: a dependency that failed does not stop the evaluation. *)
EvalResumeAnyway(v) ==
  /\ vals[v].phase = "wait"
  /\ Settled(vals[v].wait)
  /\ vals' = [vals EXCEPT ![v].phase = "run", ![v].pos = @ + 1]
  /\ UNCHANGED <<files, cache, tails, requests>>

EvalResume(v) ==
  /\ vals[v].phase = "wait"
  /\ Settled(vals[v].wait)
  /\ vals' = IF Fulfilled(vals[v].wait)
             THEN [vals EXCEPT ![v].phase = "run", ![v].pos = @ + 1]
             ELSE [vals EXCEPT ![v].phase = "err"]
  /\ UNCHANGED <<files, cache, tails, requests>>

EvalDone(v) ==
  /\ vals[v].phase = "run"
  /\ vals[v].pos > Len(Deps(v))
  /\ vals' = [vals EXCEPT ![v].phase = "ok"]
  /\ UNCHANGED <<files, cache, tails, requests>>

----------------------------------------------------------------------------
Init ==
  /\ files \in FileSystems
  /\ cache = [p \in Path |-> None]
  /\ tails = <<>>
  /\ vals = <<>>
  /\ requests = <<>>

TailStep(t) == ReadFailed(t) \/ ReadDirectory(t) \/ ReadFile(t) \/ Adopt(t)

ValStep(v) == EvalImport(v) \/ EvalResume(v) \/ EvalDone(v)

Next ==
  \/ \E p \in Path : Request(p)
  \/ \E t \in DOMAIN tails : TailStep(t)
  \/ \E v \in DOMAIN vals : ValStep(v)

(***************************************************************************)
(* Fairness: every read ends, and the event loop runs every reaction that  *)
(* is due.  Nobody has to ask for anything.                                *)
(***************************************************************************)
Work ==
  \/ \E t \in DOMAIN tails : TailStep(t)
  \/ \E v \in DOMAIN vals : ValStep(v)

Spec == Init /\ [][Next]_vars /\ WF_vars(Work)
=============================================================================
