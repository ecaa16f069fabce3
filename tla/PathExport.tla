----------------------------- MODULE PathExport -----------------------------
(***************************************************************************)
(* nixRt.export for `<name/...>' (mock-runtime.mjs): NIX_PATH is parsed    *)
(* once; a name with an entry of its own is resolved at once, any other is *)
(* looked for below the entries without a name, one fs.access after the    *)
(* other, while files come and go and other lookups are under way.         *)
(***************************************************************************)
EXTENDS Naturals, Sequences

CONSTANTS
  Name,         \* the first components of the paths looked up
  Dir,          \* the directories named in NIX_PATH
  NixPaths,     \* values of NIX_PATH: sequences of [name, dir]
  Unnamed,      \* the name of an entry without `='
  MaxExports,  \* bound: calls of export
  MaxChanges    \* bound: changes of the file system

ASSUME ExportAssumption ==
  /\ Unnamed \notin Name /\ "" \notin Dir
  /\ MaxExports \in Nat /\ MaxChanges \in Nat
  /\ NixPaths \subseteq Seq([name : Name \cup {Unnamed}, dir : Dir])

VARIABLES
  nix_path,  \* the entries of NIX_PATH
  readable,  \* <<dir, name>>: dir/name can be read now
  changes,   \* how often the file system has changed
  req        \* the calls of export, in the order they were made

exportVars == <<nix_path, readable, changes, req>>

(* The entries of a name. *)
Lookup(n) == {j \in DOMAIN nix_path : nix_path[j].name = n}

(* parsed.lookup: a name that is given twice means its last directory. *)
LookupEntry(n, j) == j \in Lookup(n) /\ \A h \in Lookup(n) : h <= j

(* parsed.rest: the entries without a name, in their order *)
rest == Lookup(Unnamed)

(***************************************************************************)
(* A call: name, the entry of NIX_PATH the search has come to, the         *)
(* outcome, and as history the directories in which the name was, and was  *)
(* not, readable at some moment since the call.                            *)
(***************************************************************************)
There(n) == {d \in Dir : <<d, n>> \in readable}

Call(n) ==
  [name |-> n, pos |-> 1, st |-> "probe", dir |-> "",
   up |-> There(n), down |-> Dir \ There(n)]

Export(n) ==
  /\ Len(req) < MaxExports
  /\ \/ nix_path = <<>> /\ req' = Append(req, [Call(n) EXCEPT !.st = "error"])
     \/ \E j \in DOMAIN nix_path :
          /\ LookupEntry(n, j)
          /\ req' = Append(req, [Call(n) EXCEPT !.st = "ok", !.dir = nix_path[j].dir])
     \/ nix_path # <<>> /\ Lookup(n) = {} /\ req' = Append(req, Call(n))
  /\ UNCHANGED <<nix_path, readable, changes>>

(* What the loop has still to look at, and what it looks at next. *)
Ahead(i) == {j \in rest : j >= req[i].pos}

Turn(i, j) == j \in Ahead(i) /\ \A h \in Ahead(i) : j <= h

(* `await fs.access(tmp, R_OK); return tmp' *)
Probe(i) ==
  /\ req[i].st = "probe"
  /\ \E j \in rest :
       /\ Turn(i, j)
       /\ req' = IF <<nix_path[j].dir, req[i].name>> \in readable
                 THEN [req EXCEPT ![i].st = "ok", ![i].dir = nix_path[j].dir]
                 ELSE [req EXCEPT ![i].pos = j + 1]
  /\ UNCHANGED <<nix_path, readable, changes>>

(* Mutant: the last entry is not probed. *)
UnresolvedEarly(i) ==
  /\ req[i].st = "probe" /\ \A j \in rest : j <= req[i].pos
  /\ req' = [req EXCEPT ![i].st = "error"]
  /\ UNCHANGED <<nix_path, readable, changes>>

Unresolved(i) ==
  /\ req[i].st = "probe" /\ Ahead(i) = {}
  /\ req' = [req EXCEPT ![i].st = "error"]
  /\ UNCHANGED <<nix_path, readable, changes>>

(* A file appears or goes away. *)
FilesChange ==
  /\ changes < MaxChanges
  /\ changes' = changes + 1
  /\ \E d \in Dir, n \in Name :
       /\ readable' = IF <<d, n>> \in readable THEN readable \ {<<d, n>>}
                      ELSE readable \cup {<<d, n>>}
       /\ req' = [i \in DOMAIN req |->
                    IF req[i].st # "probe" \/ req[i].name # n THEN req[i]
                    ELSE IF <<d, n>> \in readable THEN [req[i] EXCEPT !.down = @ \cup {d}]
                    ELSE [req[i] EXCEPT !.up = @ \cup {d}]]
  /\ UNCHANGED nix_path

ExportInit ==
  /\ nix_path \in NixPaths
  /\ readable \in SUBSET (Dir \X Name)
  /\ changes = 0
  /\ req = <<>>

ExportNext ==
  \/ \E n \in Name : Export(n)
  \/ \E i \in DOMAIN req : Probe(i) \/ Unresolved(i)
  \/ FilesChange

ExportSpec == ExportInit /\ [][ExportNext]_exportVars
=============================================================================
