----------------------------- MODULE MCRuntime ------------------------------
(***************************************************************************)
(* The mock runtime.  For imports, two files and a directory with its      *)
(* default.nix, whose imports make chains, diamonds, cycles and            *)
(* self-imports, by either name; for export, NIX_PATHs of up to three      *)
(* entries and one name, since lookups of different names have nothing in  *)
(* common.  The two share no state: a behaviour uses one.                  *)
(***************************************************************************)
EXTENDS ImportProps, PathExportProps, TLC

MCPath == {"a", "b", "d", "d/default"}

Tree(depsA, depsB, depsD, translates, kindB) ==
  [kind |-> [a |-> "file", b |-> kindB] @@ ("d" :> "dir") @@ ("d/default" :> "file"),
   dflt |-> [p \in MCPath |-> IF p = "d" THEN "d/default" ELSE NoPath],
   deps |-> [a |-> depsA, b |-> depsB] @@ ("d" :> <<>>) @@ ("d/default" :> depsD),
   translates |-> [p \in MCPath |-> p # "b" \/ translates]]

DepsOfA == {<<>>, <<"b">>, <<"b", "d">>, <<"d", "d/default">>, <<"a">>}
DepsOfB == {<<>>, <<"d">>, <<BadPath>>, <<"a">>}
DepsOfD == {<<>>, <<"b">>, <<"d">>}

Healthy == {Tree(x, y, z, TRUE, "file") : x \in DepsOfA, y \in DepsOfB, z \in DepsOfD}
Broken  == {Tree(x, <<>>, z, FALSE, "file") : x \in DepsOfA, z \in DepsOfD}
           \cup {Tree(x, <<>>, z, TRUE, "missing") : x \in DepsOfA, z \in DepsOfD}

MCFileSystems == Healthy \cup Broken

----------------------------------------------------------------------------
Nameless(d) == [name |-> Unnamed, dir |-> d]

(* Three directories without a name, and mixtures with named entries. *)
MCNixPaths ==
  {<<Nameless("d1"), Nameless(e), Nameless(f)>> : e \in Dir, f \in Dir}
    \cup {<<x, [name |-> "a", dir |-> "d2"]>> : x \in [name : Name \cup {Unnamed}, dir : Dir]}
    \cup {<<>>}

----------------------------------------------------------------------------
VARIABLE used   \* what the program calls: import_ or export

RuntimeInit ==
  \/ /\ used = "import" /\ Init
     /\ nix_path = <<>> /\ readable = {} /\ changes = 0 /\ req = <<>>
  \/ /\ used = "export" /\ ExportInit
     /\ files = Tree(<<>>, <<>>, <<>>, TRUE, "file") /\ Init

RuntimeNext ==
  /\ UNCHANGED used
  /\ \/ used = "import" /\ Next /\ UNCHANGED exportVars
     \/ used = "export" /\ ExportNext /\ UNCHANGED vars

RuntimeSpec == RuntimeInit /\ [][RuntimeNext]_<<used, vars, exportVars>> /\ WF_vars(Work)
=============================================================================
