--------------------------- MODULE PathExportProps --------------------------
(* What a caller of export may rely on while files come and go. *)
EXTENDS PathExport

Probed(i) == Lookup(req[i].name) = {}

(***************************************************************************)
(* A directory is answered only if the file was there at some moment of    *)
(* the lookup and had been missing, at some moment, in every directory     *)
(* before it; the lookup fails only if it was missing everywhere at some   *)
(* moment (mock-runtime.mjs 118-125).                                      *)
(***************************************************************************)
AnswerWasTrue ==
  \A i \in DOMAIN req : Probed(i) =>
    /\ req[i].st = "ok" => \E j \in rest :
         /\ nix_path[j].dir = req[i].dir /\ req[i].dir \in req[i].up
         /\ \A h \in rest : h < j => nix_path[h].dir \in req[i].down
    /\ req[i].st = "error" => \A j \in rest : nix_path[j].dir \in req[i].down
=============================================================================
