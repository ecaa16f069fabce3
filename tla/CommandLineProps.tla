-------------------------- MODULE CommandLineProps --------------------------
(* What the files that nix2js leaves behind can be relied on for. *)
EXTENDS CommandLine

(* A file is absent, torn, or the text of some revision.  While a file is  *)
(* written, it is torn, the input was valid and the source map, if one was *)
(* asked for, is complete before the JavaScript is touched (main.rs).      *)
TypeOK ==
  /\ input \in Input /\ held \in Input
  /\ js \in File /\ mapf \in File /\ stdout \in 0 .. MaxRev
  /\ pc \in {"idle", "args", "read", "translate", "print", "openMap", "writeMap", "openJs", "writeJs"}
  /\ mode \in Modes /\ before \in File \X File
  /\ status \in {"none", "ok", "error", "killed"}
  /\ held.rev <= input.rev
  /\ pc \in {"print", "openMap", "writeMap", "openJs", "writeJs"} => held.valid
  /\ pc = "writeMap" => mapf = Truncated
  /\ pc = "writeJs" => js = Truncated
  /\ pc \in {"openJs", "writeJs"} /\ mode = "js+map" =>
       mapf.st = "whole" /\ mapf.rev = held.rev

(***************************************************************************)
(* Whatever was killed or failed in between, JavaScript that names a       *)
(* source map is never newer than the source map: a debugger may show a    *)
(* later input, never one whose map was not written yet (main.rs 33-40).   *)
(***************************************************************************)
MapNotOlder ==
  js.st = "whole" /\ js.ref /\ mapf.st = "whole" => js.rev <= mapf.rev

(***************************************************************************)
(* A command that ends well on a valid input has written what was asked,   *)
(* from the one revision it read.  An input that does not translate leaves *)
(* the files of the last one that did, although the command reports        *)
(* success (main.rs 27).                                                   *)
(***************************************************************************)
OkIsComplete ==
  /\ status = "ok" /\ held.valid =>
       /\ mode \in {"js", "js+map"} => js.st = "whole" /\ js.rev = held.rev
       /\ mode = "js+map" => mapf.st = "whole" /\ mapf.rev = held.rev /\ js.ref
  /\ status = "ok" /\ ~held.valid => files = before
=============================================================================
