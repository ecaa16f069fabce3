---------------------------- MODULE CommandLine -----------------------------
(***************************************************************************)
(* The command nix2js (main.rs): it reads a file, translates it and writes *)
(* the source map and then the JavaScript, which names the source map.     *)
(* The command is run again and again while the file is edited; it may be  *)
(* killed at any point and reads and writes may fail.  A text is told      *)
(* apart by the revision of the input it was made from.                    *)
(***************************************************************************)
EXTENDS Naturals

CONSTANT MaxRev    \* bound: revisions of the input

ASSUME CommandLineAssumption == MaxRev \in Nat \ {0}

VARIABLES
  input,   \* the file that is translated: its revision, whether it is valid
  js, mapf, \* the files that are written
  stdout,  \* the last revision printed
  pc,      \* where the command is
  mode,    \* the arguments given
  held,    \* the input as it was read
  before,  \* js and mapf when the command began (history)
  status     \* how it ended

vars == <<input, js, mapf, stdout, pc, mode, held, before, status>>

files   == <<js, mapf>>
process == <<pc, mode, held, before, status>>

Modes == {"help", "stdin", "print", "js", "js+map"}

File  == [st : {"absent", "torn", "whole"}, rev : 0 .. MaxRev, ref : BOOLEAN]
Input == [rev : 0 .. MaxRev, valid : BOOLEAN]

Absent == [st |-> "absent", rev |-> 0, ref |-> FALSE]

(* Somebody edits the input, at any time. *)
Edit ==
  /\ input.rev < MaxRev
  /\ \E b \in BOOLEAN : input' = [rev |-> input.rev + 1, valid |-> b]
  /\ UNCHANGED <<js, mapf, stdout, pc, mode, held, before, status>>

----------------------------------------------------------------------------
Ends(how) ==
  /\ pc' = "idle" /\ status' = how
  /\ UNCHANGED <<mode, held, before>>

GoesTo(next) == pc' = next /\ UNCHANGED <<mode, held, before, status>>

Invoke ==
  /\ pc = "idle"
  /\ mode' \in Modes
  /\ pc' = "args" /\ status' = "none" /\ before' = files
  /\ UNCHANGED <<input, js, mapf, stdout, held>>

(* args.is_empty(), "--help" *)
Arguments ==
  /\ pc = "args"
  /\ IF mode = "help" THEN Ends("ok") ELSE GoesTo("read")
  /\ UNCHANGED <<input, js, mapf, stdout>>

(* read_to_string(..)? *)
ReadInput ==
  /\ pc = "read"
  /\ \/ Ends("error")
     \/ pc' = "translate" /\ held' = input /\ UNCHANGED <<mode, before, status>>
  /\ UNCHANGED <<input, js, mapf, stdout>>

(* Errors are printed, and the command ends as if all were well. *)
Translate ==
  /\ pc = "translate"
  /\ IF ~held.valid THEN Ends("ok")
     ELSE GoesTo(CASE mode \in {"stdin", "print"} -> "print"
                   [] mode = "js" -> "openJs"
                   [] mode = "js+map" -> "openMap")
  /\ UNCHANGED <<input, js, mapf, stdout>>

(* stdout().write_all(..)? *)
PrintJs ==
  /\ pc = "print"
  /\ \/ Ends("error") /\ UNCHANGED stdout
     \/ Ends("ok") /\ stdout' = held.rev
  /\ UNCHANGED <<input, js, mapf>>

(* std::fs::write opens and truncates the file, then writes it. *)
Truncated == [st |-> "torn", rev |-> 0, ref |-> FALSE]

(* Mutant: the JavaScript is written first. *)
OpenMapLast ==
  /\ pc = "openMap"
  /\ \/ Ends("error") /\ UNCHANGED <<js, mapf>>
     \/ /\ js.st = "whole" /\ js.rev = held.rev
        /\ GoesTo("writeMap") /\ mapf' = Truncated /\ UNCHANGED js
     \/ /\ ~(js.st = "whole" /\ js.rev = held.rev)
        /\ js' = [st |-> "whole", rev |-> held.rev, ref |-> TRUE]
        /\ GoesTo("openMap") /\ UNCHANGED mapf
  /\ UNCHANGED <<input, stdout>>

OpenMap ==
  /\ pc = "openMap"
  /\ \/ Ends("error") /\ UNCHANGED mapf
     \/ GoesTo("writeMap") /\ mapf' = Truncated
  /\ UNCHANGED <<input, js, stdout>>

(* Mutant: an error while the source map is written is ignored. *)
WriteMapUnchecked ==
  /\ pc = "writeMap"
  /\ \/ GoesTo("openJs") /\ UNCHANGED mapf
     \/ GoesTo("openJs") /\ mapf' = [st |-> "whole", rev |-> held.rev, ref |-> FALSE]
  /\ UNCHANGED <<input, js, stdout>>

WriteMap ==
  /\ pc = "writeMap"
  /\ \/ Ends("error") /\ UNCHANGED mapf
     \/ GoesTo("openJs") /\ mapf' = [st |-> "whole", rev |-> held.rev, ref |-> FALSE]
  /\ UNCHANGED <<input, js, stdout>>

OpenJs ==
  /\ pc = "openJs"
  /\ \/ Ends("error") /\ UNCHANGED js
     \/ GoesTo("writeJs") /\ js' = Truncated
  /\ UNCHANGED <<input, mapf, stdout>>

(* With a source map, its name has been appended to the JavaScript. *)
WriteJs ==
  /\ pc = "writeJs"
  /\ \/ Ends("error") /\ UNCHANGED js
     \/ Ends("ok") /\ js' = [st |-> "whole", rev |-> held.rev, ref |-> mode = "js+map"]
  /\ UNCHANGED <<input, mapf, stdout>>

Killed ==
  /\ pc # "idle"
  /\ Ends("killed")
  /\ UNCHANGED <<input, js, mapf, stdout>>

Init ==
  /\ input \in [rev : {1}, valid : BOOLEAN]
  /\ js = Absent /\ mapf = Absent /\ stdout = 0
  /\ pc = "idle" /\ mode = "help" /\ held = input /\ before = files /\ status = "none"

Next ==
  \/ Edit \/ Invoke \/ Arguments \/ ReadInput \/ Translate \/ PrintJs
  \/ OpenMap \/ WriteMap \/ OpenJs \/ WriteJs \/ Killed

Spec == Init /\ [][Next]_vars
=============================================================================
