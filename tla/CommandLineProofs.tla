-------------------------- MODULE CommandLineProofs -------------------------
(***************************************************************************)
(* What nix2js leaves behind, for any number of revisions and runs.  The   *)
(* order of files is only safe because revisions grow: nothing written is  *)
(* newer than what was read last.                                          *)
(***************************************************************************)
EXTENDS CommandLineProps, TLAPS

(* The inductive invariant: TypeOK, the revisions, and the two promises. *)
NothingNewer == js.rev <= held.rev /\ mapf.rev <= held.rev

UntouchedYet ==
  pc \in {"args", "read", "translate", "print", "openMap"} => files = before

StepsFit ==
  /\ status = "ok" => pc = "idle"
  /\ pc = "print" => mode \in {"stdin", "print"}
  /\ pc \in {"args", "read", "translate", "print", "openMap", "writeMap", "openJs", "writeJs"} =>
       status = "none" /\ (pc # "args" => mode # "help")

IInv ==
  /\ TypeOK /\ NothingNewer /\ UntouchedYet /\ StepsFit
  /\ MapNotOlder /\ OkIsComplete

(* The command starts in a state that satisfies the invariant. *)
LEMMA InitIInv == Init => IInv
<1> SUFFICES ASSUME Init PROVE IInv
  OBVIOUS
<1>1. /\ input \in Input /\ held \in Input /\ held = input
      /\ js \in File /\ mapf \in File /\ js = Absent /\ mapf = Absent
  BY CommandLineAssumption DEF Init, Input, File, Absent
<1>2. TypeOK
  BY <1>1, CommandLineAssumption DEF Init, TypeOK, Modes, files, Input
<1>3. NothingNewer /\ UntouchedYet /\ StepsFit /\ MapNotOlder /\ OkIsComplete
  BY <1>1 DEF Init, NothingNewer, UntouchedYet, StepsFit, MapNotOlder, OkIsComplete,
              files, Absent, Input
<1> QED
  BY <1>2, <1>3 DEF IInv

(* Every step of the command, an edit, a failure and a kill preserve it. *)
LEMMA NextIInv == IInv /\ [Next]_vars => IInv'
<1> SUFFICES ASSUME IInv, [Next]_vars PROVE IInv'
  OBVIOUS
<1> USE CommandLineAssumption
<1> USE DEF IInv, TypeOK, NothingNewer, UntouchedYet, StepsFit, MapNotOlder,
            OkIsComplete, Input, File, Modes, files
<1>1. CASE Edit
  BY <1>1 DEF Edit
<1>2. CASE Invoke
  BY <1>2 DEF Invoke
<1>3. CASE Arguments
  BY <1>3 DEF Arguments, Ends, GoesTo
<1>4. CASE ReadInput
  BY <1>4 DEF ReadInput, Ends
<1>5. CASE Translate
  <2>1. CASE ~held.valid
    BY <1>5, <2>1 DEF Translate, Ends
  <2>2. CASE held.valid /\ mode \in {"stdin", "print"}
    BY <1>5, <2>2 DEF Translate, GoesTo
  <2>3. CASE held.valid /\ mode = "js"
    BY <1>5, <2>3 DEF Translate, GoesTo
  <2>4. CASE held.valid /\ mode = "js+map"
    BY <1>5, <2>4 DEF Translate, GoesTo
  <2>5. mode # "help"
    BY <1>5 DEF Translate
  <2> QED
    BY <2>1, <2>2, <2>3, <2>4, <2>5
<1>6. CASE PrintJs
  <2>1. CASE Ends("error") /\ UNCHANGED stdout
    BY <1>6, <2>1 DEF PrintJs, Ends
  <2>2. CASE Ends("ok") /\ stdout' = held.rev
    <3>1. TypeOK'
      BY <1>6, <2>2 DEF PrintJs, Ends
    <3>2. NothingNewer' /\ UntouchedYet' /\ StepsFit'
      BY <1>6, <2>2 DEF PrintJs, Ends
    <3>3. MapNotOlder'
      BY <1>6, <2>2 DEF PrintJs, Ends
    <3>4. OkIsComplete'
      BY <1>6, <2>2 DEF PrintJs, Ends
    <3> QED
      BY <3>1, <3>2, <3>3, <3>4
  <2> QED
    BY <1>6, <2>1, <2>2 DEF PrintJs
<1>7. CASE OpenMap
  <2>1. CASE Ends("error") /\ UNCHANGED mapf
    BY <1>7, <2>1 DEF OpenMap, Ends
  <2>2. CASE GoesTo("writeMap") /\ mapf' = Truncated
    <3>1. TypeOK'
      BY <1>7, <2>2 DEF OpenMap, GoesTo, Truncated
    <3>2. NothingNewer' /\ UntouchedYet' /\ StepsFit'
      BY <1>7, <2>2 DEF OpenMap, GoesTo, Truncated
    <3>3. MapNotOlder'
      BY <1>7, <2>2 DEF OpenMap, GoesTo, Truncated
    <3>4. OkIsComplete'
      BY <1>7, <2>2 DEF OpenMap, GoesTo, Truncated
    <3> QED
      BY <3>1, <3>2, <3>3, <3>4
  <2> QED
    BY <1>7, <2>1, <2>2 DEF OpenMap
<1>8. CASE WriteMap
  <2>1. CASE Ends("error") /\ UNCHANGED mapf
    BY <1>8, <2>1 DEF WriteMap, Ends
  <2>2. CASE GoesTo("openJs") /\ mapf' = [st |-> "whole", rev |-> held.rev, ref |-> FALSE]
    <3>1. TypeOK'
      BY <1>8, <2>2 DEF WriteMap, GoesTo
    <3>2. NothingNewer' /\ UntouchedYet' /\ StepsFit'
      BY <1>8, <2>2 DEF WriteMap, GoesTo
    <3>3. MapNotOlder'
      BY <1>8, <2>2 DEF WriteMap, GoesTo
    <3>4. OkIsComplete'
      BY <1>8, <2>2 DEF WriteMap, GoesTo
    <3> QED
      BY <3>1, <3>2, <3>3, <3>4
  <2> QED
    BY <1>8, <2>1, <2>2 DEF WriteMap
<1>9. CASE OpenJs
  <2>1. CASE Ends("error") /\ UNCHANGED js
    BY <1>9, <2>1 DEF OpenJs, Ends
  <2>2. CASE GoesTo("writeJs") /\ js' = Truncated
    <3>1. TypeOK'
      BY <1>9, <2>2 DEF OpenJs, GoesTo, Truncated
    <3>2. NothingNewer' /\ UntouchedYet' /\ StepsFit'
      BY <1>9, <2>2 DEF OpenJs, GoesTo, Truncated
    <3>3. MapNotOlder'
      BY <1>9, <2>2 DEF OpenJs, GoesTo, Truncated
    <3>4. OkIsComplete'
      BY <1>9, <2>2 DEF OpenJs, GoesTo, Truncated
    <3> QED
      BY <3>1, <3>2, <3>3, <3>4
  <2> QED
    BY <1>9, <2>1, <2>2 DEF OpenJs
<1>10. CASE WriteJs
  <2>1. CASE Ends("error") /\ UNCHANGED js
    BY <1>10, <2>1 DEF WriteJs, Ends
  <2>2. CASE Ends("ok") /\ js' = [st |-> "whole", rev |-> held.rev, ref |-> mode = "js+map"]
    <3>1. TypeOK'
      BY <1>10, <2>2 DEF WriteJs, Ends
    <3>2. NothingNewer' /\ UntouchedYet' /\ StepsFit'
      BY <1>10, <2>2 DEF WriteJs, Ends
    <3>3. MapNotOlder'
      BY <1>10, <2>2 DEF WriteJs, Ends
    <3>4. OkIsComplete'
      BY <1>10, <2>2 DEF WriteJs, Ends
    <3> QED
      BY <3>1, <3>2, <3>3, <3>4
  <2> QED
    BY <1>10, <2>1, <2>2 DEF WriteJs
<1>11. CASE Killed
  BY <1>11 DEF Killed, Ends
<1>12. CASE UNCHANGED vars
  BY <1>12 DEF vars
<1> QED
  BY <1>1, <1>2, <1>3, <1>4, <1>5, <1>6, <1>7, <1>8, <1>9, <1>10, <1>11, <1>12 DEF Next

----------------------------------------------------------------------------
(* The invariant holds in every state of every run of the command. *)
LEMMA AlwaysIInv == Spec => []IInv
BY InitIInv, NextIInv, PTL DEF Spec

(***************************************************************************)
(* The files and the process are what main.rs takes them for; while the    *)
(* JavaScript is written, its source map is complete.                      *)
(***************************************************************************)
THEOREM TypeCorrect == Spec => []TypeOK
<1>1. IInv => TypeOK
  BY DEF IInv
<1> QED
  BY <1>1, AlwaysIInv, PTL

(***************************************************************************)
(* JavaScript that names a source map is never newer than the map, however *)
(* often the command was killed or failed and the input edited in between. *)
(***************************************************************************)
THEOREM MapFirst == Spec => []MapNotOlder
<1>1. IInv => MapNotOlder
  BY DEF IInv
<1> QED
  BY <1>1, AlwaysIInv, PTL

(***************************************************************************)
(* Success on a valid input means that all that was asked for is written,  *)
(* from one revision; on any other input, that nothing is.                 *)
(***************************************************************************)
THEOREM SuccessIsComplete == Spec => []OkIsComplete
<1>1. IInv => OkIsComplete
  BY DEF IInv
<1> QED
  BY <1>1, AlwaysIInv, PTL
=============================================================================
