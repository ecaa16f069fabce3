---------------------------- MODULE MCBuiltins ------------------------------
(***************************************************************************)
(* Lists of up to three elements, and versions of up to three components.  *)
(* The two share no state: a behaviour is one call of either.              *)
(***************************************************************************)
EXTENDS MCAsyncList, CompareVersions

Parts == {Digits(0), Digits(1), Digits(2), Word(1), Word(2), Pre}

MCVersions == UNION {[1 .. n -> Parts] : n \in 0 .. 3}

VARIABLE called   \* the builtin: of lists, or compareVersions

(* The list operation that is not called has been answered. *)
NoList ==
  /\ job = Job("resolve", <<>>, <<>>) /\ task = Start(job)
  /\ mtx = [t \in DOMAIN task |-> 0] /\ res = Fulfilled(<<>>, FALSE)

BuiltinsInit ==
  \/ called = "list" /\ Init /\ s1p = <<>> /\ s2p = <<>> /\ at = 1 /\ ret = 0
  \/ called = "compareVersions" /\ NoList /\ CompareInit

BuiltinsNext ==
  /\ UNCHANGED called
  /\ \/ called = "list" /\ Next /\ UNCHANGED compareVars
     \/ called = "compareVersions" /\ CompareNext /\ UNCHANGED vars

(* Elements and callbacks settle, and the event loop runs what is due. *)
BuiltinsSpec ==
  BuiltinsInit /\ [][BuiltinsNext]_<<called, vars, compareVars>> /\ WF_vars(Next)
=============================================================================
