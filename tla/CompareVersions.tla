-------------------------- MODULE CompareVersions ---------------------------
(***************************************************************************)
(* compareVersions (index.ts): two versions, split into components by      *)
(* splitVersion, are walked in parallel to the first pair of components    *)
(* that decides.  Words are numbered in their order as strings; zeros in   *)
(* front of a number are gone with parseInt.                               *)
(***************************************************************************)
EXTENDS Integers, Sequences

CONSTANT Versions   \* the versions considered

(* A run of digits, a run of letters, the word `pre'; undefined is what    *)
(* _.zip puts where one version has run out of components.                 *)
Digits(n) == [k |-> "digits", n |-> n]
Word(n)   == [k |-> "word", n |-> n]
Pre       == [k |-> "pre", n |-> 0]
undefined == [k |-> "undefined", n |-> 0]

Component == [k : {"digits", "word"}, n : Nat] \cup {Pre}

ASSUME VersionsAssumption == Versions \subseteq Seq(Component)

VARIABLES
  s1p, s2p,  \* the versions
  at,        \* the pair of components that is looked at next
  ret        \* the answer, 2 while there is none

compareVars == <<s1p, s2p, at, ret>>

(***************************************************************************)
(* The function that is mapped over the pairs.  Comparing undefined with a *)
(* word, both `a < b' and `a == b' are false.                              *)
(***************************************************************************)
Decide(a, b) ==
  LET ina == a.k = "digits"
      inb == b.k = "digits"
      less  == a.k = b.k /\ a.n < b.n
      equal == a.k = b.k /\ a.n = b.n
  IN IF a = b THEN 0
     ELSE IF ina /\ inb THEN (IF less THEN -1 ELSE IF equal THEN 0 ELSE 1)
     ELSE IF a.k = "undefined" /\ inb THEN -1
     ELSE IF ina /\ b.k = "undefined" THEN 1
     ELSE IF a = Pre \/ (~ina /\ inb) THEN -1
     ELSE IF b = Pre \/ (ina /\ ~inb) THEN 1
     ELSE IF less THEN -1 ELSE IF equal THEN 0 ELSE 1

(* _.zip *)
At(s, j) == IF j <= Len(s) THEN s[j] ELSE undefined

Longest(s, t) == IF Len(s) < Len(t) THEN Len(t) ELSE Len(s)

(* Mutant: the walk ends with the shorter version. *)
MoreShortest == at <= Len(s1p) /\ at <= Len(s2p)

More == at <= Longest(s1p, s2p)

(* .find((x) => x !== 0) *)
Compare ==
  /\ ret = 2 /\ More
  /\ LET x == Decide(At(s1p, at), At(s2p, at))
     IN IF x = 0 THEN at' = at + 1 /\ ret' = ret ELSE at' = at /\ ret' = x
  /\ UNCHANGED <<s1p, s2p>>

(* `ret !== undefined ? ret : 0' *)
Exhausted ==
  /\ ret = 2 /\ ~More
  /\ ret' = 0
  /\ UNCHANGED <<s1p, s2p, at>>

CompareInit ==
  /\ s1p \in Versions /\ s2p \in Versions
  /\ at = 1 /\ ret = 2

CompareNext == Compare \/ Exhausted

CompareSpec == CompareInit /\ [][CompareNext]_compareVars

----------------------------------------------------------------------------
(* What Nix says (compareVersions in its manual and componentsLT). *)

LT(a, b) ==
  \/ a.k = "digits" /\ b.k = "digits" /\ a.n < b.n
  \/ a.k = "undefined" /\ b.k \in {"digits", "word"}
  \/ a = Pre /\ b # Pre
  \/ a.k = "word" /\ b.k = "digits"
  \/ a.k = "word" /\ b.k = "word" /\ a.n < b.n

Tie(a, b) == ~LT(a, b) /\ ~LT(b, a)

(* Component j is the first to decide. *)
Decisive(s, t, j) ==
  /\ j \in 1 .. Longest(s, t) /\ ~Tie(At(s, j), At(t, j))
  /\ \A h \in 1 .. (j - 1) : Tie(At(s, h), At(t, h))

Older(s, t) == \E j \in 1 .. Longest(s, t) : Decisive(s, t, j) /\ LT(At(s, j), At(t, j))

(* The two versions differ first where one has ended and the other goes on *)
(* with a word.                                                            *)
WordAtEnd(s, t) ==
  \E j \in 1 .. Longest(s, t) :
    Decisive(s, t, j) /\ {At(s, j).k, At(t, j).k} = {"undefined", "word"}

----------------------------------------------------------------------------
(* The walk stays within the versions, one step past the last at most. *)
TypeOK ==
  /\ s1p \in Versions /\ s2p \in Versions
  /\ at \in 1 .. Longest(s1p, s2p) + 1
  /\ ret \in {-1, 0, 1, 2}

(***************************************************************************)
(* Except where a version ends before a word, the answer is the one that   *)
(* Nix's order on versions gives, whichever is asked about first           *)
(* (index.ts 572).                                                         *)
(***************************************************************************)
OrderedButForWords ==
  ret # 2 /\ ~WordAtEnd(s1p, s2p) =>
    /\ ret = -1 <=> Older(s1p, s2p)
    /\ ret = 1 <=> Older(s2p, s1p)
=============================================================================
