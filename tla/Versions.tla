------------------------------ MODULE Versions -------------------------------
(***************************************************************************)
(* Launcher.compareVersion.  A version is the sequence of its tokens, the  *)
(* runs of letters and digits in it.  What Integer.parseInt takes is a     *)
(* number; everything else, a number beyond int included, is a word.       *)
(***************************************************************************)
EXTENDS Integers, Sequences

CONSTANT MaxInt  \* Integer.MAX_VALUE

ASSUME MaxIntAssumption == MaxInt \in Nat

(* .text: the place compareToIgnoreCase gives the token among all texts *)
Token   == [digits : BOOLEAN, value : Nat, text : Nat]
Version == Seq(Token)

IsInt(t) == t.digits /\ t.value <= MaxInt

Compare(m, n) == IF m < n THEN -1 ELSE IF m > n THEN 1 ELSE 0

(* mutant: all tokens are compared as text *)
CompareText(s, t) == Compare(s.text, t.text)

CompareToken(s, t) ==
  IF IsInt(s) /\ IsInt(t) THEN Compare(s.value, t.value)
  ELSE IF IsInt(s) THEN 1
  ELSE IF IsInt(t) THEN -1
  ELSE Compare(s.text, t.text)

(* the tokens in which both versions have something to say, and differ *)
Differences(a, b) ==
  {i \in DOMAIN a \cap DOMAIN b : CompareToken(a[i], b[i]) # 0}

(* Its sign.  The first difference decides, or else the number of tokens. *)
CompareVersion(a, b) ==
  LET D == Differences(a, b) IN
    IF D = {} THEN Compare(Len(a), Len(b))
    ELSE LET i == CHOOSE i \in D : \A j \in D : i <= j IN CompareToken(a[i], b[i])
=============================================================================
