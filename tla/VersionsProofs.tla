---------------------------- MODULE VersionsProofs ----------------------------
(***************************************************************************)
(* compareVersion is an order on all versions, whatever their tokens.      *)
(* findAvailableUpdate needs that to find a newest one.                    *)
(***************************************************************************)
EXTENDS Versions, FiniteSetTheorems, TLAPS

(* The least-number principle for a set: a least n is one whose interval    *)
(* 0..n has no other such interval in it.                                   *)
LEMMA Least ==
  ASSUME NEW S \in SUBSET Nat, S # {}
  PROVE  \E n \in S : \A j \in S : n <= j
  <1> DEFINE R == StrictSubsetOrdering(Nat)
             T == {0 .. n : n \in S}
  <1>1. T \subseteq FiniteSubsetsOf(Nat)
    <2>1. \A n \in S : IsFiniteSet(0 .. n) /\ 0 .. n \in SUBSET Nat
      BY FS_Interval
    <2> QED BY <2>1 DEF FiniteSubsetsOf
  <1>2. \E x \in T : \A y \in T : ~(<<y, x>> \in R)
    <2>1. T # {} OBVIOUS
    <2>2. IsWellFoundedOn(R, FiniteSubsetsOf(Nat)) BY FS_StrictSubsetOrderingWellFounded
    <2> HIDE DEF R, T
    <2> QED BY <1>1, <2>1, <2>2, WFMin
  <1>3. PICK n \in S : \A m \in S : ~(<<0 .. m, 0 .. n>> \in R)
    BY <1>2
  <1>4. ASSUME NEW j \in S, ~(n <= j) PROVE FALSE
    <2>1. 0 .. j \subseteq 0 .. n /\ 0 .. j # 0 .. n /\ 0 .. j \in SUBSET Nat /\ 0 .. n \in SUBSET Nat
      <3>1. n \in 0 .. n /\ n \notin 0 .. j BY <1>4
      <3> QED BY <1>4, <3>1
    <2>2. <<0 .. j, 0 .. n>> \in R BY <2>1 DEF StrictSubsetOrdering
    <2> QED BY <1>3, <2>2
  <1> QED BY <1>4

LEMMA TokenOrder ==
  ASSUME NEW s \in Token, NEW t \in Token, NEW u \in Token
  PROVE  /\ CompareToken(s, t) \in {-1, 0, 1}
         /\ CompareToken(t, s) = -CompareToken(s, t)
         /\ CompareToken(s, t) <= 0 /\ CompareToken(t, u) < 0 => CompareToken(s, u) < 0
         /\ CompareToken(s, t) < 0 /\ CompareToken(t, u) <= 0 => CompareToken(s, u) < 0
         /\ CompareToken(s, t) = 0 /\ CompareToken(t, u) = 0 => CompareToken(s, u) = 0
  BY MaxIntAssumption DEF Token, IsInt, Compare, CompareToken

LEMMA VersionType ==
  ASSUME NEW a \in Version
  PROVE  /\ Len(a) \in Nat /\ DOMAIN a = 1 .. Len(a)
         /\ \A i \in 1 .. Len(a) : a[i] \in Token
  BY DEF Version

(* Where two versions first differ, if they do.                             *)
LEMMA FirstDifference ==
  ASSUME NEW a \in Version, NEW b \in Version, Differences(a, b) # {}
  PROVE  \E i \in Differences(a, b) :
           /\ \A j \in Differences(a, b) : i <= j
           /\ CompareVersion(a, b) = CompareToken(a[i], b[i])
  <1>1. Differences(a, b) \in SUBSET Nat
    BY VersionType DEF Differences
  <1>2. PICK n \in Differences(a, b) : \A j \in Differences(a, b) : n <= j
    BY <1>1, Least
  <1> DEFINE First(i) == i \in Differences(a, b) /\ \A j \in Differences(a, b) : i <= j
             f == CHOOSE i \in Differences(a, b) : \A j \in Differences(a, b) : i <= j
  <1>3. First(f) BY <1>2
  <1>4. CompareVersion(a, b) = CompareToken(a[f], b[f])
    BY DEF CompareVersion
  <1> QED BY <1>3, <1>4

(* What decides, with no CHOOSE in it: a place, or the lengths.             *)
LEMMA DecidedAt ==
  ASSUME NEW a \in Version, NEW b \in Version,
         NEW i \in 1 .. Len(a), i <= Len(b), CompareToken(a[i], b[i]) # 0,
         \A j \in 1 .. Len(a) : j < i => CompareToken(a[j], b[j]) = 0
  PROVE  CompareVersion(a, b) = CompareToken(a[i], b[i])
  <1>1. i \in Differences(a, b) BY VersionType DEF Differences
  <1>2. PICK k \in Differences(a, b) :
          /\ \A j \in Differences(a, b) : k <= j
          /\ CompareVersion(a, b) = CompareToken(a[k], b[k])
    BY <1>1, FirstDifference
  <1>3. k = i
    BY <1>1, <1>2, VersionType DEF Differences
  <1> QED BY <1>2, <1>3

LEMMA DecidedByLength ==
  ASSUME NEW a \in Version, NEW b \in Version,
         \A j \in 1 .. Len(a) : j <= Len(b) => CompareToken(a[j], b[j]) = 0
  PROVE  CompareVersion(a, b) = Compare(Len(a), Len(b))
  <1>1. Differences(a, b) = {} BY VersionType DEF Differences
  <1> QED BY <1>1 DEF CompareVersion

LEMMA Decision ==
  ASSUME NEW a \in Version, NEW b \in Version
  PROVE  \/ \A j \in 1 .. Len(a) : j <= Len(b) => CompareToken(a[j], b[j]) = 0
         \/ \E i \in 1 .. Len(a) :
              /\ i <= Len(b) /\ CompareToken(a[i], b[i]) # 0
              /\ \A j \in 1 .. Len(a) : j < i => CompareToken(a[j], b[j]) = 0
  <1>1. CASE Differences(a, b) = {}
    BY <1>1, VersionType DEF Differences
  <1>2. CASE Differences(a, b) # {}
    <2>1. PICK k \in Differences(a, b) : \A j \in Differences(a, b) : k <= j
      BY <1>2, FirstDifference
    <2> QED BY <2>1, VersionType DEF Differences
  <1> QED BY <1>1, <1>2

(* Launcher.compareVersion(a, b) and compareVersion(b, a) never contradict  *)
(* each other.                                                              *)
THEOREM CompareAntisymmetric ==
  \A a, b \in Version :
    /\ CompareVersion(a, b) \in {-1, 0, 1}
    /\ CompareVersion(b, a) = -CompareVersion(a, b)
  <1> SUFFICES ASSUME NEW a \in Version, NEW b \in Version
               PROVE  /\ CompareVersion(a, b) \in {-1, 0, 1}
                      /\ CompareVersion(b, a) = -CompareVersion(a, b)
    OBVIOUS
  <1> USE VersionType
  <1>1. \A i \in 1 .. Len(a) : i <= Len(b) =>
          /\ CompareToken(a[i], b[i]) \in {-1, 0, 1}
          /\ CompareToken(b[i], a[i]) = -CompareToken(a[i], b[i])
    BY TokenOrder
  <1>2. CASE \A j \in 1 .. Len(a) : j <= Len(b) => CompareToken(a[j], b[j]) = 0
    <2>1. CompareVersion(a, b) = Compare(Len(a), Len(b))
      BY <1>2, DecidedByLength
    <2>2. \A j \in 1 .. Len(b) : j <= Len(a) => CompareToken(b[j], a[j]) = 0
      BY <1>1, <1>2
    <2>3. CompareVersion(b, a) = Compare(Len(b), Len(a))
      BY <2>2, DecidedByLength
    <2> QED BY <2>1, <2>3 DEF Compare
  <1>3. ASSUME NEW i \in 1 .. Len(a), i <= Len(b), CompareToken(a[i], b[i]) # 0,
               \A j \in 1 .. Len(a) : j < i => CompareToken(a[j], b[j]) = 0
        PROVE  /\ CompareVersion(a, b) \in {-1, 0, 1}
               /\ CompareVersion(b, a) = -CompareVersion(a, b)
    <2>1. CompareVersion(a, b) = CompareToken(a[i], b[i])
      BY <1>3, DecidedAt
    <2>2. i \in 1 .. Len(b) /\ i <= Len(a) /\ CompareToken(b[i], a[i]) # 0
      BY <1>1, <1>3
    <2>3. \A j \in 1 .. Len(b) : j < i => CompareToken(b[j], a[j]) = 0
      BY <1>1, <1>3
    <2>4. CompareVersion(b, a) = CompareToken(b[i], a[i])
      BY <2>2, <2>3, DecidedAt
    <2> QED BY <1>1, <1>3, <2>1, <2>4
  <1> QED BY <1>2, <1>3, Decision

(* What is not newer than b, which is not newer than c, is not newer than   *)
(* c.                                                                       *)
THEOREM CompareTransitive ==
  \A a, b, c \in Version :
    CompareVersion(a, b) <= 0 /\ CompareVersion(b, c) <= 0 => CompareVersion(a, c) <= 0
  <1> SUFFICES ASSUME NEW a \in Version, NEW b \in Version, NEW c \in Version,
                      CompareVersion(a, b) <= 0, CompareVersion(b, c) <= 0
               PROVE  CompareVersion(a, c) <= 0
    OBVIOUS
  <1> DEFINE Same(x, y) == \A j \in 1 .. Len(x) : j <= Len(y) => CompareToken(x[j], y[j]) = 0
             Parted(x, y, i) ==
               /\ i \in 1 .. Len(x) /\ i <= Len(y) /\ CompareToken(x[i], y[i]) < 0
               /\ \A j \in 1 .. Len(x) : j < i => CompareToken(x[j], y[j]) = 0
  <1>t. /\ Len(a) \in Nat /\ Len(b) \in Nat /\ Len(c) \in Nat
        /\ \A i \in 1 .. Len(a) : a[i] \in Token
        /\ \A i \in 1 .. Len(b) : b[i] \in Token
        /\ \A i \in 1 .. Len(c) : c[i] \in Token
    BY VersionType
  <1>o. \A i \in Nat : i \in 1 .. Len(a) /\ i \in 1 .. Len(b) /\ i \in 1 .. Len(c) =>
          LET ab == CompareToken(a[i], b[i])
              bc == CompareToken(b[i], c[i])
              ac == CompareToken(a[i], c[i])
          IN  /\ ab <= 0 /\ bc < 0 => ac < 0
              /\ ab < 0 /\ bc <= 0 => ac < 0
              /\ ab = 0 /\ bc = 0 => ac = 0
              /\ ab \in {-1, 0, 1} /\ bc \in {-1, 0, 1} /\ ac \in {-1, 0, 1}
    BY <1>t, TokenOrder
  <1>d. ASSUME NEW x \in Version, NEW y \in Version, CompareVersion(x, y) <= 0
        PROVE  (Same(x, y) /\ Len(x) <= Len(y)) \/ \E i \in Nat : Parted(x, y, i)
    <2> USE VersionType
    <2>1. CASE Same(x, y)
      <3>1. CompareVersion(x, y) = Compare(Len(x), Len(y)) BY <2>1, DecidedByLength
      <3> QED BY <1>d, <2>1, <3>1 DEF Compare
    <2>2. ASSUME NEW i \in 1 .. Len(x), i <= Len(y), CompareToken(x[i], y[i]) # 0,
                 \A j \in 1 .. Len(x) : j < i => CompareToken(x[j], y[j]) = 0
          PROVE  \E k \in Nat : Parted(x, y, k)
      <3>1. CompareToken(x[i], y[i]) <= 0 BY <1>d, <2>2, DecidedAt
      <3>2. CompareToken(x[i], y[i]) \in {-1, 0, 1} BY <2>2, TokenOrder
      <3>3. Parted(x, y, i) BY <2>2, <3>1, <3>2
      <3> QED BY <3>3
    <2> QED BY <2>1, <2>2, Decision
  <1>e. ASSUME NEW i \in Nat, Parted(a, c, i) PROVE CompareVersion(a, c) <= 0
    <2>1. CompareToken(a[i], c[i]) # 0 /\ i \in 1 .. Len(a) BY <1>e
    <2>2. CompareVersion(a, c) = CompareToken(a[i], c[i]) BY <1>e, <2>1, DecidedAt
    <2>3. CompareToken(a[i], c[i]) \in {-1, 0, 1} BY <1>e, <1>t, TokenOrder
    <2> QED BY <1>e, <2>2, <2>3
  <1>f. ASSUME Same(a, c), Len(a) <= Len(c) PROVE CompareVersion(a, c) <= 0
    <2>1. CompareVersion(a, c) = Compare(Len(a), Len(c)) BY <1>f, DecidedByLength
    <2> QED BY <1>f, <1>t, <2>1 DEF Compare
  <1>1. CASE Same(a, b) /\ Len(a) <= Len(b) /\ Same(b, c) /\ Len(b) <= Len(c)
    BY <1>1, <1>f, <1>o, <1>t
  <1>2. ASSUME Same(a, b), Len(a) <= Len(b), NEW k \in Nat, Parted(b, c, k)
        PROVE  CompareVersion(a, c) <= 0
    <2>1. CASE k \in 1 .. Len(a)
      <3>1. Parted(a, c, k) BY <1>2, <2>1, <1>o, <1>t
      <3> QED BY <3>1, <1>e
    <2>2. CASE k \notin 1 .. Len(a)
      <3>1. Same(a, c) /\ Len(a) <= Len(c) BY <1>2, <2>2, <1>o, <1>t
      <3> QED BY <3>1, <1>f
    <2> QED BY <2>1, <2>2
  <1>3. ASSUME NEW i \in Nat, Parted(a, b, i), Same(b, c), Len(b) <= Len(c)
        PROVE  CompareVersion(a, c) <= 0
    <2>1. Parted(a, c, i) BY <1>3, <1>o, <1>t
    <2> QED BY <2>1, <1>e
  <1>4. ASSUME NEW i \in Nat, Parted(a, b, i), NEW k \in Nat, Parted(b, c, k)
        PROVE  CompareVersion(a, c) <= 0
    <2>1. CASE i < k
      <3>1. Parted(a, c, i) BY <1>4, <2>1, <1>o, <1>t
      <3> QED BY <3>1, <1>e
    <2>2. CASE k < i
      <3>1. Parted(a, c, k) BY <1>4, <2>2, <1>o, <1>t
      <3> QED BY <3>1, <1>e
    <2>3. CASE i = k
      <3>1. Parted(a, c, i) BY <1>4, <2>3, <1>o, <1>t
      <3> QED BY <3>1, <1>e
    <2> QED BY <2>1, <2>2, <2>3
  <1> QED
    <2>1. (Same(a, b) /\ Len(a) <= Len(b)) \/ \E i \in Nat : Parted(a, b, i) BY <1>d
    <2>2. (Same(b, c) /\ Len(b) <= Len(c)) \/ \E i \in Nat : Parted(b, c, i) BY <1>d
    <2> HIDE DEF Same, Parted
    <2> QED BY <1>1, <1>2, <1>3, <1>4, <2>1, <2>2
=============================================================================
