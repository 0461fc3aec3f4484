-------------------------- MODULE ClientLaunchProofs --------------------------
(***************************************************************************)
(* Theorems about ClientLaunch, for command lines of any length.           *)
(***************************************************************************)
EXTENDS ClientLaunch, TLAPS, SequenceTheorems, FiniteSetTheorems, WellFoundedInduction

(* The words the parsers still have to read are never more than were typed   *)
(* or put together, and the rest of a line of words is one of words.         *)
LEMMA RestOfLine ==
  ASSUME NEW s \in Seq(Words), s # <<>>
  PROVE  /\ Head(s) \in Words /\ Tail(s) \in Seq(Words)
         /\ Len(s) > 1 => s[2] \in Words /\ Tail(Tail(s)) \in Seq(Words)
<1>1. /\ Head(s) \in Words /\ Tail(s) \in Seq(Words)
      /\ Len(s) \in Nat /\ Len(Tail(s)) = Len(s) - 1
  BY HeadTailProperties
<1>2. CASE Len(s) > 1
  <2>1. 2 \in 1 .. Len(s)
    BY <1>2, LenProperties
  <2>2. s[2] \in Words
    BY <2>1, ElementOfSeq
  <2>3. Tail(s) # <<>>
    <3>1. Len(Tail(s)) # 0
      BY <1>1, <1>2
    <3> QED
      BY <3>1, EmptySeq
  <2>4. Tail(Tail(s)) \in Seq(Words)
    BY <1>1, <2>3, HeadTailProperties
  <2> QED
    BY <1>1, <2>2, <2>4
<1> QED
  BY <1>1, <1>2

LEMMA TypedWords ==
  ASSUME NEW s \in Lines
  PROVE  s \in Seq(Words) /\ <<"-c">> \o s \in Seq(Words)
<1>1. s \in Seq(Words)
  BY LinesAssumption
<1>2. <<"-c">> \in Seq(Words)
  BY DEF Words, Dashed
<1> QED
  BY <1>1, <1>2, ConcatProperties

Givens == [args : Seq(Words), j : Seq(Words), debug : BOOLEAN, help : BOOLEAN,
           classpath : Seq(Words)]

LEMMA Defaults ==
  /\ <<>> \in Seq(Words) /\ NothingGiven \in Givens
  /\ NoClient \in [args : Seq(Words), jvm : Seq(Words)]
  /\ ConfigVmArgs \in Seq(Words) /\ SavedArgs \in Seq(Words) /\ SavedJvmArgs \in Seq(Words)
  /\ EnvArgs \in Seq(Words) /\ EnvVmArgs \in Seq(Words)
  /\ BootstrapArgs \in Seq(Words) /\ JvmProps \in Seq(Words)
  /\ <<"--debug">> \in Seq(Words) /\ <<"--safe-mode">> \in Seq(Words)
  /\ <<"-Dipv4">> \in Seq(Words) /\ <<ErrorFile>> \in Seq(Words)
  /\ <<"--jav_config", "url">> \in Seq(Words)
  /\ <<"-c", "-J", BootstrapArgs[1], "-J", JvmProps[1]>> \in Seq(Words)
  /\ <<"--", "--classpath", "jars">> \in Seq(Words)
<1>1. <<>> \in Seq(Words)
  OBVIOUS
<1> QED
  BY <1>1 DEF NothingGiven, Givens, NoClient, ConfigVmArgs, SavedArgs, SavedJvmArgs, EnvArgs,
     EnvVmArgs, BootstrapArgs, JvmProps, ErrorFile, Words, Dashed

LEMMA SavedWords ==
  ASSUME NEW what, NEW words \in Seq(Words)
  PROVE  Saved(what, words) \in Seq(Words)
BY Defaults DEF Saved

(* The sources of the two lines of arguments are lines of words.             *)
GivenArgs    == IF given.args # <<>> THEN given.args ELSE Saved("args", SavedArgs)
GivenJvmArgs == IF given.j # <<>> THEN given.j ELSE Saved("jvm", SavedJvmArgs)

LEMMA Sources ==
  ASSUME TypeOK
  PROVE  /\ GivenArgs \in Seq(Words) /\ GivenJvmArgs \in Seq(Words)
         /\ DebugArgs \in Seq(Words) /\ Saved("safemode", <<"--safe-mode">>) \in Seq(Words)
         /\ Saved("ipv4", <<"-Dipv4">>) \in Seq(Words)
<1>1. given.args \in Seq(Words) /\ given.j \in Seq(Words)
  BY DEF TypeOK
<1>2. /\ Saved("args", SavedArgs) \in Seq(Words) /\ Saved("jvm", SavedJvmArgs) \in Seq(Words)
      /\ Saved("debug", <<"--debug">>) \in Seq(Words)
      /\ Saved("safemode", <<"--safe-mode">>) \in Seq(Words)
      /\ Saved("ipv4", <<"-Dipv4">>) \in Seq(Words)
  BY Defaults, SavedWords
<1> QED
  BY <1>1, <1>2, Defaults DEF GivenArgs, GivenJvmArgs, DebugArgs

LEMMA Assembled ==
  ASSUME TypeOK
  PROVE  /\ ClientArgs \in Seq(Words) /\ JvmParams \in Seq(Words)
         /\ ForkCommand \in Seq(Words) /\ BootstrapArgs \o JvmProps \o JvmParams \in Seq(Words)
<1>1. ClientArgs \in Seq(Words)
  <2>1. ClientArgs = ((GivenArgs \o EnvArgs) \o DebugArgs) \o Saved("safemode", <<"--safe-mode">>)
    BY DEF ClientArgs, GivenArgs
  <2> QED
    BY <2>1, Sources, Defaults, ConcatProperties
<1>2. JvmParams \in Seq(Words)
  <2>1. JvmParams = ((<<ErrorFile>> \o GivenJvmArgs) \o Saved("ipv4", <<"-Dipv4">>)) \o EnvVmArgs
    BY DEF JvmParams, GivenJvmArgs
  <2> QED
    BY <2>1, Sources, Defaults, ConcatProperties
<1>3. BootstrapArgs \o JvmProps \in Seq(Words)
  BY Defaults, ConcatProperties
<1> QED
  BY <1>1, <1>2, <1>3, Defaults, ConcatProperties DEF ForkCommand

(***************************************************************************)
(* Whatever is typed, and however often it is taken apart and put together *)
(* again, every part of the way holds lines of words and ends as TypeOK    *)
(* says.                                                                   *)
(***************************************************************************)
THEOREM TypeCorrect == Spec => []TypeOK
<1> USE DEF Givens
<1>1. Init => TypeOK
  BY TypedWords, Defaults DEF Init, TypeOK
<1>2. TypeOK /\ [Next]_vars => TypeOK'
  <2> SUFFICES ASSUME TypeOK, [Next]_vars PROVE TypeOK'
    OBVIOUS
  <2>0. argv # <<>> =>
          /\ Head(argv) \in Words /\ Tail(argv) \in Seq(Words)
          /\ Len(argv) > 1 => argv[2] \in Words /\ Tail(Tail(argv)) \in Seq(Words)
    BY RestOfLine DEF TypeOK
  <2>1. CASE Packr
    BY <2>1 DEF TypeOK, Packr, Ends
  <2>2. CASE DroptFlag \/ DroptJ
    <3>1. CASE DroptFlag
      BY <2>0, <3>1 DEF TypeOK, AtOption, DroptFlag
    <3>2. CASE DroptJ
      <4>1. Append(vmArgs, argv[2]) \in Seq(Words)
        BY <2>0, <3>2, AppendProperties DEF TypeOK, AtOption, DroptJ
      <4> QED
        BY <2>0, <3>2, <4>1 DEF TypeOK, AtOption, DroptJ
    <3> QED
      BY <2>2, <3>1, <3>2
  <2>3. CASE DroptHelp \/ DroptRejects
    BY <2>3 DEF TypeOK, DroptHelp, DroptRejects, Ends
  <2>4. CASE DroptEnds
    BY <2>0, <2>4 DEF TypeOK, AtOption, DroptEnds
  <2>5. CASE LoadConfiguration \/ ConfigurationFails
    BY <2>5, Defaults DEF TypeOK, LoadConfiguration, ConfigurationFails, Fails, Ends
  <2>6. CASE ParseApplicationURI
    BY <2>6, Defaults DEF TypeOK, ParseApplicationURI
  <2>7. CASE ParseFlag
    BY <2>0, <2>7 DEF TypeOK, AtWord, ParseFlag
  <2>8. CASE ParseWithValue
    <3>1. Append(given.j, argv[2]) \in Seq(Words) /\ Append(given.classpath, argv[2]) \in Seq(Words)
      BY <2>0, <2>8, AppendProperties DEF TypeOK, AtWord, ParseWithValue
    <3> QED
      BY <2>0, <2>8, <3>1 DEF TypeOK, AtWord, ParseWithValue
  <2>9. CASE ParseValueMissing \/ ParsedAll
    BY <2>9 DEF TypeOK, ParseValueMissing, ParsedAll, Ends
  <2>10. CASE ParseSeparator
    <3>1. given.args \o Tail(argv) \in Seq(Words)
      BY <2>0, <2>10, ConcatProperties DEF TypeOK, AtWord, ParseSeparator
    <3> QED
      BY <2>10, <3>1, Defaults DEF TypeOK, ParseSeparator
  <2>11. CASE ParseArgument
    <3>1. Append(given.args, Head(argv)) \in Seq(Words)
      BY <2>0, <2>11, AppendProperties DEF TypeOK, AtWord, ParseArgument
    <3> QED
      BY <2>0, <2>11, <3>1 DEF TypeOK, AtWord, ParseArgument
  <2>12. CASE LaunchReflect
    BY <2>12, Assembled DEF TypeOK, LaunchReflect, Ends
  <2>16. CASE LaunchThrows
    BY <2>16 DEF TypeOK, LaunchThrows, Fails, Ends
  <2>13. CASE LaunchJvm
    <3>1. CASE place.appimage \/ place.broken
      BY <2>13, <3>1 DEF TypeOK, LaunchJvm, Fails, Ends
    <3>2. CASE ~(place.appimage \/ place.broken)
      <4>1. client' = [args |-> ClientArgs, jvm |-> BootstrapArgs \o JvmProps \o JvmParams]
        BY <2>13, <3>2 DEF LaunchJvm
      <4>2. client' \in [args : Seq(Words), jvm : Seq(Words)]
        BY <4>1, Assembled
      <4> QED
        BY <2>13, <3>2, <4>2 DEF TypeOK, LaunchJvm, Ends
    <3> QED
      BY <3>1, <3>2
  <2>14. CASE LaunchFork
    BY <2>14, Assembled, Defaults DEF TypeOK, LaunchFork, Fails, Ends
  <2>15. CASE UNCHANGED vars
    BY <2>15 DEF TypeOK, vars
  <2> QED
    BY <2>1, <2>2, <2>3, <2>4, <2>5, <2>6, <2>7, <2>8, <2>9, <2>10, <2>11, <2>12, <2>13,
       <2>14, <2>15, <2>16 DEF Next
<1> QED
  BY <1>1, <1>2, PTL DEF Spec

-----------------------------------------------------------------------------
(***************************************************************************)
(* A parser of options, in terms of the places in its line.                *)
(***************************************************************************)

(* Up to n there is an even number of words that take a value, so that the   *)
(* word at n is none of their values.                                        *)
EvenRun(s, takers, n) ==
  \E a \in 1 .. n :
    /\ (n - a) % 2 = 0
    /\ \A k \in a .. n - 1 : s[k] \in takers
    /\ a = 1 \/ s[a - 1] \notin takers

(* Where a parser may stand: not on a value, and not behind a stop.          *)
Cursor(s, takers, stoppers, n) ==
  /\ n \in 1 .. Len(s) + 1
  /\ EvenRun(s, takers, n)
  /\ \A i \in 1 .. n - 1 : s[i] \in stoppers => ValueAt(s, takers, i)

LEMMA CursorOnNoValue ==
  ASSUME NEW s, NEW takers, NEW n \in Nat \ {0}, EvenRun(s, takers, n)
  PROVE  ~ValueAt(s, takers, n)
<1> SUFFICES ASSUME ValueAt(s, takers, n) PROVE FALSE
  OBVIOUS
<1>1. PICK a \in 1 .. n : /\ (n - a) % 2 = 0
                          /\ \A k \in a .. n - 1 : s[k] \in takers
                          /\ a = 1 \/ s[a - 1] \notin takers
  BY DEF EvenRun
<1>2. PICK m \in 1 .. n - 1 : /\ m % 2 = 1
                              /\ \A k \in n - m .. n - 1 : s[k] \in takers
                              /\ n - m = 1 \/ s[n - m - 1] \notin takers
  BY DEF ValueAt
<1>3. n - m # a
  BY <1>1, <1>2
<1>4. CASE n - m < a
  <2>1. a - 1 \in n - m .. n - 1 /\ a # 1
    BY <1>2, <1>4
  <2> QED
    BY <1>1, <1>2, <2>1
<1>5. CASE a < n - m
  <2>1. n - m - 1 \in a .. n - 1 /\ n - m # 1
    BY <1>2, <1>5
  <2> QED
    BY <1>1, <1>2, <2>1
<1> QED
  BY <1>2, <1>3, <1>4, <1>5

LEMMA CursorStarts ==
  ASSUME NEW s \in Seq(Words), NEW takers, NEW stoppers
  PROVE  Cursor(s, takers, stoppers, 1)
<1>1. Len(s) \in Nat
  BY LenProperties
<1>2. EvenRun(s, takers, 1)
  BY DEF EvenRun
<1> QED
  BY <1>1, <1>2 DEF Cursor

(* A word that takes no value.                                               *)
LEMMA CursorPlain ==
  ASSUME NEW s \in Seq(Words), NEW takers, NEW stoppers, NEW n,
         Cursor(s, takers, stoppers, n), n <= Len(s), s[n] \notin takers \cup stoppers
  PROVE  Cursor(s, takers, stoppers, n + 1)
<1>1. Len(s) \in Nat /\ n \in 1 .. Len(s) /\ n \in Nat \ {0}
  BY LenProperties DEF Cursor
<1>2. EvenRun(s, takers, n + 1)
  <2>1. n + 1 \in 1 .. n + 1 /\ (n + 1) - (n + 1) = 0 /\ 0 % 2 = 0
        /\ (n + 1) - 1 = n /\ (n + 1 .. (n + 1) - 1) = {}
    BY <1>1
  <2> QED
    BY <2>1 DEF EvenRun
<1>3. \A i \in 1 .. n : i \in 1 .. n - 1 \/ i = n
  BY <1>1
<1> QED
  BY <1>1, <1>2, <1>3 DEF Cursor

(* A word that takes a value, and the value.                                 *)
LEMMA CursorTaker ==
  ASSUME NEW s \in Seq(Words), NEW takers, NEW stoppers, NEW n,
         Cursor(s, takers, stoppers, n), n < Len(s), s[n] \in takers \ stoppers
  PROVE  ValueAt(s, takers, n + 1) /\ Cursor(s, takers, stoppers, n + 2)
<1>1. Len(s) \in Nat /\ n \in 1 .. Len(s) /\ n \in Nat \ {0}
  BY LenProperties DEF Cursor
<1>2. PICK a \in 1 .. n : /\ (n - a) % 2 = 0
                          /\ \A k \in a .. n - 1 : s[k] \in takers
                          /\ a = 1 \/ s[a - 1] \notin takers
  BY DEF Cursor, EvenRun
<1>3. \A k \in a .. n : s[k] \in takers
  BY <1>1, <1>2
<1>4. ValueAt(s, takers, n + 1)
  <2> DEFINE m == (n + 1) - a
  <2>1. m \in 1 .. (n + 1) - 1 /\ m % 2 = 1 /\ (n + 1) - m = a /\ (n + 1) - 1 = n
    BY <1>1, <1>2
  <2>2. \A k \in (n + 1) - m .. (n + 1) - 1 : s[k] \in takers
    BY <1>3, <2>1
  <2> HIDE DEF m
  <2> QED
    BY <1>2, <2>1, <2>2 DEF ValueAt
<1>5. EvenRun(s, takers, n + 2)
  <2>1. CASE s[n + 1] \in takers
    <3>1. a \in 1 .. n + 2 /\ ((n + 2) - a) % 2 = 0 /\ (n + 2) - 1 = n + 1
      BY <1>1, <1>2
    <3>2. \A k \in a .. n + 1 : s[k] \in takers
      BY <1>1, <1>3, <2>1
    <3> QED
      BY <1>2, <3>1, <3>2 DEF EvenRun
  <2>2. CASE s[n + 1] \notin takers
    <3>1. n + 2 \in 1 .. n + 2 /\ (n + 2) - (n + 2) = 0 /\ 0 % 2 = 0
          /\ (n + 2) - 1 = n + 1 /\ (n + 2 .. (n + 2) - 1) = {}
      BY <1>1
    <3> QED
      BY <2>2, <3>1 DEF EvenRun
  <2> QED
    BY <2>1, <2>2
<1>6. \A i \in 1 .. (n + 2) - 1 : i \in 1 .. n - 1 \/ i = n \/ i = n + 1
  BY <1>1
<1> QED
  BY <1>1, <1>4, <1>5, <1>6 DEF Cursor

(* A word that takes a value is only behind the parser with its value.       *)
LEMMA CursorBehindTaker ==
  ASSUME NEW s, NEW takers, NEW n \in Nat \ {0, 1}, EvenRun(s, takers, n),
         s[n - 1] \in takers
  PROVE  ValueAt(s, takers, n - 1)
<1>1. PICK a \in 1 .. n : /\ (n - a) % 2 = 0
                          /\ \A k \in a .. n - 1 : s[k] \in takers
                          /\ a = 1 \/ s[a - 1] \notin takers
  BY DEF EvenRun
<1>2. a # n
  BY <1>1
<1> DEFINE m == (n - 1) - a
<1>3. m \in 1 .. (n - 1) - 1 /\ m % 2 = 1 /\ (n - 1) - m = a
  BY <1>1, <1>2
<1>4. \A k \in (n - 1) - m .. (n - 1) - 1 : s[k] \in takers
  BY <1>1, <1>3
<1> HIDE DEF m
<1> QED
  BY <1>1, <1>3, <1>4 DEF ValueAt

(* Where it stops.                                                           *)
LEMMA CursorStops ==
  ASSUME NEW s \in Seq(Words), NEW takers, NEW stoppers, NEW n,
         Cursor(s, takers, stoppers, n), n = Len(s) + 1 \/ s[n] \in stoppers
  PROVE  StopAt(s, takers, stoppers) = n
<1> DEFINE stops == {i \in DOMAIN s : s[i] \in stoppers /\ ~ValueAt(s, takers, i)}
<1>1. Len(s) \in Nat /\ DOMAIN s = 1 .. Len(s) /\ n \in 1 .. Len(s) + 1
  BY LenProperties DEF Cursor
<1>2. \A i \in stops : n <= i
  <2> SUFFICES ASSUME NEW i \in stops, i < n PROVE FALSE
    BY <1>1
  <2>1. i \in 1 .. n - 1
    BY <1>1
  <2> QED
    BY <2>1 DEF Cursor
<1>3. CASE n = Len(s) + 1
  <2>1. stops = {}
    BY <1>1, <1>2, <1>3
  <2> QED
    BY <1>3, <2>1 DEF StopAt
<1>4. CASE n # Len(s) + 1
  <2>1. n \in stops
    <3>1. ~ValueAt(s, takers, n)
      BY <1>1, CursorOnNoValue DEF Cursor
    <3> QED
      BY <1>1, <1>4, <3>1
  <2>2. \A i \in stops : (\A k \in stops : i <= k) => i = n
    BY <1>1, <1>2, <2>1
  <2>3. (CHOOSE i \in stops : \A k \in stops : i <= k) = n
    <3> HIDE DEF stops
    <3> QED
      BY <1>2, <2>1, <2>2
  <2> QED
    BY <2>1, <2>3 DEF StopAt
<1> QED
  BY <1>3, <1>4

(* A set of numbers that is not empty has a least one: the interval up to   *)
(* it holds no smaller such interval.                                       *)
LEMMA SmallestNat ==
  ASSUME NEW S \in SUBSET Nat, S # {}
  PROVE  \E i \in S : \A k \in S : i <= k
<1> DEFINE R == StrictSubsetOrdering(Nat)
           Upto == {0 .. i : i \in S}
<1>1. Upto \subseteq FiniteSubsetsOf(Nat)
  <2>1. \A i \in S : IsFiniteSet(0 .. i) /\ 0 .. i \in SUBSET Nat
    BY FS_Interval
  <2> QED
    BY <2>1 DEF FiniteSubsetsOf
<1>2. \E x \in Upto : \A y \in Upto : ~(<<y, x>> \in R)
  <2>1. Upto # {}
    OBVIOUS
  <2>2. IsWellFoundedOn(R, FiniteSubsetsOf(Nat))
    BY FS_StrictSubsetOrderingWellFounded
  <2> HIDE DEF R, Upto
  <2> QED
    BY <1>1, <2>1, <2>2, WFMin
<1>3. PICK i \in S : \A k \in S : ~(<<0 .. k, 0 .. i>> \in R)
  BY <1>2
<1>4. ASSUME NEW k \in S, ~(i <= k)
      PROVE  FALSE
  <2>1. i \in 0 .. i /\ i \notin 0 .. k
    BY <1>4
  <2>2. 0 .. k \subseteq 0 .. i /\ 0 .. k # 0 .. i /\ 0 .. k \in SUBSET Nat /\ 0 .. i \in SUBSET Nat
    BY <1>4, <2>1
  <2>3. <<0 .. k, 0 .. i>> \in R
    BY <2>2 DEF StrictSubsetOrdering
  <2> QED
    BY <1>3, <2>3
<1> QED
  BY <1>4

LEMMA StopTyped ==
  ASSUME NEW s \in Seq(Words), NEW takers, NEW stoppers
  PROVE  StopAt(s, takers, stoppers) \in Int
<1> DEFINE stops == {i \in DOMAIN s : s[i] \in stoppers /\ ~ValueAt(s, takers, i)}
<1>1. Len(s) \in Nat /\ stops \in SUBSET Nat
  BY LenProperties
<1>2. CASE stops = {}
  BY <1>1, <1>2 DEF StopAt
<1>3. CASE stops # {}
  <2>1. PICK i \in stops : \A k \in stops : i <= k
    <3> HIDE DEF stops
    <3> QED
      BY <1>1, <1>3, SmallestNat
  <2>2. (CHOOSE j \in stops : \A k \in stops : j <= k) \in stops
    <3> HIDE DEF stops
    <3> QED
      BY <2>1
  <2> QED
    BY <1>1, <1>3, <2>2 DEF StopAt
<1> QED
  BY <1>2, <1>3

(* Where it does not stop, the stop is still ahead.                          *)
LEMMA CursorBeforeStop ==
  ASSUME NEW s \in Seq(Words), NEW takers, NEW stoppers, NEW n,
         Cursor(s, takers, stoppers, n), n <= Len(s), s[n] \notin stoppers
  PROVE  n < StopAt(s, takers, stoppers)
<1> DEFINE stops == {i \in DOMAIN s : s[i] \in stoppers /\ ~ValueAt(s, takers, i)}
<1>1. Len(s) \in Nat /\ DOMAIN s = 1 .. Len(s) /\ n \in 1 .. Len(s)
  BY LenProperties DEF Cursor
<1>2. \A i \in stops : n < i
  <2> SUFFICES ASSUME NEW i \in stops, i <= n PROVE FALSE
    BY <1>1
  <2>1. i \in 1 .. n - 1 \/ i = n
    BY <1>1
  <2> QED
    BY <2>1 DEF Cursor
<1>3. CASE stops = {}
  BY <1>1, <1>3 DEF StopAt
<1>4. CASE stops # {}
  <2> DEFINE first == CHOOSE i \in stops : \A k \in stops : i <= k
  <2>1. StopAt(s, takers, stoppers) = first
    BY <1>4 DEF StopAt
  <2>2. \E i \in stops : \A k \in stops : i <= k
    <3>1. stops \in SUBSET Nat
      BY <1>1
    <3> HIDE DEF stops
    <3> QED
      BY <1>4, <3>1, SmallestNat
  <2>3. first \in stops
    <3> HIDE DEF stops
    <3> QED
      BY <2>2
  <2> QED
    BY <1>2, <2>1, <2>3
<1> QED
  BY <1>3, <1>4

LEMMA PlacesCounted ==
  ASSUME NEW m \in Nat, NEW S \in SUBSET (1 .. m), NEW i \in Nat, m <= i
  PROVE  /\ IsFiniteSet(S) /\ Cardinality(S) \in Nat
         /\ Cardinality(S \cup (m + 1 .. i)) = Cardinality(S) + (i - m)
<1>1. IsFiniteSet(1 .. m)
  BY FS_Interval
<1>2. IsFiniteSet(S)
  BY <1>1, FS_Subset
<1>3. Cardinality(S) \in Nat
  BY <1>2, FS_CardinalityType
<1>4. IsFiniteSet(m + 1 .. i) /\ Cardinality(m + 1 .. i) = i - m
  <2>1. /\ IsFiniteSet(m + 1 .. i)
        /\ Cardinality(m + 1 .. i) = IF m + 1 > i THEN 0 ELSE i - (m + 1) + 1
    BY FS_Interval
  <2> QED
    BY <2>1
<1>5. S \cap (m + 1 .. i) = {}
  OBVIOUS
<1>6. Cardinality(S \cup (m + 1 .. i)) =
        Cardinality(S) + Cardinality(m + 1 .. i) - Cardinality(S \cap (m + 1 .. i))
  BY <1>2, <1>4, FS_Union
<1>7. Cardinality(S \cap (m + 1 .. i)) = 0
  BY <1>5, FS_EmptySet
<1> QED
  BY <1>2, <1>3, <1>4, <1>6, <1>7

(* The words at more places, behind the others, follow the words there were. *)
LEMMA PickedMore ==
  ASSUME NEW s \in Seq(Words), NEW m \in Nat, NEW l \in Nat, m <= l, l <= Len(s),
         NEW S \in SUBSET (1 .. m), Picked(s, S) \in Seq(Words)
  PROVE  Picked(s, S \cup (m + 1 .. l)) = Picked(s, S) \o SubSeq(s, m + 1, l)
<1> DEFINE R == m + 1 .. l
           c == Cardinality(S)
           Upto(T, i) == {h \in T : h <= i}
           At(T, k) == {i \in T : Cardinality(Upto(T, i)) = k}
<1>1. Len(s) \in Nat /\ IsFiniteSet(S) /\ c \in Nat
  BY LenProperties, PlacesCounted
<1>2. Cardinality(S \cup R) = c + (l - m)
  BY PlacesCounted
<1>3. \A i \in S : Upto(S \cup R, i) = Upto(S, i)
  OBVIOUS
<1>4. \A i \in S : Cardinality(Upto(S, i)) \in Nat /\ Cardinality(Upto(S, i)) <= c
  BY <1>1, FS_Subset, FS_CardinalityType
<1>5. ASSUME NEW i \in R PROVE Cardinality(Upto(S \cup R, i)) = c + (i - m)
  <2>1. i \in Nat /\ m <= i /\ i <= l
    OBVIOUS
  <2>2. ASSUME NEW h PROVE h \in Upto(S \cup R, i) <=> h \in S \cup (m + 1 .. i)
    <3>1. h \in S => h \in 1 .. m /\ h <= i
      BY <2>1
    <3>2. h \in m + 1 .. i <=> h \in R /\ h <= i
      BY <2>1
    <3> HIDE DEF R
    <3> QED
      BY <3>1, <3>2
  <2>3. Upto(S \cup R, i) = S \cup (m + 1 .. i)
    <3> HIDE DEF Upto, R
    <3> QED
      BY <2>2
  <2> QED
    BY <2>1, <2>3, PlacesCounted
<1>6. ASSUME NEW k \in 1 .. c PROVE At(S \cup R, k) = At(S, k)
  <2>1. \A i \in R : Cardinality(Upto(S \cup R, i)) # k
    <3> SUFFICES ASSUME NEW i \in R PROVE Cardinality(Upto(S \cup R, i)) # k
      OBVIOUS
    <3>1. Cardinality(Upto(S \cup R, i)) = c + (i - m) /\ i \in Int /\ i > m
      BY <1>5
    <3> HIDE DEF Upto, R, c
    <3> QED
      BY <1>1, <3>1
  <2>2. \A i \in S : Cardinality(Upto(S \cup R, i)) = Cardinality(Upto(S, i))
    BY <1>3
  <2> HIDE DEF Upto
  <2> QED
    BY <2>1, <2>2
<1>7. ASSUME NEW k \in c + 1 .. c + (l - m) PROVE At(S \cup R, k) = {m + (k - c)}
  <2>1. \A i \in S : Cardinality(Upto(S \cup R, i)) # k
    BY <1>1, <1>3, <1>4
  <2>2. \A i \in R : Cardinality(Upto(S \cup R, i)) = k <=> i = m + (k - c)
    <3> SUFFICES ASSUME NEW i \in R
                 PROVE  Cardinality(Upto(S \cup R, i)) = k <=> i = m + (k - c)
      OBVIOUS
    <3>1. Cardinality(Upto(S \cup R, i)) = c + (i - m) /\ i \in Int
      BY <1>5
    <3> HIDE DEF Upto
    <3> QED
      BY <1>1, <3>1
  <2>3. m + (k - c) \in R
    BY <1>1
  <2> HIDE DEF Upto, R
  <2> QED
    BY <2>1, <2>2, <2>3
<1>8. \A x : The({x}) = x
  BY DEF The
<1>9. Picked(s, S \cup R) = [k \in 1 .. c + (l - m) |-> s[The(At(S \cup R, k))]]
  BY <1>2 DEF Picked
<1>10. Picked(s, S) = [k \in 1 .. c |-> s[The(At(S, k))]]
  BY DEF Picked
<1>11. Len(Picked(s, S)) = c
  <2>1. DOMAIN Picked(s, S) = 1 .. c
    BY <1>10
  <2>2. DOMAIN Picked(s, S) = 1 .. Len(Picked(s, S)) /\ Len(Picked(s, S)) \in Nat
    BY LenProperties
  <2> QED
    BY <1>1, <2>1, <2>2
<1>12. /\ SubSeq(s, m + 1, l) \in Seq(Words) /\ Len(SubSeq(s, m + 1, l)) = l - m
       /\ \A i \in 1 .. l - m : SubSeq(s, m + 1, l)[i] = s[m + i]
  <2>1. \A i \in m + 1 .. l : s[i] \in Words
    BY <1>1, ElementOfSeq
  <2>2. m + 1 \in Int /\ l \in Int /\ l - (m + 1) + 1 = l - m
        /\ \A i \in 1 .. l - m : (m + 1) + i - 1 = m + i
    OBVIOUS
  <2> QED
    BY <2>1, <2>2, SubSeqProperties
<1> DEFINE both == Picked(s, S) \o SubSeq(s, m + 1, l)
<1>13. /\ both \in Seq(Words) /\ Len(both) = c + (l - m)
       /\ \A k \in 1 .. c + (l - m) : both[k] = IF k <= c THEN Picked(s, S)[k]
                                                ELSE s[m + (k - c)]
  <2>1. \A k \in 1 .. c + (l - m) : ~(k <= c) => k - c \in 1 .. l - m
    BY <1>1
  <2> DEFINE p == Picked(s, S)
             t == SubSeq(s, m + 1, l)
  <2>2. p \in Seq(Words) /\ Len(p) = c /\ t \in Seq(Words) /\ Len(t) = l - m
        /\ both = p \o t /\ \A i \in 1 .. l - m : t[i] = s[m + i]
    BY <1>11, <1>12
  <2> HIDE DEF p, t, both, c
  <2>3. /\ p \o t \in Seq(Words) /\ Len(p \o t) = Len(p) + Len(t)
        /\ \A k \in 1 .. Len(p) + Len(t) :
             (p \o t)[k] = IF k <= Len(p) THEN p[k] ELSE t[k - Len(p)]
    BY <2>2, ConcatProperties
  <2>4. \A k \in 1 .. c + (l - m) : both[k] = IF k <= c THEN p[k] ELSE s[m + (k - c)]
    BY <2>1, <2>2, <2>3
  <2> QED
    BY <2>2, <2>3, <2>4 DEF p
<1>14. both = [k \in 1 .. c + (l - m) |-> both[k]]
  <2> HIDE DEF both
  <2> QED
    BY <1>13, LenProperties
<1>15. ASSUME NEW k \in 1 .. c + (l - m) PROVE both[k] = s[The(At(S \cup R, k))]
  <2>1. CASE k <= c
    <3>1. k \in 1 .. c
      BY <2>1
    <3>2. Picked(s, S)[k] = s[The(At(S, k))]
      BY <1>10, <3>1
    <3> HIDE DEF At, both
    <3> QED
      BY <1>6, <1>13, <2>1, <3>1, <3>2
  <2>2. CASE ~(k <= c)
    <3>1. k \in c + 1 .. c + (l - m)
      BY <1>1, <2>2
    <3> HIDE DEF At, both
    <3> QED
      BY <1>7, <1>8, <1>13, <2>2, <3>1
  <2> QED
    BY <2>1, <2>2
<1>16. [k \in 1 .. c + (l - m) |-> both[k]]
         = [k \in 1 .. c + (l - m) |-> s[The(At(S \cup R, k))]]
  <2> HIDE DEF both, At, c
  <2> QED
    BY <1>15
<1> HIDE DEF At
<1> QED
  BY <1>9, <1>14, <1>16

Rest(s, n)   == SubSeq(s, n, Len(s))
Before(P, n) == {i \in P : i < n}

(* What the parser has in front of it.                                       *)
LEMMA RestAhead ==
  ASSUME NEW s \in Seq(Words), NEW n \in 1 .. Len(s) + 1
  PROVE  /\ Rest(s, n) = <<>> <=> n = Len(s) + 1
         /\ Len(Rest(s, n)) = Len(s) + 1 - n
         /\ n <= Len(s) => Head(Rest(s, n)) = s[n] /\ Tail(Rest(s, n)) = Rest(s, n + 1)
                           /\ Rest(s, n)[1] = s[n]
         /\ n < Len(s) => Rest(s, n)[2] = s[n + 1] /\ Tail(Tail(Rest(s, n))) = Rest(s, n + 2)
<1>1. Len(s) \in Nat /\ n \in Int /\ \A i \in n .. Len(s) : s[i] \in Words
  BY LenProperties, ElementOfSeq
<1>2. /\ Rest(s, n) \in Seq(Words)
      /\ Len(Rest(s, n)) = IF n <= Len(s) THEN Len(s) - n + 1 ELSE 0
      /\ \A i \in 1 .. Len(s) - n + 1 : Rest(s, n)[i] = s[n + i - 1]
  BY <1>1, SubSeqProperties DEF Rest
<1>3. Len(Rest(s, n)) = Len(s) + 1 - n
  BY <1>1, <1>2
<1>4. Rest(s, n) = <<>> <=> n = Len(s) + 1
  <2>1. Rest(s, n) = <<>> <=> Len(Rest(s, n)) = 0
    BY <1>2, EmptySeq
  <2> QED
    BY <1>1, <1>3, <2>1
<1>5. ASSUME n <= Len(s)
      PROVE  Head(Rest(s, n)) = s[n] /\ Tail(Rest(s, n)) = Rest(s, n + 1)
             /\ Rest(s, n)[1] = s[n]
  <2>1. n \in 1 .. Len(s) /\ Len(s) \in n .. Len(s) /\ 1 \in 1 .. Len(s) - n + 1
        /\ n + 1 - 1 = n
    BY <1>1, <1>5
  <2>2. Rest(s, n)[1] = s[n]
    BY <1>2, <2>1
  <2> QED
    BY <2>1, <2>2, HeadTailOfSubSeq DEF Rest
<1>6. ASSUME n < Len(s)
      PROVE  Rest(s, n)[2] = s[n + 1] /\ Tail(Tail(Rest(s, n))) = Rest(s, n + 2)
  <2>1. /\ n + 1 \in 1 .. Len(s) /\ Len(s) \in n + 1 .. Len(s) /\ 2 \in 1 .. Len(s) - n + 1
        /\ n + 2 - 1 = n + 1 /\ (n + 1) + 1 = n + 2 /\ n <= Len(s)
    BY <1>1, <1>6
  <2>2. Rest(s, n)[2] = s[n + 1]
    BY <1>2, <2>1
  <2>3. Tail(Rest(s, n + 1)) = Rest(s, n + 2)
    BY <2>1, HeadTailOfSubSeq DEF Rest
  <2> QED
    BY <1>5, <2>1, <2>2, <2>3
<1> QED
  BY <1>3, <1>4, <1>5, <1>6

LEMMA PlacesBefore ==
  ASSUME NEW l \in Nat, NEW P \in SUBSET (1 .. l), NEW n \in 1 .. l + 1
  PROVE  /\ Before(P, n) \in SUBSET (1 .. n - 1)
         /\ Before(P, 1) = {}
         /\ Before(P, n + 1) = IF n \in P THEN Before(P, n) \cup {n} ELSE Before(P, n)
<1>1. \A i \in P : i \in Int /\ 1 <= i
  OBVIOUS
<1>2. n \in Int
  OBVIOUS
<1>3. \A i \in P : i < n + 1 <=> i < n \/ i = n
  BY <1>1, <1>2
<1>4. Before(P, n) \in SUBSET (1 .. n - 1)
  <2> SUFFICES ASSUME NEW i \in P, i < n PROVE i \in 1 .. n - 1
    BY DEF Before
  <2> QED
    BY <1>1, <1>2
<1>5. Before(P, 1) = {}
  <2> SUFFICES ASSUME NEW i \in P PROVE ~(i < 1)
    BY DEF Before
  <2> QED
    BY <1>1
<1>6. Before(P, n + 1) = IF n \in P THEN Before(P, n) \cup {n} ELSE Before(P, n)
  <2>1. CASE n \in P
    <3>1. n < n + 1
      BY <1>2
    <3>2. ASSUME NEW i PROVE i \in Before(P, n + 1) <=> i \in Before(P, n) \cup {n}
      BY <1>3, <2>1, <3>1 DEF Before
    <3> QED
      BY <2>1, <3>2
  <2>2. CASE n \notin P
    <3>1. ASSUME NEW i PROVE i \in Before(P, n + 1) <=> i \in Before(P, n)
      BY <1>3, <2>2 DEF Before
    <3> QED
      BY <2>2, <3>1
  <2> QED
    BY <2>1, <2>2
<1> QED
  BY <1>4, <1>5, <1>6

(* One word further, there is one word more or none.                         *)
LEMMA PickedNext ==
  ASSUME NEW s \in Seq(Words), NEW P \in SUBSET (1 .. Len(s)), NEW n \in 1 .. Len(s),
         Picked(s, Before(P, n)) \in Seq(Words)
  PROVE  Picked(s, Before(P, n + 1)) =
           IF n \in P THEN Append(Picked(s, Before(P, n)), s[n]) ELSE Picked(s, Before(P, n))
<1>1. Len(s) \in Nat /\ n \in Nat /\ n \in 1 .. Len(s) + 1 /\ s[n] \in Words
  BY LenProperties, ElementOfSeq
<1>2. /\ Before(P, n) \in SUBSET (1 .. n - 1)
      /\ Before(P, n + 1) = IF n \in P THEN Before(P, n) \cup {n} ELSE Before(P, n)
  BY <1>1, PlacesBefore
<1>3. CASE n \notin P
  <2>1. Before(P, n + 1) = Before(P, n)
    BY <1>1, <1>3, <1>2
  <2> QED
    BY <1>3, <2>1
<1>4. CASE n \in P
  <2>1. /\ n - 1 \in Nat /\ n - 1 <= n /\ n <= Len(s) /\ (n - 1) + 1 = n
        /\ Before(P, n) \in SUBSET (1 .. n - 1)
    BY <1>1, <1>2
  <2>2. Picked(s, Before(P, n) \cup ((n - 1) + 1 .. n))
          = Picked(s, Before(P, n)) \o SubSeq(s, (n - 1) + 1, n)
    BY <1>1, <2>1, PickedMore
  <2>3. Before(P, n + 1) = Before(P, n) \cup (n .. n)
    <3>1. {n} = n .. n
      BY <1>1
    <3> QED
      BY <1>4, <1>2, <3>1
  <2>4. SubSeq(s, n, n) = <<s[n]>>
    <3>1. n \in n .. Len(s) /\ n \in n .. n /\ n + 1 \in Int /\ n < n + 1 /\ n \in Int
      BY <1>1
    <3>2. SubSeq(s, n, n) = <<s[n]>> \o SubSeq(s, n + 1, n)
      BY <3>1, SubSeqRecursiveFirst
    <3>3. SubSeq(s, n + 1, n) = <<>>
      BY <3>1, SubSeqEmpty
    <3>4. <<s[n]>> \in Seq(Words)
      BY <1>1
    <3> QED
      BY <3>2, <3>3, <3>4, ConcatEmptySeq
  <2>5. Append(Picked(s, Before(P, n)), s[n]) = Picked(s, Before(P, n)) \o <<s[n]>>
    BY <1>1, AppendIsConcat
  <2> QED
    BY <1>4, <2>1, <2>2, <2>3, <2>4, <2>5
<1> QED
  BY <1>3, <1>4

LEMMA PickedNone ==
  ASSUME NEW s \in Seq(Words), NEW P \in SUBSET (1 .. Len(s))
  PROVE  Picked(s, Before(P, 1)) = <<>> /\ Picked(s, {}) = <<>>
<1>1. Before(P, 1) = {}
  <2>1. Len(s) \in Nat /\ 1 \in 1 .. Len(s) + 1
    BY LenProperties
  <2> QED
    BY <2>1, PlacesBefore
<1>2. Cardinality({}) = 0
  BY FS_EmptySet
<1>3. Picked(s, {}) = <<>>
  <2>1. 1 .. Cardinality({}) = {}
    BY <1>2
  <2> QED
    BY <2>1 DEF Picked
<1> QED
  BY <1>1, <1>3

-----------------------------------------------------------------------------
PackrStops  == {"--"} \cup (Words \ Dashed)
PackrPlaces == {i \in DOMAIN typed : ValueAt(typed, {"-J"}, i)}
JPlaces     == {i \in DOMAIN Passed : ValueAt(Passed, Takers, i) /\ Passed[i - 1] = "-J"}
CpPlaces    == {i \in DOMAIN Passed : ValueAt(Passed, Takers, i) /\ Passed[i - 1] = "--classpath"}
ArgPlaces   == {i \in DOMAIN Passed : ~ValueAt(Passed, Takers, i) /\ Passed[i] \notin Known}
FlagAt(word, i) == Passed[i] = word /\ ~ValueAt(Passed, Takers, i)
Flagged(word, n) == \E i \in 1 .. n - 1 : FlagAt(word, i)

(* What the JVM of the launcher was started with.                            *)
LaunchersOwn ==
  IF ~place.packr THEN <<>> ELSE IF PackrJ # <<>> THEN PackrJ ELSE ConfigVmArgs

LEMMA SameLine ==
  ASSUME typed' = typed, place' = place
  PROVE  /\ ForPackr' = ForPackr /\ PackrStop' = PackrStop /\ PackrPlaces' = PackrPlaces
         /\ PackrJ' = PackrJ /\ LeftByPackr' = LeftByPackr /\ LaunchersOwn' = LaunchersOwn
         /\ Passed' = Passed /\ LauncherStop' = LauncherStop /\ JPlaces' = JPlaces
         /\ CpPlaces' = CpPlaces /\ ArgPlaces' = ArgPlaces
         /\ LauncherJ' = LauncherJ /\ Classpaths' = Classpaths /\ Arguments' = Arguments
         /\ \A word : Asks(word)' = Asks(word)
         /\ \A word, n : Flagged(word, n)' = Flagged(word, n)
         /\ PackrAccepts' = PackrAccepts /\ LauncherAccepts' = LauncherAccepts
         /\ LaunchWorks' = LaunchWorks
<1>1. ForPackr' = ForPackr /\ PackrStop' = PackrStop /\ PackrPlaces' = PackrPlaces
  BY DEF ForPackr, PackrStop, PackrPlaces
<1>2. PackrJ' = PackrJ /\ LeftByPackr' = LeftByPackr
  BY <1>1 DEF PackrJ, LeftByPackr
<1>3. LaunchersOwn' = LaunchersOwn /\ Passed' = Passed
  BY <1>2 DEF LaunchersOwn, Passed
<1>4. /\ LauncherStop' = LauncherStop /\ JPlaces' = JPlaces /\ CpPlaces' = CpPlaces
      /\ ArgPlaces' = ArgPlaces /\ \A word, n : Flagged(word, n)' = Flagged(word, n)
  BY <1>3 DEF LauncherStop, JPlaces, CpPlaces, ArgPlaces, Known, Flagged, FlagAt
<1>5. /\ LauncherJ' = LauncherJ /\ Classpaths' = Classpaths /\ Arguments' = Arguments
      /\ \A word : Asks(word)' = Asks(word)
  BY <1>3, <1>4 DEF LauncherJ, Classpaths, ValuesOf, Arguments, Known, Asks, InFront
<1>6. PackrAccepts' = PackrAccepts
  BY <1>1 DEF PackrAccepts
<1>7. LauncherAccepts' = LauncherAccepts
  BY <1>3, <1>4, <1>5 DEF LauncherAccepts, InFront
<1>8. LaunchWorks' = LaunchWorks
  BY <1>5 DEF LaunchWorks, PathReadable
<1> QED
  BY <1>1, <1>2, <1>3, <1>4, <1>5, <1>6, <1>7, <1>8

(* How far packr has got.                                                    *)
PackrAt(n) ==
  /\ argv = Rest(typed, n) /\ Cursor(typed, {"-J"}, PackrStops, n)
  /\ vmArgs = Picked(typed, Before(PackrPlaces, n))
  /\ \A i \in 1 .. n - 1 : i \in PackrPlaces \/ typed[i] \in {"-c", "-J"}

PackrInv ==
  ~forked =>
    /\ stage = "packr" => place.packr /\ argv = typed /\ vmArgs = <<>>
    /\ stage = "options" => ForPackr /\ \E n \in 1 .. Len(typed) + 1 : PackrAt(n)
    /\ stage = "config" => place.packr /\ vmArgs = PackrJ /\ argv = LeftByPackr
    /\ stage \in {"main", "parse", "launch"} => vmArgs = LaunchersOwn
    /\ stage = "main" => argv = LeftByPackr
    /\ stage \in {"config", "main", "parse", "launch", "client"} => PackrAccepts

LEMMA PackrStart == Init => PackrInv
<1> SUFFICES ASSUME Init PROVE PackrInv
  OBVIOUS
<1>1. CASE place.packr
  BY <1>1 DEF Init, PackrInv
<1>2. CASE ~place.packr
  <2>1. ~ForPackr
    BY <1>2 DEF ForPackr
  <2> QED
    BY <1>2, <2>1 DEF Init, PackrInv, LeftByPackr, LaunchersOwn, PackrAccepts
<1> QED
  BY <1>1, <1>2

LEMMA PackrPlacesType ==
  ASSUME TypeOK
  PROVE  /\ typed \in Seq(Words) /\ Len(typed) \in Nat /\ DOMAIN typed = 1 .. Len(typed)
         /\ PackrPlaces \in SUBSET (1 .. Len(typed)) /\ vmArgs \in Seq(Words)
<1>1. typed \in Seq(Words) /\ vmArgs \in Seq(Words)
  BY DEF TypeOK
<1> QED
  BY <1>1, LenProperties DEF PackrPlaces

(* From the first word on: -c is there, and nothing is read yet.             *)
LEMMA PackrFirst ==
  ASSUME TypeOK, PackrInv, ~forked, Packr
  PROVE  PackrInv'
<1>1. /\ place.packr /\ argv = typed /\ vmArgs = <<>>
      /\ typed' = typed /\ place' = place /\ argv' = argv /\ vmArgs' = vmArgs
      /\ stage' = IF argv # <<>> /\ Head(argv) = "-c" THEN "options" ELSE "config"
  BY DEF PackrInv, Packr
<1>2. argv # <<>> => Head(argv) = typed[1]
  BY <1>1
<1>3. CASE argv # <<>> /\ Head(argv) = "-c"
  <2>1. ForPackr
    BY <1>1, <1>2, <1>3 DEF ForPackr
  <2>2. typed = Rest(typed, 1)
    BY PackrPlacesType, SubSeqFull DEF Rest
  <2>3. Picked(typed, Before(PackrPlaces, 1)) = <<>>
    BY PackrPlacesType, PickedNone
  <2>4. PackrAt(1)
    BY <1>1, <2>2, <2>3, CursorStarts, PackrPlacesType DEF PackrAt
  <2>5. \A n : PackrAt(n)' <=> PackrAt(n)
    BY <1>1, SameLine DEF PackrAt
  <2>6. 1 \in 1 .. Len(typed) + 1
    BY PackrPlacesType
  <2> QED
    BY <1>1, <1>3, <2>1, <2>4, <2>5, <2>6, SameLine DEF PackrInv
<1>4. CASE ~(argv # <<>> /\ Head(argv) = "-c")
  <2>1. ~ForPackr
    BY <1>1, <1>2, <1>4 DEF ForPackr
  <2> QED
    BY <1>1, <1>4, <2>1, SameLine DEF PackrInv, PackrJ, LeftByPackr, PackrAccepts
<1> QED
  BY <1>3, <1>4

LEMMA PackrReads ==
  ASSUME TypeOK, PackrInv, ~forked, DroptFlag \/ DroptJ
  PROVE  PackrInv'
<1>0. /\ typed \in Seq(Words) /\ Len(typed) \in Nat
      /\ PackrPlaces \in SUBSET (1 .. Len(typed)) /\ vmArgs \in Seq(Words)
  BY PackrPlacesType
<1>1. /\ stage = "options" /\ argv # <<>> /\ stage' = "options" /\ ForPackr
      /\ typed' = typed /\ place' = place
  BY DEF DroptFlag, DroptJ, AtOption, PackrInv
<1>2. PICK n \in 1 .. Len(typed) + 1 : PackrAt(n)
  BY <1>1 DEF PackrInv
<1>3. /\ n \in 1 .. Len(typed) /\ n \in Nat \ {0} /\ n + 1 \in 1 .. Len(typed) + 1
      /\ n <= Len(typed) /\ Len(argv) = Len(typed) + 1 - n
      /\ Head(argv) = typed[n] /\ Tail(argv) = Rest(typed, n + 1)
      /\ n < Len(typed) => argv[2] = typed[n + 1] /\ Tail(Tail(argv)) = Rest(typed, n + 2)
  <2>1. argv = Rest(typed, n)
    BY <1>2 DEF PackrAt
  <2>2. n # Len(typed) + 1
    BY <1>0, <1>1, <2>1, RestAhead
  <2>3. n \in 1 .. Len(typed) /\ n \in Nat \ {0} /\ n + 1 \in 1 .. Len(typed) + 1
        /\ n <= Len(typed)
    BY <1>0, <2>2
  <2> QED
    BY <1>0, <2>1, <2>3, RestAhead
<1>5. n \notin PackrPlaces
  BY <1>0, <1>2, <1>3, CursorOnNoValue DEF PackrAt, Cursor, PackrPlaces
<1>6. Picked(typed, Before(PackrPlaces, n + 1)) = vmArgs
  BY <1>0, <1>2, <1>3, <1>5, PickedNext DEF PackrAt
<1>7. CASE DroptFlag
  <2>1. typed[n] = "-c" /\ argv' = Rest(typed, n + 1) /\ vmArgs' = vmArgs
    BY <1>3, <1>7 DEF DroptFlag, AtOption
  <2>2. Cursor(typed, {"-J"}, PackrStops, n + 1)
    <3>1. typed[n] \notin {"-J"} \cup PackrStops
      BY <2>1 DEF PackrStops, Dashed
    <3> QED
      BY <1>0, <1>2, <1>3, <3>1, CursorPlain DEF PackrAt
  <2>3. \A i \in 1 .. (n + 1) - 1 : i \in PackrPlaces \/ typed[i] \in {"-c", "-J"}
    <3>1. \A i \in 1 .. (n + 1) - 1 : i \in 1 .. n - 1 \/ i = n
      BY <1>3
    <3> QED
      BY <1>2, <2>1, <3>1 DEF PackrAt
  <2>4. PackrAt(n + 1)'
    BY <1>1, <1>6, <2>1, <2>2, <2>3, SameLine DEF PackrAt
  <2> QED
    BY <1>0, <1>1, <1>3, <2>4, SameLine DEF PackrInv
<1>8. CASE DroptJ
  <2>1. n < Len(typed)
    BY <1>0, <1>3, <1>8 DEF DroptJ
  <2>2. /\ typed[n] = "-J" /\ argv' = Rest(typed, n + 2)
        /\ vmArgs' = Append(vmArgs, typed[n + 1])
    BY <1>3, <1>8, <2>1 DEF DroptJ, AtOption
  <2>3. ValueAt(typed, {"-J"}, n + 1) /\ Cursor(typed, {"-J"}, PackrStops, n + 2)
    <3>1. typed[n] \in {"-J"} \ PackrStops
      BY <2>2 DEF PackrStops, Dashed
    <3> QED
      BY <1>0, <1>2, <1>3, <2>1, <3>1, CursorTaker DEF PackrAt
  <2>4. n + 1 \in PackrPlaces /\ n + 1 \in 1 .. Len(typed) /\ (n + 1) + 1 = n + 2
        /\ n + 2 \in 1 .. Len(typed) + 1
    <3>1. n + 1 \in 1 .. Len(typed) /\ (n + 1) + 1 = n + 2 /\ n + 2 \in 1 .. Len(typed) + 1
      BY <1>0, <1>3, <2>1
    <3>2. DOMAIN typed = 1 .. Len(typed)
      BY <1>0, LenProperties
    <3> QED
      BY <2>3, <3>1, <3>2 DEF PackrPlaces
  <2>5. Picked(typed, Before(PackrPlaces, n + 2)) = vmArgs'
    <3>1. Picked(typed, Before(PackrPlaces, (n + 1) + 1)) = Append(vmArgs, typed[n + 1])
      BY <1>0, <1>6, <2>4, PickedNext
    <3> QED
      BY <2>2, <2>4, <3>1
  <2>6. \A i \in 1 .. (n + 2) - 1 : i \in PackrPlaces \/ typed[i] \in {"-c", "-J"}
    <3>1. \A i \in 1 .. (n + 2) - 1 : i \in 1 .. n - 1 \/ i = n \/ i = n + 1
      BY <1>3
    <3> QED
      BY <1>2, <2>2, <2>4, <3>1 DEF PackrAt
  <2>7. PackrAt(n + 2)'
    BY <1>1, <2>2, <2>3, <2>5, <2>6, SameLine DEF PackrAt
  <2> QED
    BY <1>1, <2>4, <2>7, SameLine DEF PackrInv
<1> QED
  BY <1>7, <1>8

LEMMA PackrStopsReading ==
  ASSUME TypeOK, PackrInv, ~forked, DroptEnds
  PROVE  PackrInv'
<1>0. /\ typed \in Seq(Words) /\ Len(typed) \in Nat
      /\ PackrPlaces \in SUBSET (1 .. Len(typed)) /\ vmArgs \in Seq(Words)
  BY PackrPlacesType
<1>1. /\ stage = "options" /\ stage' = "config" /\ ForPackr
      /\ typed' = typed /\ place' = place /\ vmArgs' = vmArgs
  BY DEF DroptEnds, PackrInv
<1>2. PICK n \in 1 .. Len(typed) + 1 : PackrAt(n)
  BY <1>1 DEF PackrInv
<1>3. argv = Rest(typed, n) /\ (argv = <<>> <=> n = Len(typed) + 1)
      /\ (n <= Len(typed) => Head(argv) = typed[n] /\ argv[1] = typed[n])
  BY <1>0, <1>2, RestAhead DEF PackrAt
<1>4. n = Len(typed) + 1 \/ typed[n] \in PackrStops
  <2>1. CASE argv = <<>>
    BY <1>3, <2>1
  <2>2. CASE argv # <<>>
    <3>1. Head(argv) = typed[n] /\ typed[n] \in Words
      BY <1>0, <1>3, <2>2, ElementOfSeq
    <3>2. Head(argv) = "--" \/ Head(argv) \notin Dashed
      BY <1>1, <2>2 DEF DroptEnds, AtOption
    <3> QED
      BY <3>1, <3>2 DEF PackrStops
  <2> QED
    BY <2>1, <2>2
<1>5. PackrStop = n
  BY <1>0, <1>2, <1>4, CursorStops DEF PackrAt, PackrStop, PackrStops
<1>6. vmArgs = PackrJ
  <2>1. {i \in DOMAIN typed : i < PackrStop /\ ValueAt(typed, {"-J"}, i)}
          = Before(PackrPlaces, n)
    BY <1>5 DEF Before, PackrPlaces
  <2> QED
    BY <1>1, <1>2, <2>1 DEF PackrAt, PackrJ
<1>7. argv' = LeftByPackr
  <2>1. SubSeq(typed, PackrStop, Len(typed)) = argv
    BY <1>3, <1>5 DEF Rest
  <2>2. argv # <<>> => Head(argv) = argv[1]
    BY <1>3
  <2>3. CASE argv # <<>> /\ argv[1] = "--"
    <3>1. argv' = Tail(argv)
      BY <1>1, <2>2, <2>3 DEF DroptEnds, AtOption, Dashed
    <3> QED
      BY <1>1, <2>1, <2>3, <3>1 DEF LeftByPackr
  <2>4. CASE ~(argv # <<>> /\ argv[1] = "--")
    <3>1. argv' = argv
      BY <1>1, <2>2, <2>4 DEF DroptEnds, AtOption
    <3> QED
      BY <1>1, <2>1, <2>4, <3>1 DEF LeftByPackr
  <2> QED
    BY <2>3, <2>4
<1>8. place.packr
  BY <1>1 DEF ForPackr
<1>9. PackrAccepts
  <2> SUFFICES ASSUME NEW i \in 1 .. n - 1, ~ValueAt(typed, {"-J"}, i), typed[i] # "-c"
               PROVE  typed[i] = "-J" /\ i < Len(typed)
    BY <1>1, <1>5 DEF PackrAccepts
  <2>1. typed[i] = "-J"
    BY <1>2 DEF PackrAt, PackrPlaces
  <2>2. i # n - 1
    <3> SUFFICES ASSUME i = n - 1 PROVE FALSE
      OBVIOUS
    <3>1. n \in Nat \ {0, 1} /\ EvenRun(typed, {"-J"}, n)
      BY <1>0, <1>2 DEF PackrAt, Cursor
    <3> QED
      BY <2>1, <3>1, CursorBehindTaker
  <2> QED
    BY <1>0, <2>1, <2>2
<1> QED
  BY <1>1, <1>6, <1>7, <1>8, <1>9, SameLine DEF PackrInv

LEMMA LineKept == [Next]_vars => UNCHANGED <<typed, place>> /\ (forked => forked')
<1> SUFFICES ASSUME [Next]_vars PROVE UNCHANGED <<typed, place>> /\ (forked => forked')
  OBVIOUS
<1>1. CASE \/ Packr \/ DroptFlag \/ DroptJ \/ DroptHelp \/ DroptRejects \/ DroptEnds
           \/ LoadConfiguration \/ ConfigurationFails
  BY <1>1 DEF Packr, DroptFlag, DroptJ, DroptHelp, DroptRejects, DroptEnds,
     LoadConfiguration, ConfigurationFails, Fails
<1>2. CASE ParseApplicationURI
  BY <1>2 DEF ParseApplicationURI
<1>3. CASE ParseFlag \/ ParseWithValue
  <2>1. CASE ParseFlag
    BY <2>1 DEF ParseFlag
  <2>2. CASE ParseWithValue
    BY <2>2 DEF ParseWithValue
  <2> QED
    BY <1>3, <2>1, <2>2
<1>4. CASE ParseValueMissing \/ ParsedAll
  BY <1>4 DEF ParseValueMissing, ParsedAll
<1>5. CASE ParseSeparator
  BY <1>5 DEF ParseSeparator
<1>6. CASE ParseArgument
  BY <1>6 DEF ParseArgument
<1>7. CASE LaunchReflect \/ LaunchThrows
  BY <1>7 DEF LaunchReflect, LaunchThrows, Fails
<1>8. CASE LaunchJvm
  BY <1>8 DEF LaunchJvm, Fails
<1>9. CASE LaunchFork
  BY <1>9 DEF LaunchFork, Fails
<1>10. CASE UNCHANGED vars
  BY <1>10 DEF vars
<1> QED
  BY <1>1, <1>2, <1>3, <1>4, <1>5, <1>6, <1>7, <1>8, <1>9, <1>10 DEF Next

LEMMA PackrStep == TypeOK /\ PackrInv /\ [Next]_vars => PackrInv'
<1> SUFFICES ASSUME TypeOK, PackrInv, [Next]_vars PROVE PackrInv'
  OBVIOUS
<1>0. UNCHANGED <<typed, place>> /\ (forked => forked')
  BY LineKept
<1>1. CASE forked
  BY <1>0, <1>1 DEF PackrInv
<1> SUFFICES ASSUME ~forked PROVE PackrInv'
  BY <1>1
<1>2. CASE Packr
  BY <1>2, PackrFirst
<1>3. CASE DroptFlag \/ DroptJ
  BY <1>3, PackrReads
<1>4. CASE DroptEnds
  BY <1>4, PackrStopsReading
<1>5. CASE LoadConfiguration
  <2>1. place.packr /\ vmArgs = PackrJ /\ argv = LeftByPackr /\ PackrAccepts
    BY <1>5 DEF LoadConfiguration, PackrInv
  <2>2. vmArgs' = LaunchersOwn
    BY <1>5, <2>1 DEF LoadConfiguration, LaunchersOwn
  <2> QED
    BY <1>0, <1>5, <2>1, <2>2, SameLine DEF LoadConfiguration, PackrInv
<1>6. CASE ParseApplicationURI
  BY <1>0, <1>6, SameLine DEF ParseApplicationURI, PackrInv
<1>7. CASE ParseFlag \/ ParseWithValue \/ ParseSeparator \/ ParseArgument
  BY <1>0, <1>7, SameLine DEF ParseFlag, ParseWithValue, ParseSeparator, ParseArgument,
     AtWord, PackrInv
<1>8. CASE ParsedAll
  BY <1>0, <1>8, SameLine DEF ParsedAll, PackrInv
<1>9. CASE \/ DroptHelp \/ DroptRejects \/ ConfigurationFails \/ ParseValueMissing
  <2>1. stage' \in Ends \ {"client"}
    BY <1>9 DEF DroptHelp, DroptRejects, ConfigurationFails, Fails, ParseValueMissing, Ends
  <2> QED
    BY <2>1 DEF PackrInv, Ends
<1>10. CASE LaunchThrows \/ LaunchReflect \/ LaunchJvm \/ LaunchFork
  <2>1. stage = "launch" /\ (stage' \in {"client", "noclient", "failed"} \/ forked')
    BY <1>10 DEF LaunchThrows, LaunchReflect, LaunchJvm, LaunchFork, Fails
  <2>2. PackrAccepts'
    BY <1>0, <2>1, SameLine DEF PackrInv
  <2> QED
    BY <2>1, <2>2 DEF PackrInv
<1>11. CASE UNCHANGED vars
  <2>1. \A n : PackrAt(n)' <=> PackrAt(n)
    BY <1>0, <1>11, SameLine DEF vars, PackrAt
  <2> QED
    BY <1>0, <1>11, <2>1, SameLine DEF vars, PackrInv
<1> QED
  BY <1>2, <1>3, <1>4, <1>5, <1>6, <1>7, <1>8, <1>9, <1>10, <1>11 DEF Next

-----------------------------------------------------------------------------
(* How far Launcher.parseArgs has got, and with what.                        *)
ParseAt(n) ==
  /\ argv = Rest(Passed, n) /\ Cursor(Passed, Takers, {"--"}, n)
  /\ given.j = Picked(Passed, Before(JPlaces, n))
  /\ given.args = Picked(Passed, Before(ArgPlaces, n))
  /\ given.classpath = Picked(Passed, Before(CpPlaces, n))
  /\ given.debug <=> Flagged("--debug", n)
  /\ given.help <=> Flagged("--help", n)

FlagsRight ==
  /\ given.debug <=> Asks("--debug")
  /\ given.help <=> Asks("--help")

(* Of the conditions of LauncherAccepts the one on values.                   *)
ValuesGiven ==
  \A i \in DOMAIN Passed :
    InFront(i) /\ Passed[i] \in Takers /\ ~ValueAt(Passed, Takers, i) => i < Len(Passed)

ParsedRight ==
  /\ given.j = LauncherJ /\ given.classpath = Classpaths /\ given.args = Arguments
  /\ FlagsRight /\ ValuesGiven

ParseInv ==
  ~forked =>
    /\ stage \in {"packr", "options", "config", "main"} => given = NothingGiven
    /\ stage = "parse" =>
         /\ Passed \in Seq(Words)
         /\ \/ \E n \in 1 .. Len(Passed) + 1 : ParseAt(n)
            \/ argv = <<>> /\ ParsedRight
    /\ stage = "launch" => ParsedRight
    /\ stage \in {"launch", "client"} => LauncherAccepts

LEMMA ParsePlaces ==
  ASSUME Passed \in Seq(Words)
  PROVE  /\ Len(Passed) \in Nat /\ DOMAIN Passed = 1 .. Len(Passed)
         /\ JPlaces \in SUBSET (1 .. Len(Passed)) /\ ArgPlaces \in SUBSET (1 .. Len(Passed))
         /\ CpPlaces \in SUBSET (1 .. Len(Passed))
BY LenProperties DEF JPlaces, CpPlaces, ArgPlaces

(* Where the parser stops, it has found what is in front.                    *)
LEMMA ParsedUpToStop ==
  ASSUME NEW n \in 1 .. Len(Passed) + 1, Passed \in Seq(Words), TypeOK, ParseAt(n),
         n = Len(Passed) + 1 \/ Passed[n] = "--"
  PROVE  /\ LauncherStop = n /\ given.j = LauncherJ /\ given.classpath = Classpaths
         /\ FlagsRight /\ ValuesGiven
         /\ given.args \o Rest(Passed, n + 1) = Arguments
<1>0. /\ Len(Passed) \in Nat /\ DOMAIN Passed = 1 .. Len(Passed) /\ n \in Nat \ {0}
      /\ JPlaces \in SUBSET (1 .. Len(Passed)) /\ ArgPlaces \in SUBSET (1 .. Len(Passed))
      /\ given.args \in Seq(Words)
  BY ParsePlaces DEF TypeOK
<1>5. n <= Len(Passed) \/ n = Len(Passed) + 1
  BY <1>0
<1>1. LauncherStop = n
  BY <1>0, CursorStops DEF ParseAt, LauncherStop
<1>2. given.j = LauncherJ
  <2>1. {i \in DOMAIN Passed :
           InFront(i) /\ ValueAt(Passed, Takers, i) /\ Passed[i - 1] = "-J"}
          = Before(JPlaces, n)
    BY <1>1 DEF InFront, Before, JPlaces
  <2> QED
    BY <2>1 DEF ParseAt, LauncherJ, ValuesOf
<1>7. given.classpath = Classpaths
  <2>1. {i \in DOMAIN Passed :
           InFront(i) /\ ValueAt(Passed, Takers, i) /\ Passed[i - 1] = "--classpath"}
          = Before(CpPlaces, n)
    BY <1>1 DEF InFront, Before, CpPlaces
  <2> QED
    BY <2>1 DEF ParseAt, Classpaths, ValuesOf
<1>3. FlagsRight
  <2>1. \A i : i \in 1 .. n - 1 <=> i \in DOMAIN Passed /\ i < n
    BY <1>0
  <2>2. \A word : Flagged(word, n) <=> Asks(word)
    BY <1>1, <2>1 DEF Flagged, Asks, InFront, FlagAt
  <2> QED
    BY <2>2 DEF ParseAt, FlagsRight
<1>6. ValuesGiven
  <2> SUFFICES ASSUME NEW i \in DOMAIN Passed, InFront(i), Passed[i] \in Takers,
                      ~ValueAt(Passed, Takers, i)
               PROVE  i < Len(Passed)
    BY DEF ValuesGiven
  <2> SUFFICES ASSUME i = Len(Passed) PROVE FALSE
    BY <1>0
  <2>1. n \in Nat \ {0, 1} /\ i = n - 1
    BY <1>0, <1>1 DEF InFront
  <2>2. EvenRun(Passed, Takers, n)
    BY DEF ParseAt, Cursor
  <2> QED
    BY <2>1, <2>2, CursorBehindTaker
<1>4. given.args \o Rest(Passed, n + 1) = Arguments
  <2> DEFINE front  == Before(ArgPlaces, n)
             behind == n + 1 .. Len(Passed)
             places == {i \in DOMAIN Passed :
                          \/ i > LauncherStop
                          \/ InFront(i) /\ ~ValueAt(Passed, Takers, i)
                               /\ Passed[i] \notin Known}
  <2>1. ASSUME NEW i \in 1 .. Len(Passed)
        PROVE  i \in places <=> i \in front \cup behind
    <3>1. i > n <=> i \in behind
      BY <1>0
    <3> QED
      BY <1>0, <1>1, <3>1 DEF InFront, Before, ArgPlaces
  <2>2. places = front \cup behind
    <3>1. places \subseteq 1 .. Len(Passed)
      BY <1>0
    <3>2. front \subseteq 1 .. Len(Passed)
      <4>1. front \subseteq ArgPlaces
        BY DEF Before
      <4> QED
        BY <1>0, <4>1
    <3>3. behind \subseteq 1 .. Len(Passed)
      BY <1>0
    <3> HIDE DEF places, front, behind
    <3> QED
      BY <2>1, <3>1, <3>2, <3>3
  <2>3. Arguments = Picked(Passed, front \cup behind)
    BY <2>2 DEF Arguments
  <2>4. given.args = Picked(Passed, front)
    BY DEF ParseAt
  <2>5. CASE n <= Len(Passed)
    <3>1. front \in SUBSET (1 .. n)
      <4>1. front \in SUBSET (1 .. n - 1)
        BY <1>0, PlacesBefore
      <4>2. 1 .. n - 1 \subseteq 1 .. n
        BY <1>0
      <4> QED
        BY <4>1, <4>2
    <3>2. Picked(Passed, front \cup (n + 1 .. Len(Passed)))
            = Picked(Passed, front) \o SubSeq(Passed, n + 1, Len(Passed))
      <4>1. Picked(Passed, front) \in Seq(Words) /\ n \in Nat /\ Len(Passed) <= Len(Passed)
        BY <1>0, <2>4
      <4> HIDE DEF front
      <4> QED
        BY <1>0, <2>5, <3>1, <4>1, PickedMore
    <3> QED
      BY <2>3, <2>4, <3>2 DEF Rest
  <2>6. CASE n = Len(Passed) + 1
    <3>1. behind = {} /\ Len(Passed) < n + 1 /\ n + 1 \in Int /\ Len(Passed) \in Int
      BY <1>0, <2>6
    <3>2. Rest(Passed, n + 1) = <<>>
      BY <3>1, SubSeqEmpty DEF Rest
    <3>3. given.args \o Rest(Passed, n + 1) = given.args
      BY <1>0, <3>2, ConcatEmptySeq
    <3> QED
      BY <2>3, <2>4, <3>1, <3>3
  <2> QED
    BY <1>5, <2>5, <2>6
<1> QED
  BY <1>1, <1>2, <1>3, <1>4, <1>6, <1>7

LEMMA SameFlags ==
  ASSUME typed' = typed, place' = place, given'.debug = given.debug,
         given'.help = given.help
  PROVE  FlagsRight' = FlagsRight /\ ValuesGiven' = ValuesGiven
<1>1. FlagsRight' = FlagsRight
  BY SameLine DEF FlagsRight
<1>2. ValuesGiven' = ValuesGiven
  BY SameLine DEF ValuesGiven, InFront
<1> QED
  BY <1>1, <1>2

(* The first word: an address stands alone.                                  *)
LEMMA ParseStarts ==
  ASSUME TypeOK, PackrInv, ParseInv, ~forked, ParseApplicationURI
  PROVE  ParseInv'
<1>1. /\ typed' = typed /\ place' = place /\ given' = NothingGiven /\ stage' = "parse"
      /\ argv = LeftByPackr
      /\ argv' = IF argv # <<>> /\ Head(argv) = "uri" THEN <<"--jav_config", "url">> ELSE argv
  BY DEF ParseApplicationURI, PackrInv, ParseInv
<1>2. argv' = Passed
  <2>1. argv # <<>> => Head(argv) = argv[1]
    OBVIOUS
  <2> QED
    BY <1>1, <2>1 DEF Passed
<1>3. Passed \in Seq(Words)
  <2>1. argv' \in Seq(Words)
    BY <1>1, Defaults DEF TypeOK
  <2> QED
    BY <1>2, <2>1
<1>4. ParseAt(1)'
  <2>1. Passed = Rest(Passed, 1)
    BY <1>3, SubSeqFull DEF Rest
  <2>2. /\ Picked(Passed, Before(JPlaces, 1)) = <<>>
        /\ Picked(Passed, Before(ArgPlaces, 1)) = <<>>
        /\ Picked(Passed, Before(CpPlaces, 1)) = <<>>
    BY <1>3, ParsePlaces, PickedNone
  <2>3. Cursor(Passed, Takers, {"--"}, 1)
    BY <1>3, CursorStarts
  <2>4. /\ given'.j = <<>> /\ given'.args = <<>> /\ given'.debug = FALSE
        /\ given'.help = FALSE /\ given'.classpath = <<>>
    BY <1>1 DEF NothingGiven
  <2>5. \A word : ~Flagged(word, 1)
    BY DEF Flagged
  <2> QED
    <3>1. /\ given'.debug <=> Flagged("--debug", 1)
          /\ given'.help <=> Flagged("--help", 1)
      BY <2>4, <2>5
    <3>2. /\ argv' = Rest(Passed, 1) /\ given'.j = Picked(Passed, Before(JPlaces, 1))
          /\ given'.args = Picked(Passed, Before(ArgPlaces, 1))
          /\ given'.classpath = Picked(Passed, Before(CpPlaces, 1))
      BY <1>2, <2>1, <2>2, <2>4
    <3> QED
      BY <1>1, <2>3, <3>1, <3>2, SameLine DEF ParseAt
<1>5. 1 \in 1 .. Len(Passed) + 1
  BY <1>3, ParsePlaces
<1> QED
  BY <1>1, <1>3, <1>4, <1>5, SameLine DEF ParseInv

(* An option without a value, or an argument.                                *)
LEMMA ParseReadsOne ==
  ASSUME TypeOK, ParseInv, ~forked, ParseFlag \/ ParseArgument
  PROVE  ParseInv'
<1>0. /\ stage = "parse" /\ stage' = "parse" /\ argv # <<>> /\ argv' = Tail(argv)
      /\ typed' = typed /\ place' = place /\ Passed \in Seq(Words)
  <2>1. CASE ParseFlag
    BY <2>1 DEF ParseFlag, AtWord, ParseInv
  <2>2. CASE ParseArgument
    BY <2>2 DEF ParseArgument, AtWord, ParseInv
  <2> QED
    BY <2>1, <2>2
<1>1. /\ Len(Passed) \in Nat /\ DOMAIN Passed = 1 .. Len(Passed)
      /\ JPlaces \in SUBSET (1 .. Len(Passed)) /\ ArgPlaces \in SUBSET (1 .. Len(Passed))
      /\ CpPlaces \in SUBSET (1 .. Len(Passed))
      /\ given.args \in Seq(Words) /\ given.j \in Seq(Words) /\ given.classpath \in Seq(Words)
  BY <1>0, ParsePlaces DEF TypeOK
<1>2. PICK n \in 1 .. Len(Passed) + 1 : ParseAt(n)
  BY <1>0 DEF ParseInv
<1>3. /\ n \in 1 .. Len(Passed) /\ n \in Nat \ {0} /\ n <= Len(Passed)
      /\ n + 1 \in 1 .. Len(Passed) + 1
      /\ Head(argv) = Passed[n] /\ argv' = Rest(Passed, n + 1)
  <2>1. argv = Rest(Passed, n)
    BY <1>2 DEF ParseAt
  <2>2. n # Len(Passed) + 1
    BY <1>0, <2>1, RestAhead
  <2>3. n \in 1 .. Len(Passed) /\ n \in Nat \ {0} /\ n <= Len(Passed)
        /\ n + 1 \in 1 .. Len(Passed) + 1
    BY <1>1, <2>2
  <2> QED
    BY <1>0, <2>1, <2>3, RestAhead
<1>4. ~ValueAt(Passed, Takers, n)
  BY <1>2, <1>3, CursorOnNoValue DEF ParseAt, Cursor
<1>5. /\ Picked(Passed, Before(JPlaces, n + 1)) = given.j
      /\ Picked(Passed, Before(CpPlaces, n + 1)) = given.classpath
      /\ Picked(Passed, Before(ArgPlaces, n + 1)) =
           IF n \in ArgPlaces THEN Append(given.args, Passed[n]) ELSE given.args
  <2>1. n \notin JPlaces /\ n \notin CpPlaces
    BY <1>4 DEF JPlaces, CpPlaces
  <2>2. /\ given.j = Picked(Passed, Before(JPlaces, n))
        /\ given.classpath = Picked(Passed, Before(CpPlaces, n))
        /\ given.args = Picked(Passed, Before(ArgPlaces, n))
    BY <1>2 DEF ParseAt
  <2>6. ASSUME NEW P \in SUBSET (1 .. Len(Passed)), Picked(Passed, Before(P, n)) \in Seq(Words)
        PROVE  Picked(Passed, Before(P, n + 1)) =
                 IF n \in P THEN Append(Picked(Passed, Before(P, n)), Passed[n])
                 ELSE Picked(Passed, Before(P, n))
    BY <1>0, <1>3, <2>6, PickedNext
  <2>3. Picked(Passed, Before(JPlaces, n + 1)) = given.j
    BY <1>1, <2>1, <2>2, <2>6
  <2>4. Picked(Passed, Before(ArgPlaces, n + 1)) =
          IF n \in ArgPlaces THEN Append(given.args, Passed[n]) ELSE given.args
    BY <1>1, <2>2, <2>6
  <2>5. Picked(Passed, Before(CpPlaces, n + 1)) = given.classpath
    BY <1>1, <2>1, <2>2, <2>6
  <2> QED
    BY <2>3, <2>4, <2>5
<1>6. \A i : i \in 1 .. (n + 1) - 1 <=> i \in 1 .. n - 1 \/ i = n
  BY <1>3
<1>7. Passed[n] \notin Takers \cup {"--"} /\ given'.j = given.j
      /\ given'.args = (IF n \in ArgPlaces THEN Append(given.args, Passed[n]) ELSE given.args)
      /\ given'.debug = (given.debug \/ Passed[n] = "--debug")
      /\ given'.help = (given.help \/ Passed[n] = "--help")
      /\ given'.classpath = given.classpath
  <2>1. CASE ParseFlag
    <3>1. Passed[n] \in {"--debug", "--help", "-psn"} \cap Known
      BY <1>3, <2>1 DEF ParseFlag, Known
    <3>2. n \notin ArgPlaces
      BY <3>1 DEF ArgPlaces
    <3>3. CASE Passed[n] = "--debug"
      <4>1. given' = [given EXCEPT !.debug = TRUE]
        BY <1>3, <2>1, <3>3 DEF ParseFlag
      <4> QED
        BY <3>2, <3>3, <4>1 DEF TypeOK, Takers
    <3>4. CASE Passed[n] = "--help"
      <4>1. given' = [given EXCEPT !.help = TRUE]
        BY <1>3, <2>1, <3>4 DEF ParseFlag
      <4>2. given'.debug = given.debug /\ given'.help = TRUE
        BY <4>1 DEF TypeOK
      <4> QED
        BY <3>2, <3>4, <4>1, <4>2 DEF TypeOK, Takers
    <3>5. CASE Passed[n] = "-psn"
      <4>1. given' = given
        BY <1>3, <2>1, <3>5 DEF ParseFlag
      <4> QED
        BY <3>2, <3>5, <4>1 DEF TypeOK, Takers
    <3> QED
      BY <3>1, <3>3, <3>4, <3>5
  <2>2. CASE ParseArgument
    <3>1. /\ Passed[n] \notin {"--debug", "--help", "-J", "--classpath", "--"}
          /\ Passed[n] = "-psn" => place.os # "MacOS"
          /\ given' = [given EXCEPT !.args = Append(@, Passed[n])]
      BY <1>3, <2>2 DEF ParseArgument
    <3>2. n \in ArgPlaces
      BY <1>1, <1>3, <1>4, <3>1 DEF ArgPlaces, Known, Takers
    <3> QED
      BY <3>1, <3>2 DEF TypeOK, Takers
  <2> QED
    BY <2>1, <2>2
<1>8. ParseAt(n + 1)'
  <2>1. Cursor(Passed, Takers, {"--"}, n + 1)
    BY <1>0, <1>2, <1>3, <1>7, CursorPlain DEF ParseAt
  <2>2. /\ given'.debug <=> Flagged("--debug", n + 1)
        /\ given'.help <=> Flagged("--help", n + 1)
    <3>1. \A word : Flagged(word, n + 1) <=> Flagged(word, n) \/ Passed[n] = word
      BY <1>4, <1>6 DEF Flagged, FlagAt
    <3>2. /\ given.debug <=> Flagged("--debug", n)
          /\ given.help <=> Flagged("--help", n)
      BY <1>2 DEF ParseAt
    <3> QED
      BY <1>7, <3>1, <3>2
  <2> QED
    BY <1>0, <1>3, <1>5, <1>7, <2>1, <2>2, SameLine DEF ParseAt
<1> QED
  BY <1>0, <1>3, <1>8, SameLine DEF ParseInv

(* An option and its value.                                                  *)
LEMMA ParseReadsTwo ==
  ASSUME TypeOK, ParseInv, ~forked, ParseWithValue
  PROVE  ParseInv'
<1>0. /\ stage = "parse" /\ stage' = "parse" /\ argv # <<>> /\ argv' = Tail(Tail(argv))
      /\ typed' = typed /\ place' = place /\ Passed \in Seq(Words) /\ Len(argv) > 1
  BY DEF ParseWithValue, AtWord, ParseInv
<1>1. /\ Len(Passed) \in Nat /\ DOMAIN Passed = 1 .. Len(Passed)
      /\ JPlaces \in SUBSET (1 .. Len(Passed)) /\ ArgPlaces \in SUBSET (1 .. Len(Passed))
      /\ CpPlaces \in SUBSET (1 .. Len(Passed))
      /\ given.args \in Seq(Words) /\ given.j \in Seq(Words) /\ given.classpath \in Seq(Words)
  BY <1>0, ParsePlaces DEF TypeOK
<1>2. PICK n \in 1 .. Len(Passed) + 1 : ParseAt(n)
  BY <1>0 DEF ParseInv
<1>3. /\ n \in 1 .. Len(Passed) /\ n \in Nat \ {0} /\ n < Len(Passed)
      /\ n + 1 \in 1 .. Len(Passed) /\ n + 2 \in 1 .. Len(Passed) + 1 /\ (n + 1) + 1 = n + 2
      /\ Head(argv) = Passed[n] /\ argv[2] = Passed[n + 1] /\ argv' = Rest(Passed, n + 2)
  <2>1. argv = Rest(Passed, n)
    BY <1>2 DEF ParseAt
  <2>2. Len(argv) = Len(Passed) + 1 - n
    BY <1>0, <2>1, RestAhead
  <2>3. /\ n \in 1 .. Len(Passed) /\ n \in Nat \ {0} /\ n < Len(Passed) /\ n <= Len(Passed)
        /\ n + 1 \in 1 .. Len(Passed) /\ n + 2 \in 1 .. Len(Passed) + 1
        /\ (n + 1) + 1 = n + 2
    BY <1>0, <1>1, <2>2
  <2> QED
    BY <1>0, <2>1, <2>3, RestAhead
<1>4. /\ Passed[n] \in Takers
      /\ given'.j = (IF Passed[n] = "-J" THEN Append(given.j, Passed[n + 1]) ELSE given.j)
      /\ given'.args = given.args /\ given'.debug = given.debug /\ given'.help = given.help
      /\ given'.classpath = (IF Passed[n] = "--classpath" THEN Append(given.classpath, Passed[n + 1])
                             ELSE given.classpath)
  <2>1. CASE Passed[n] = "-J"
    <3>1. given' = [given EXCEPT !.j = Append(@, Passed[n + 1])]
      BY <1>3, <2>1 DEF ParseWithValue
    <3> QED
      BY <2>1, <3>1 DEF TypeOK, Takers
  <2>2. CASE Passed[n] = "--classpath"
    <3>1. given' = [given EXCEPT !.classpath = Append(@, Passed[n + 1])]
      BY <1>3, <2>2 DEF ParseWithValue
    <3> QED
      BY <2>2, <3>1 DEF TypeOK, Takers
  <2> QED
    BY <1>3, <2>1, <2>2 DEF ParseWithValue
<1>5. ~ValueAt(Passed, Takers, n)
  BY <1>2, <1>3, CursorOnNoValue DEF ParseAt, Cursor
<1>6. ValueAt(Passed, Takers, n + 1) /\ Cursor(Passed, Takers, {"--"}, n + 2)
  <2>1. Passed[n] \in Takers \ {"--"}
    BY <1>4 DEF Takers
  <2> QED
    BY <1>0, <1>2, <1>3, <2>1, CursorTaker DEF ParseAt
<1>7. /\ n \notin JPlaces /\ n \notin ArgPlaces /\ n + 1 \notin ArgPlaces
      /\ n \notin CpPlaces
      /\ n + 1 \in JPlaces <=> Passed[n] = "-J"
      /\ n + 1 \in CpPlaces <=> Passed[n] = "--classpath"
  <2>1. (n + 1) - 1 = n
    BY <1>3
  <2> QED
    BY <1>1, <1>3, <1>4, <1>5, <1>6, <2>1 DEF JPlaces, CpPlaces, ArgPlaces, Known
<1>8. /\ given.j = Picked(Passed, Before(JPlaces, n))
      /\ given.args = Picked(Passed, Before(ArgPlaces, n))
      /\ given.debug <=> Flagged("--debug", n)
      /\ given.help <=> Flagged("--help", n)
      /\ given.classpath = Picked(Passed, Before(CpPlaces, n))
  BY <1>2 DEF ParseAt
(* over an option and its value, one or no word more                        *)
<1>14. ASSUME NEW P \in SUBSET (1 .. Len(Passed)), n \notin P,
              Picked(Passed, Before(P, n)) \in Seq(Words)
       PROVE  Picked(Passed, Before(P, n + 2)) =
                IF n + 1 \in P THEN Append(Picked(Passed, Before(P, n)), Passed[n + 1])
                ELSE Picked(Passed, Before(P, n))
  <2>1. Picked(Passed, Before(P, n + 1)) = Picked(Passed, Before(P, n))
    BY <1>0, <1>3, <1>14, PickedNext
  <2>2. Picked(Passed, Before(P, (n + 1) + 1)) =
          IF n + 1 \in P THEN Append(Picked(Passed, Before(P, n + 1)), Passed[n + 1])
          ELSE Picked(Passed, Before(P, n + 1))
    BY <1>0, <1>3, <1>14, <2>1, PickedNext
  <2> QED
    BY <1>3, <2>1, <2>2
<1>9. given'.j = Picked(Passed, Before(JPlaces, n + 2))
  BY <1>1, <1>4, <1>7, <1>8, <1>14
<1>10. given'.args = Picked(Passed, Before(ArgPlaces, n + 2))
  BY <1>1, <1>4, <1>7, <1>8, <1>14
<1>13. given'.classpath = Picked(Passed, Before(CpPlaces, n + 2))
  BY <1>1, <1>4, <1>7, <1>8, <1>14
<1>11. /\ given'.debug <=> Flagged("--debug", n + 2)
       /\ given'.help <=> Flagged("--help", n + 2)
  <2>1. \A i : i \in 1 .. (n + 2) - 1 <=> i \in 1 .. n - 1 \/ i = n \/ i = n + 1
    BY <1>3
  <2>2. \A word : Flagged(word, n + 2) <=> Flagged(word, n) \/ Passed[n] = word
    BY <1>5, <1>6, <2>1 DEF Flagged, FlagAt
  <2>3. Passed[n] # "--debug" /\ Passed[n] # "--help"
    BY <1>4 DEF Takers
  <2> QED
    BY <1>4, <1>8, <2>2, <2>3
<1>12. ParseAt(n + 2)'
  BY <1>0, <1>3, <1>6, <1>9, <1>10, <1>11, <1>13, SameLine DEF ParseAt
<1> QED
  BY <1>0, <1>3, <1>12, SameLine DEF ParseInv

(* Nothing is left: all of the line is read, or the separator was.           *)
LEMMA ParsedWhole ==
  ASSUME TypeOK, ParseInv, ~forked, stage = "parse", argv = <<>>
  PROVE  ParsedRight
<1>0. Passed \in Seq(Words)
  BY DEF ParseInv
<1>1. given.args \in Seq(Words) /\ Len(Passed) \in Nat
  BY <1>0, ParsePlaces DEF TypeOK
<1>2. CASE \E n \in 1 .. Len(Passed) + 1 : ParseAt(n)
  <2>1. PICK n \in 1 .. Len(Passed) + 1 : ParseAt(n)
    BY <1>2
  <2>2. n = Len(Passed) + 1
    <3>1. argv = Rest(Passed, n)
      BY <2>1 DEF ParseAt
    <3> QED
      BY <1>0, <3>1, RestAhead
  <2>3. /\ given.j = LauncherJ /\ given.classpath = Classpaths /\ FlagsRight /\ ValuesGiven
        /\ given.args \o Rest(Passed, n + 1) = Arguments
    BY <1>0, <2>1, <2>2, ParsedUpToStop
  <2>4. Rest(Passed, n + 1) = <<>>
    <3>1. Len(Passed) < n + 1 /\ n + 1 \in Int /\ Len(Passed) \in Int
      BY <1>1, <2>2
    <3> QED
      BY <3>1, SubSeqEmpty DEF Rest
  <2> QED
    BY <1>1, <2>3, <2>4, ConcatEmptySeq DEF ParsedRight
<1> QED
  BY <1>2 DEF ParseInv

(* The separator, and what is behind it.                                     *)
LEMMA ParseEnds ==
  ASSUME TypeOK, ParseInv, ~forked, ParseSeparator \/ ParsedAll
  PROVE  ParseInv'
<1>0. stage = "parse" /\ typed' = typed /\ place' = place /\ Passed \in Seq(Words)
  <2>1. CASE ParseSeparator
    BY <2>1 DEF ParseSeparator, AtWord, ParseInv
  <2>2. CASE ParsedAll
    BY <2>2 DEF ParsedAll, ParseInv
  <2> QED
    BY <2>1, <2>2
<1>1. given.args \in Seq(Words) /\ Len(Passed) \in Nat
  BY <1>0, ParsePlaces DEF TypeOK
<1>2. CASE ParseSeparator
  <2>1. /\ argv # <<>> /\ Head(argv) = "--" /\ argv' = <<>> /\ stage' = "parse"
        /\ given' = [given EXCEPT !.args = @ \o Tail(argv)]
    BY <1>0, <1>2 DEF ParseSeparator, AtWord
  <2>2. PICK n \in 1 .. Len(Passed) + 1 : ParseAt(n)
    BY <1>0, <2>1 DEF ParseInv
  <2>3. Passed[n] = "--" /\ Tail(argv) = Rest(Passed, n + 1)
    <3>1. argv = Rest(Passed, n)
      BY <2>2 DEF ParseAt
    <3>2. n # Len(Passed) + 1
      BY <1>0, <2>1, <3>1, RestAhead
    <3>3. n <= Len(Passed)
      BY <1>1, <3>2
    <3> QED
      BY <1>0, <2>1, <3>1, <3>3, RestAhead
  <2>4. /\ given.j = LauncherJ /\ given.classpath = Classpaths /\ FlagsRight /\ ValuesGiven
        /\ given.args \o Rest(Passed, n + 1) = Arguments
    BY <1>0, <2>2, <2>3, ParsedUpToStop
  <2>5. /\ given'.j = given.j /\ given'.debug = given.debug /\ given'.help = given.help
        /\ given'.classpath = given.classpath /\ given'.args = given.args \o Tail(argv)
    BY <2>1 DEF TypeOK
  <2>6. FlagsRight' /\ ValuesGiven'
    BY <1>0, <2>4, <2>5, SameFlags
  <2>7. ParsedRight'
    BY <1>0, <2>3, <2>4, <2>5, <2>6, SameLine DEF ParsedRight
  <2> QED
    BY <1>0, <2>1, <2>7, SameLine DEF ParseInv
<1>3. CASE ParsedAll
  <2>1. argv = <<>> /\ given' = given /\ stage' \in {"help", "launch"}
    BY <1>3 DEF ParsedAll
  <2>2. ParsedRight
    BY <1>0, <2>1, ParsedWhole
  <2>3. ParsedRight'
    <3>1. FlagsRight' /\ ValuesGiven'
      BY <1>0, <2>1, <2>2, SameFlags DEF ParsedRight
    <3> QED
      BY <1>0, <2>1, <2>2, <3>1, SameLine DEF ParsedRight
  <2>4. stage' = "launch" => LauncherAccepts'
    <3> SUFFICES ASSUME ~given.help PROVE LauncherAccepts
      BY <1>0, <1>3, SameLine DEF ParsedAll
    <3> QED
      BY <2>2 DEF ParsedRight, FlagsRight, ValuesGiven, LauncherAccepts
  <2> QED
    BY <2>1, <2>3, <2>4 DEF ParseInv
<1> QED
  BY <1>2, <1>3

LEMMA ParseStep == TypeOK /\ PackrInv /\ ParseInv /\ [Next]_vars => ParseInv'
<1> SUFFICES ASSUME TypeOK, PackrInv, ParseInv, [Next]_vars PROVE ParseInv'
  OBVIOUS
<1>1. UNCHANGED <<typed, place>> /\ (forked => forked')
  BY LineKept
<1>2. CASE forked
  BY <1>1, <1>2 DEF ParseInv
<1> SUFFICES ASSUME ~forked PROVE ParseInv'
  BY <1>2
<1>3. CASE ParseApplicationURI
  BY <1>3, ParseStarts
<1>4. CASE ParseFlag \/ ParseArgument
  BY <1>4, ParseReadsOne
<1>5. CASE ParseWithValue
  BY <1>5, ParseReadsTwo
<1>6. CASE ParseSeparator \/ ParsedAll
  BY <1>6, ParseEnds
<1>7. CASE \/ Packr \/ DroptFlag \/ DroptJ \/ DroptEnds \/ LoadConfiguration
  <2>1. /\ given' = given /\ given = NothingGiven
        /\ stage' \in {"options", "config", "main"}
    BY <1>7 DEF Packr, DroptFlag, DroptJ, DroptEnds, AtOption, LoadConfiguration, ParseInv
  <2> QED
    BY <2>1 DEF ParseInv
<1>8. CASE \/ DroptHelp \/ DroptRejects \/ ConfigurationFails \/ ParseValueMissing
  <2>1. stage' \in Ends \ {"client"}
    BY <1>8 DEF DroptHelp, DroptRejects, ConfigurationFails, Fails, ParseValueMissing, Ends
  <2> QED
    BY <2>1 DEF ParseInv, Ends
<1>9. CASE LaunchThrows \/ LaunchReflect \/ LaunchJvm \/ LaunchFork
  <2>1. stage = "launch" /\ (stage' \in {"client", "noclient", "failed"} \/ forked')
    BY <1>9 DEF LaunchThrows, LaunchReflect, LaunchJvm, LaunchFork, Fails
  <2>2. LauncherAccepts'
    BY <1>1, <2>1, SameLine DEF ParseInv
  <2> QED
    BY <2>1, <2>2 DEF ParseInv
<1>10. CASE UNCHANGED vars
  <2>1. given' = given /\ argv' = argv
    BY <1>10 DEF vars
  <2>2. \A n : ParseAt(n)' <=> ParseAt(n)
    BY <1>1, <2>1, SameLine DEF ParseAt
  <2>3. ParsedRight' <=> ParsedRight
    BY <1>1, <2>1, SameLine, SameFlags DEF ParsedRight
  <2> QED
    BY <1>1, <1>10, <2>1, <2>2, <2>3, SameLine DEF vars, ParseInv
<1> QED
  BY <1>3, <1>4, <1>5, <1>6, <1>7, <1>8, <1>9, <1>10 DEF Next

-----------------------------------------------------------------------------
(* The client is started by one of two steps, and stays what it is.          *)
LEMMA ClientStarts ==
  ASSUME [Next]_vars, stage' = "client" /\ ~forked'
  PROVE  ~forked /\ (LaunchReflect \/ LaunchJvm \/ UNCHANGED vars)
<1>1. ~forked
  BY LineKept
<1>2. CASE \/ Packr \/ DroptFlag \/ DroptJ \/ DroptHelp \/ DroptRejects \/ DroptEnds
           \/ LoadConfiguration \/ ConfigurationFails
  BY <1>2 DEF Packr, DroptFlag, DroptJ, DroptHelp, DroptRejects, DroptEnds, AtOption,
     LoadConfiguration, ConfigurationFails, Fails
<1>3. CASE ParseApplicationURI \/ ParseValueMissing \/ ParsedAll
  BY <1>3 DEF ParseApplicationURI, ParseValueMissing, ParsedAll
<1>4. CASE ParseFlag \/ ParseArgument
  BY <1>4 DEF ParseFlag, ParseArgument, AtWord
<1>5. CASE ParseWithValue \/ ParseSeparator
  BY <1>5 DEF ParseWithValue, ParseSeparator, AtWord
<1>6. CASE LaunchThrows \/ LaunchFork
  BY <1>6 DEF LaunchThrows, LaunchFork, Fails
<1> QED
  BY <1>1, <1>2, <1>3, <1>4, <1>5, <1>6 DEF Next

LEMMA ClientArgsStep ==
  TypeOK /\ ParseInv /\ ClientArgsAsTyped /\ [Next]_vars => ClientArgsAsTyped'
<1> SUFFICES ASSUME TypeOK, ParseInv, ClientArgsAsTyped, [Next]_vars,
                    stage' = "client" /\ ~forked'
             PROVE  client'.args =
                      (IF Arguments # <<>> THEN Arguments ELSE Saved("args", SavedArgs)) \o EnvArgs
                        \o (IF Asks("--debug") \/ "debug" \in place.saved THEN <<"--debug">> ELSE <<>>)
                        \o Saved("safemode", <<"--safe-mode">>)
  BY LineKept, SameLine DEF ClientArgsAsTyped, Saved
<1>1. ~forked /\ (LaunchReflect \/ LaunchJvm \/ UNCHANGED vars)
  BY ClientStarts
<1>2. CASE LaunchReflect \/ LaunchJvm
  <2>1. stage = "launch" /\ client'.args = ClientArgs
    <3>1. CASE LaunchReflect
      BY <3>1 DEF LaunchReflect
    <3>2. CASE LaunchJvm
      BY <3>2 DEF LaunchJvm, Fails
    <3> QED
      BY <1>2, <3>1, <3>2
  <2>2. given.args = Arguments /\ (given.debug <=> Asks("--debug"))
    BY <1>1, <2>1 DEF ParseInv, ParsedRight, FlagsRight
  <2>3. DebugArgs = (IF Asks("--debug") \/ "debug" \in place.saved THEN <<"--debug">> ELSE <<>>)
    BY <2>2 DEF DebugArgs, Saved
  <2> QED
    BY <2>1, <2>2, <2>3 DEF ClientArgs
<1>3. CASE UNCHANGED vars
  BY <1>1, <1>3 DEF vars, ClientArgsAsTyped
<1> QED
  BY <1>1, <1>2, <1>3

(* What the JVM of a client is started with, and the property in these terms. *)
ClientsOwn ==
  BootstrapArgs \o JvmProps \o
    (<<ErrorFile>>
       \o (IF LauncherJ # <<>> THEN LauncherJ ELSE Saved("jvm", SavedJvmArgs))
       \o Saved("ipv4", <<"-Dipv4">>) \o EnvVmArgs)

JvmRight ==
  stage = "client" /\ ~forked =>
    IF Classpaths # <<>> \/ place.mode = "REFLECT"
    THEN client.jvm = LaunchersOwn
    ELSE client.jvm = ClientsOwn

LEMMA JvmRightSays == JvmRight => JvmArgsReachTheirJvm
BY DEF JvmRight, JvmArgsReachTheirJvm, LaunchersOwn, ClientsOwn

LEMMA JvmArgsStep ==
  TypeOK /\ PackrInv /\ ParseInv /\ JvmRight /\ [Next]_vars => JvmRight'
<1> SUFFICES ASSUME TypeOK, PackrInv, ParseInv, JvmRight, [Next]_vars PROVE JvmRight'
  OBVIOUS
<1>0. /\ LaunchersOwn' = LaunchersOwn /\ ClientsOwn' = ClientsOwn /\ place' = place
      /\ Classpaths' = Classpaths
  <2>1. typed' = typed /\ place' = place
    BY LineKept
  <2>2. /\ LauncherJ' = LauncherJ /\ LaunchersOwn' = LaunchersOwn
        /\ Classpaths' = Classpaths
    BY <2>1, SameLine
  <2> QED
    BY <2>1, <2>2 DEF ClientsOwn, Saved
<1> SUFFICES ASSUME stage' = "client" /\ ~forked'
             PROVE  IF Classpaths # <<>> \/ place.mode = "REFLECT"
                    THEN client'.jvm = LaunchersOwn
                    ELSE client'.jvm = ClientsOwn
  BY <1>0 DEF JvmRight
<1>1. ~forked /\ (LaunchReflect \/ LaunchJvm \/ UNCHANGED vars)
  BY ClientStarts
<1>2. CASE LaunchReflect
  <2>1. /\ stage = "launch" /\ client'.jvm = vmArgs
        /\ given.classpath # <<>> \/ place.mode = "REFLECT"
    BY <1>2 DEF LaunchReflect
  <2>2. given.classpath = Classpaths /\ vmArgs = LaunchersOwn
    BY <1>1, <2>1 DEF ParseInv, ParsedRight, PackrInv
  <2> QED
    BY <2>1, <2>2
<1>3. CASE LaunchJvm
  <2>1. /\ stage = "launch" /\ given.classpath = <<>> /\ place.mode # "REFLECT"
        /\ client'.jvm = (BootstrapArgs \o JvmProps) \o JvmParams
    BY <1>3 DEF LaunchJvm, Fails
  <2>2. given.classpath = Classpaths /\ given.j = LauncherJ
    BY <1>1, <2>1 DEF ParseInv, ParsedRight
  <2>3. BootstrapArgs \o JvmProps \o JvmParams = ClientsOwn
    BY <2>2 DEF JvmParams, ClientsOwn
  <2> QED
    BY <2>1, <2>2, <2>3
<1>4. CASE UNCHANGED vars
  BY <1>1, <1>4 DEF vars, JvmRight
<1> QED
  BY <1>1, <1>2, <1>3, <1>4

LEMMA LineRead == Spec => [](TypeOK /\ PackrInv /\ ParseInv)
<1>1. Init => PackrInv /\ ParseInv
  BY PackrStart DEF Init, ParseInv
<1>2. Spec => []TypeOK
  BY TypeCorrect
<1> QED
  BY <1>1, <1>2, PackrStep, ParseStep, PTL DEF Spec

(***************************************************************************)
(* However long a line, and whichever of its words look like options,      *)
(* values or separators: the client of an unforked launch gets the         *)
(* arguments that the two grammars leave for it, in the order typed, and   *)
(* the saved ones only if there are none.                                  *)
(***************************************************************************)
THEOREM ClientArgsAsTypedSafe == Spec => []ClientArgsAsTyped
<1>1. Init => ClientArgsAsTyped
  BY DEF Init, ClientArgsAsTyped
<1> QED
  BY <1>1, LineRead, ClientArgsStep, PTL DEF Spec

(***************************************************************************)
(* For the same lines: each -J works on the JVM it was typed for.          *)
(***************************************************************************)
THEOREM JvmArgsReachTheirJvmSafe == Spec => []JvmArgsReachTheirJvm
<1>1. Init => JvmRight
  BY DEF Init, JvmRight
<1> QED
  BY <1>1, LineRead, JvmArgsStep, JvmRightSays, PTL DEF Spec
-----------------------------------------------------------------------------
(* packr ends, with or without a message: the line is none for packr.        *)
LEMMA PackrTurnsDown ==
  ASSUME TypeOK, PackrInv, ~forked, DroptHelp \/ DroptRejects
  PROVE  ~PackrAccepts
<1>0. typed \in Seq(Words) /\ Len(typed) \in Nat
  BY PackrPlacesType
<1>1. stage = "options" /\ argv # <<>> /\ ForPackr /\ Head(argv) \in Dashed
  BY DEF DroptHelp, DroptRejects, AtOption, PackrInv
<1>2. PICK n \in 1 .. Len(typed) + 1 : PackrAt(n)
  BY <1>1 DEF PackrInv
<1>3. n <= Len(typed) /\ n \in Nat \ {0} /\ Head(argv) = typed[n]
      /\ Len(argv) = Len(typed) + 1 - n
  <2>1. argv = Rest(typed, n)
    BY <1>2 DEF PackrAt
  <2>2. n # Len(typed) + 1
    BY <1>0, <1>1, <2>1, RestAhead
  <2>3. n <= Len(typed) /\ n \in Nat \ {0}
    BY <1>0, <2>2
  <2> QED
    BY <1>0, <2>1, <2>3, RestAhead
<1>4. ~ValueAt(typed, {"-J"}, n)
  BY <1>2, <1>3, CursorOnNoValue DEF PackrAt, Cursor
<1>5. \/ typed[n] = "-J" /\ n = Len(typed)
      \/ typed[n] \notin {"-c", "-J", "--"}
  <2>1. CASE DroptHelp
    BY <1>3, <2>1 DEF DroptHelp
  <2>2. CASE DroptRejects
    BY <1>0, <1>3, <2>2 DEF DroptRejects
  <2> QED
    BY <2>1, <2>2
<1>6. n \in 1 .. PackrStop - 1
  <2>1. typed[n] \notin PackrStops
    BY <1>1, <1>3, <1>5 DEF PackrStops, Dashed
  <2>2. n < PackrStop
    BY <1>0, <1>2, <1>3, <2>1, CursorBeforeStop DEF PackrAt, PackrStop, PackrStops
  <2>3. PackrStop \in Int
    BY <1>0, StopTyped DEF PackrStop
  <2> QED
    BY <1>3, <2>2, <2>3
<1> QED
  BY <1>0, <1>1, <1>3, <1>4, <1>5, <1>6 DEF PackrAccepts

(* An option lacks its value: so it does in the line.                        *)
LEMMA LauncherTurnsDown ==
  ASSUME TypeOK, ParseInv, ~forked, ParseValueMissing
  PROVE  ~LauncherAccepts
<1>1. /\ stage = "parse" /\ argv # <<>> /\ Head(argv) \in Takers /\ Len(argv) = 1
      /\ Passed \in Seq(Words)
  BY DEF ParseValueMissing, AtWord, ParseInv, Takers
<1>2. PICK n \in 1 .. Len(Passed) + 1 : ParseAt(n)
  BY <1>1 DEF ParseInv
<1>3. Len(Passed) \in Nat /\ DOMAIN Passed = 1 .. Len(Passed)
  BY <1>1, ParsePlaces
<1>4. n <= Len(Passed) /\ n \in Nat \ {0} /\ Head(argv) = Passed[n]
      /\ Len(argv) = Len(Passed) + 1 - n
  <2>1. argv = Rest(Passed, n)
    BY <1>2 DEF ParseAt
  <2>2. n # Len(Passed) + 1
    BY <1>1, <2>1, RestAhead
  <2>3. n <= Len(Passed) /\ n \in Nat \ {0}
    BY <1>3, <2>2
  <2> QED
    BY <1>1, <2>1, <2>3, RestAhead
<1>5. n = Len(Passed) /\ n \in DOMAIN Passed /\ Passed[n] \in Takers
  <2>1. Len(argv) = 1 /\ Head(argv) \in Takers
    BY <1>1
  <2>2. n = Len(Passed)
    <3>1. \A k, l \in Nat : 1 = l + 1 - k => k = l
      OBVIOUS
    <3>2. 1 = Len(Passed) + 1 - n /\ Len(Passed) \in Nat /\ n \in Nat
      BY <1>3, <1>4, <2>1
    <3> QED
      BY <3>1, <3>2
  <2>3. Passed[n] \in Takers
    BY <1>4, <2>1
  <2> QED
    BY <1>3, <1>4, <2>2, <2>3
<1>6. ~ValueAt(Passed, Takers, n)
  BY <1>2, <1>4, CursorOnNoValue DEF ParseAt, Cursor
<1>7. InFront(n)
  <2>1. Passed[n] \notin {"--"}
    BY <1>5 DEF Takers
  <2> QED
    BY <1>1, <1>2, <1>4, <2>1, CursorBeforeStop DEF ParseAt, InFront, LauncherStop
<1>8. ~(n < Len(Passed))
  BY <1>3, <1>5
<1> QED
  BY <1>5, <1>6, <1>7, <1>8 DEF LauncherAccepts

(* The launch is tried and fails, or comes to nothing: it cannot work here.  *)
LEMMA LaunchTurnsDown ==
  ASSUME TypeOK, ParseInv, ~forked, stage' \in {"failed", "noclient"},
         ConfigurationFails \/ LaunchThrows \/ LaunchReflect \/ LaunchJvm \/ LaunchFork
  PROVE  ~LaunchWorks
<1>1. CASE ConfigurationFails
  BY <1>1 DEF ConfigurationFails, LaunchWorks
<1>2. ASSUME stage = "launch" PROVE given.classpath = Classpaths
  BY <1>2 DEF ParseInv, ParsedRight
<1>3. Len(<<"jars">>) = 1 /\ Len(<<>>) = 0 /\ <<"jars">> # <<>>
  OBVIOUS
<1>4. CASE LaunchJvm
  BY <1>2, <1>3, <1>4 DEF LaunchJvm, LaunchWorks
<1>5. CASE LaunchFork
  <2>1. /\ stage = "launch" /\ place.command # "launcher" /\ given.classpath = <<>>
        /\ place.mode = "FORK" \/ (place.mode = "AUTO" /\ CanForkLaunch)
    BY <1>5 DEF LaunchFork, ForkChosen
  <2> QED
    BY <1>2, <1>3, <2>1 DEF CanForkLaunch, LaunchWorks
<1>6. CASE LaunchThrows
  <2>1. stage = "launch" /\ (Len(given.classpath) > 1 \/ PathThrows)
    BY <1>6 DEF LaunchThrows, ClasspathTwice
  <2>2. CASE PathThrows
    BY <1>2, <1>3, <2>1, <2>2 DEF PathThrows, LaunchWorks
  <2>3. CASE Len(given.classpath) > 1
    <3>1. Len(Classpaths) > 1 /\ Len(Classpaths) \in Nat
      <4>1. given.classpath \in Seq(Words) /\ given.classpath = Classpaths
        BY <1>2, <2>1 DEF TypeOK
      <4> QED
        BY <2>3, <4>1, LenProperties
    <3>2. Len(Classpaths) # 1 /\ Len(Classpaths) # 0
      BY <3>1, SMT
    <3>3. Classpaths # <<"jars">> /\ Classpaths # <<>>
      BY <1>3, <3>2, Zenon
    <3> QED
      BY <3>3 DEF LaunchWorks
  <2> QED
    BY <2>1, <2>2, <2>3
<1>7. CASE LaunchReflect
  BY <1>2, <1>7 DEF LaunchReflect, LaunchWorks
<1> QED
  BY <1>1, <1>4, <1>5, <1>6, <1>7

LEMMA LineJudgedStep ==
  TypeOK /\ PackrInv /\ ParseInv /\ LineJudged /\ [Next]_vars => LineJudged'
<1> SUFFICES ASSUME TypeOK, PackrInv, ParseInv, LineJudged, [Next]_vars, ~forked'
             PROVE  /\ stage' = "client" => PackrAccepts /\ LauncherAccepts
                    /\ stage' \in {"help", "rejected", "misparsed"} =>
                         ~(PackrAccepts /\ LauncherAccepts)
                    /\ stage' \in {"failed", "noclient"} => ~LaunchWorks
  BY LineKept, SameLine DEF LineJudged
<1>0. ~forked /\ typed' = typed /\ place' = place
  BY LineKept
<1>1. stage' = "client" => PackrAccepts /\ LauncherAccepts
  <2>1. PackrInv' /\ ParseInv'
    BY PackrStep, ParseStep
  <2>2. stage' = "client" => PackrAccepts' /\ LauncherAccepts'
    BY <2>1 DEF PackrInv, ParseInv
  <2> QED
    BY <1>0, <2>2, SameLine
<1>2. CASE DroptHelp \/ DroptRejects
  <2>1. stage' \in {"help", "rejected"}
    BY <1>2 DEF DroptHelp, DroptRejects
  <2> QED
    BY <1>0, <1>2, <2>1, PackrTurnsDown
<1>3. CASE ParseValueMissing
  <2>1. stage' = "misparsed"
    BY <1>3 DEF ParseValueMissing
  <2> QED
    BY <1>0, <1>3, <2>1, LauncherTurnsDown
<1>4. CASE ParsedAll
  <2>1. stage = "parse" /\ argv = <<>> /\ stage' = IF given.help THEN "help" ELSE "launch"
    BY <1>4 DEF ParsedAll
  <2>2. given.help => ~LauncherAccepts
    BY <1>0, <2>1, ParsedWhole DEF ParsedRight, FlagsRight, LauncherAccepts
  <2> QED
    BY <2>1, <2>2
<1>5. CASE ConfigurationFails \/ LaunchThrows \/ LaunchReflect \/ LaunchJvm \/ LaunchFork
  <2>1. stage' \in {"client", "noclient", "failed", "packr"}
    BY <1>5 DEF ConfigurationFails, LaunchThrows, LaunchReflect, LaunchJvm, LaunchFork, Fails
  <2> QED
    BY <1>0, <1>1, <1>5, <2>1, LaunchTurnsDown
<1>7. CASE \/ Packr \/ DroptFlag \/ DroptJ \/ DroptEnds \/ LoadConfiguration
           \/ ParseApplicationURI
  <2>1. stage' \in {"options", "config", "main", "parse"}
    BY <1>7 DEF Packr, DroptFlag, DroptJ, DroptEnds, AtOption, LoadConfiguration,
       ParseApplicationURI
  <2> QED
    BY <2>1
<1>8. CASE ParseFlag \/ ParseWithValue
  <2>1. stage' = "parse"
    BY <1>8 DEF ParseFlag, ParseWithValue, AtWord
  <2> QED
    BY <2>1
<1>9. CASE ParseSeparator \/ ParseArgument
  <2>1. stage' = "parse"
    BY <1>9 DEF ParseSeparator, ParseArgument, AtWord
  <2> QED
    BY <2>1
<1>10. CASE UNCHANGED vars
  BY <1>0, <1>10 DEF vars, LineJudged
<1> QED
  BY <1>2, <1>3, <1>4, <1>5, <1>7, <1>8, <1>9, <1>10 DEF Next

(***************************************************************************)
(* For lines of any length: the client is only started by a line that the  *)
(* two grammars accept, and a line is only turned down by a parser if one  *)
(* of them does not accept it, or by a launcher that cannot work where it  *)
(* is.  The safety half of GoodLineStarts, and its converse.               *)
(***************************************************************************)
THEOREM LineJudgedSafe == Spec => []LineJudged
<1>1. Init => LineJudged
  BY DEF Init, LineJudged
<1> QED
  BY <1>1, LineRead, LineJudgedStep, PTL DEF Spec
-----------------------------------------------------------------------------
(***************************************************************************)
(* The process that ForkLauncher starts, and the end of every launch       *)
(***************************************************************************)

(* What is left of ForkCommand while packr reads it: a "-J" for the argument *)
(* of the bootstrap, another for the property, and none for the argument of  *)
(* the crash file behind them.                                               *)
ForkWords(s) ==
  Len(s) >= 6 /\ s[1] = "-c" /\ s[2] = "-J" /\ s[4] = "-J" /\ s[6] = ErrorFile
TwoLeft(s) == Len(s) >= 5 /\ s[1] = "-J" /\ s[3] = "-J" /\ s[5] = ErrorFile
OneLeft(s) == Len(s) >= 3 /\ s[1] = "-J" /\ s[3] = ErrorFile

ForkRead ==
  forked =>
    \/ stage = "packr" /\ ForkWords(argv)
    \/ /\ stage = "options"
       /\ \/ ForkWords(argv) \/ TwoLeft(argv) \/ OneLeft(argv)
          \/ argv # <<>> /\ argv[1] = ErrorFile
    \/ stage = "rejected"

LEMMA Joined ==
  ASSUME NEW s \in Seq(Words), NEW t \in Seq(Words)
  PROVE  /\ s \o t \in Seq(Words) /\ Len(s \o t) = Len(s) + Len(t)
         /\ \A i \in 1 .. Len(s) : (s \o t)[i] = s[i]
         /\ \A i \in 1 .. Len(t) : (s \o t)[Len(s) + i] = t[i]
<1>1. Len(s) \in Nat /\ Len(t) \in Nat
  BY LenProperties
<1>2. /\ s \o t \in Seq(Words) /\ Len(s \o t) = Len(s) + Len(t)
      /\ \A i \in 1 .. Len(s) + Len(t) : (s \o t)[i] = IF i <= Len(s) THEN s[i] ELSE t[i - Len(s)]
  BY ConcatProperties
<1>3. ASSUME NEW i \in 1 .. Len(t) PROVE (s \o t)[Len(s) + i] = t[i]
  <2>1. /\ Len(s) + i \in 1 .. Len(s) + Len(t) /\ ~(Len(s) + i <= Len(s))
        /\ (Len(s) + i) - Len(s) = i
    BY <1>1
  <2> QED
    BY <1>2, <2>1
<1> QED
  BY <1>1, <1>2, <1>3

(* What a line begins with is not changed by words behind it.                *)
LEMMA ForkWordsKept ==
  ASSUME NEW s \in Seq(Words), ForkWords(s), NEW t \in Seq(Words)
  PROVE  s \o t \in Seq(Words) /\ ForkWords(s \o t)
<1>1. Len(s) \in Nat /\ Len(t) \in Nat /\ Len(s) >= 6
  BY LenProperties DEF ForkWords
<1>2. 1 \in 1 .. Len(s) /\ 2 \in 1 .. Len(s) /\ 4 \in 1 .. Len(s) /\ 6 \in 1 .. Len(s)
  BY <1>1
<1>3. /\ s \o t \in Seq(Words) /\ Len(s \o t) = Len(s) + Len(t)
      /\ (s \o t)[1] = s[1] /\ (s \o t)[2] = s[2] /\ (s \o t)[4] = s[4] /\ (s \o t)[6] = s[6]
  BY <1>2, Joined
<1> QED
  BY <1>1, <1>3 DEF ForkWords

LEMMA CrashFileFirst ==
  ASSUME TypeOK
  PROVE  JvmParams \in Seq(Words) /\ Len(JvmParams) >= 1 /\ JvmParams[1] = ErrorFile
<1>1. ASSUME NEW s \in Seq(Words), Len(s) >= 1, s[1] = ErrorFile, NEW t \in Seq(Words)
      PROVE  s \o t \in Seq(Words) /\ Len(s \o t) >= 1 /\ (s \o t)[1] = ErrorFile
  <2>1. Len(s) \in Nat /\ Len(t) \in Nat /\ 1 \in 1 .. Len(s)
    BY <1>1, LenProperties
  <2> QED
    BY <1>1, <2>1, Joined
<1> DEFINE e == <<ErrorFile>>
           p == e \o GivenJvmArgs
           q == p \o Saved("ipv4", <<"-Dipv4">>)
<1>2. e \in Seq(Words) /\ Len(e) >= 1 /\ e[1] = ErrorFile
  BY Defaults
<1>3. JvmParams = q \o EnvVmArgs
  BY DEF JvmParams, GivenJvmArgs
<1> HIDE DEF e
<1>4. p \in Seq(Words) /\ Len(p) >= 1 /\ p[1] = ErrorFile
  BY <1>1, <1>2, Sources
<1> HIDE DEF p
<1>5. q \in Seq(Words) /\ Len(q) >= 1 /\ q[1] = ErrorFile
  BY <1>1, <1>4, Sources
<1> HIDE DEF q
<1> QED
  BY <1>1, <1>3, <1>5, Defaults

LEMMA ForkCommandWords == TypeOK => ForkWords(ForkCommand) /\ ForkCommand \in Seq(Words)
<1> SUFFICES ASSUME TypeOK PROVE ForkWords(ForkCommand) /\ ForkCommand \in Seq(Words)
  OBVIOUS
<1> DEFINE front == <<"-c", "-J", BootstrapArgs[1], "-J", JvmProps[1]>>
           rest == <<"--", "--classpath", "jars">>
           q == front \o JvmParams
           r == q \o rest
<1>1. /\ front \in Seq(Words) /\ Len(front) = 5
      /\ front[1] = "-c" /\ front[2] = "-J" /\ front[4] = "-J"
      /\ rest \in Seq(Words)
  BY Defaults
<1>2. ForkCommand = r \o ClientArgs
  BY DEF ForkCommand
<1> HIDE DEF front, rest
<1>3. q \in Seq(Words) /\ ForkWords(q)
  <2>1. JvmParams \in Seq(Words) /\ Len(JvmParams) >= 1 /\ JvmParams[1] = ErrorFile
        /\ Len(JvmParams) \in Nat
    BY CrashFileFirst, LenProperties
  <2>2. /\ 1 \in 1 .. Len(front) /\ 2 \in 1 .. Len(front) /\ 4 \in 1 .. Len(front)
        /\ 1 \in 1 .. Len(JvmParams) /\ Len(front) + 1 = 6
    BY <1>1, <2>1
  <2>3. /\ q \in Seq(Words) /\ Len(q) = Len(front) + Len(JvmParams)
        /\ \A i \in 1 .. Len(front) : q[i] = front[i]
        /\ \A i \in 1 .. Len(JvmParams) : q[Len(front) + i] = JvmParams[i]
    BY <1>1, <2>1, Joined
  <2>4. /\ q[1] = front[1] /\ q[2] = front[2] /\ q[4] = front[4] /\ q[6] = JvmParams[1]
    BY <2>2, <2>3
  <2>5. Len(q) >= 6
    BY <1>1, <2>1, <2>3
  <2> HIDE DEF q
  <2> QED
    BY <1>1, <2>1, <2>3, <2>4, <2>5 DEF ForkWords
<1> HIDE DEF q
<1>4. r \in Seq(Words) /\ ForkWords(r)
  BY <1>1, <1>3, ForkWordsKept
<1> HIDE DEF r
<1> QED
  BY <1>2, <1>4, Assembled, ForkWordsKept

LEMMA ForkReadStep == TypeOK /\ ForkRead /\ [Next]_vars => ForkRead'
<1> SUFFICES ASSUME TypeOK, ForkRead, [Next]_vars, forked'
             PROVE  \/ stage' = "packr" /\ ForkWords(argv')
                    \/ /\ stage' = "options"
                       /\ \/ ForkWords(argv') \/ TwoLeft(argv') \/ OneLeft(argv')
                          \/ argv' # <<>> /\ argv'[1] = ErrorFile
                    \/ stage' = "rejected"
  BY DEF ForkRead
<1>0. argv \in Seq(Words) /\ Len(argv) \in Nat /\ (argv # <<>> => Head(argv) = argv[1])
      /\ (Len(argv) > 0 => argv # <<>>)
  BY EmptySeq, HeadTailProperties, LenProperties DEF TypeOK
<1>1. CASE LaunchFork
  <2>1. place.command = "launcher" \/ (UNCHANGED forked /\ stage = "launch")
    BY <1>1 DEF LaunchFork, Fails
  <2>2. CASE place.command # "launcher"
    BY <2>1, <2>2 DEF ForkRead
  <2>3. CASE place.command = "launcher"
    BY <1>1, <2>3, ForkCommandWords DEF LaunchFork
  <2> QED
    BY <2>2, <2>3
<1>2. CASE ~LaunchFork
  <2>1. forked
    BY <1>2 DEF Next, Packr, DroptFlag, DroptJ, DroptHelp, DroptRejects, DroptEnds,
       LoadConfiguration, ConfigurationFails, Fails, ParseApplicationURI, ParseFlag,
       ParseWithValue, ParseValueMissing, ParseSeparator, ParseArgument, ParsedAll,
       LaunchThrows, LaunchReflect, LaunchJvm, vars
  <2>2. CASE UNCHANGED vars
    BY <2>1, <2>2 DEF vars, ForkRead
  <2>3. CASE stage = "packr" /\ ~UNCHANGED vars
    <3>1. Packr /\ ForkWords(argv)
      BY <1>2, <2>1, <2>3 DEF ForkRead, Next, AtOption, AtWord, DroptFlag, DroptJ, DroptHelp,
         DroptRejects, DroptEnds, LoadConfiguration, ConfigurationFails, ParseApplicationURI,
         ParseFlag, ParseWithValue, ParseValueMissing, ParseSeparator, ParseArgument, ParsedAll,
         LaunchThrows, LaunchReflect, LaunchJvm
    <3>2. stage' = "options" /\ argv' = argv
      BY <1>0, <3>1 DEF Packr, ForkWords
    <3> QED
      BY <3>1, <3>2
  <2>4. CASE stage = "options" /\ ~UNCHANGED vars
    <3>1. DroptFlag \/ DroptJ \/ DroptHelp \/ DroptRejects \/ DroptEnds
      BY <1>2, <2>4 DEF Next, Packr, AtWord, LoadConfiguration, ConfigurationFails,
         ParseApplicationURI, ParseFlag, ParseWithValue, ParseValueMissing, ParseSeparator,
         ParseArgument, ParsedAll, LaunchThrows, LaunchReflect, LaunchJvm
    <3>2. CASE ForkWords(argv)
      <4>1. Head(argv) = "-c" /\ argv # <<>>
        BY <1>0, <3>2 DEF ForkWords
      <4>2. DroptFlag
        BY <3>1, <4>1 DEF DroptJ, DroptHelp, DroptRejects, DroptEnds, AtOption, Dashed
      <4>3. argv' = Tail(argv) /\ stage' = "options"
        BY <2>4, <4>2 DEF DroptFlag
      <4>4. /\ Len(Tail(argv)) = Len(argv) - 1
            /\ \A i \in 1 .. Len(argv) - 1 : Tail(argv)[i] = argv[i + 1]
        BY <1>0, <4>1, HeadTailProperties
      <4>5. /\ Len(argv') >= 5 /\ argv'[1] = argv[2] /\ argv'[3] = argv[4]
            /\ argv'[5] = argv[6]
        BY <1>0, <3>2, <4>3, <4>4 DEF ForkWords
      <4> QED
        BY <3>2, <4>3, <4>5 DEF ForkWords, TwoLeft
    <3>3. CASE TwoLeft(argv) \/ OneLeft(argv)
      <4>0. Len(argv) >= 3 /\ argv[1] = "-J"
        BY <1>0, <3>3 DEF TwoLeft, OneLeft
      <4>1. Len(argv) > 0 /\ Len(argv) # 1
        <5>1. \A n \in Nat : n >= 3 => n > 0 /\ n # 1
          OBVIOUS
        <5>2. Len(argv) \in Nat /\ Len(argv) >= 3
          BY <1>0, <4>0
        <5> QED
          BY <5>1, <5>2
      <4>9. Head(argv) = "-J" /\ argv # <<>>
        BY <1>0, <4>0, <4>1
      <4>2. DroptJ
        BY <3>1, <4>1, <4>9 DEF DroptFlag, DroptHelp, DroptRejects, DroptEnds, AtOption, Dashed
      <4>3. argv' = Tail(Tail(argv)) /\ stage' = "options"
        BY <2>4, <4>2 DEF DroptJ
      <4>4. /\ Tail(argv) \in Seq(Words) /\ Len(Tail(argv)) = Len(argv) - 1
            /\ \A i \in 1 .. Len(argv) - 1 : Tail(argv)[i] = argv[i + 1]
        BY <1>0, <4>9, HeadTailProperties
      <4>5. Tail(argv) # <<>> /\ Len(Tail(argv)) >= 2
        BY <1>0, <4>0, <4>4, EmptySeq
      <4>6. /\ Tail(Tail(argv)) \in Seq(Words) /\ Len(Tail(Tail(argv))) = Len(Tail(argv)) - 1
            /\ \A i \in 1 .. Len(Tail(argv)) - 1 : Tail(Tail(argv))[i] = Tail(argv)[i + 1]
        BY <4>4, <4>5, HeadTailProperties
      <4>7. CASE TwoLeft(argv)
        <5>1. Len(argv') >= 3 /\ argv'[1] = argv[3] /\ argv'[3] = argv[5]
          BY <1>0, <4>3, <4>4, <4>6, <4>7 DEF TwoLeft
        <5> QED
          BY <4>3, <4>7, <5>1 DEF TwoLeft, OneLeft
      <4>8. CASE OneLeft(argv)
        <5>1. Len(argv') >= 1 /\ argv'[1] = argv[3]
          BY <1>0, <4>3, <4>4, <4>6, <4>8 DEF OneLeft
        <5>2. argv' # <<>>
          BY <5>1, EmptySeq
        <5> QED
          BY <4>3, <4>8, <5>1, <5>2 DEF OneLeft
      <4> QED
        BY <3>3, <4>7, <4>8
    <3>4. CASE argv # <<>> /\ argv[1] = ErrorFile
      <4>1. Head(argv) = "-XX:ErrorFile" /\ argv # <<>>
        BY <1>0, <3>4 DEF ErrorFile
      <4>2. DroptRejects
        BY <3>1, <4>1 DEF DroptFlag, DroptJ, DroptHelp, DroptEnds, AtOption, Dashed, ErrorFile
      <4> QED
        BY <4>2 DEF DroptRejects
    <3> QED
      BY <2>1, <2>4, <3>2, <3>3, <3>4 DEF ForkRead
  <2>5. CASE stage = "rejected" /\ ~UNCHANGED vars
    BY <1>2, <2>5 DEF Next, Packr, AtOption, AtWord, DroptFlag, DroptJ, DroptHelp,
       DroptRejects, DroptEnds, LoadConfiguration, ConfigurationFails, ParseApplicationURI,
       ParseFlag, ParseWithValue, ParseValueMissing, ParseSeparator, ParseArgument, ParsedAll,
       LaunchThrows, LaunchReflect, LaunchJvm
  <2> QED
    BY <2>1, <2>2, <2>3, <2>4, <2>5 DEF ForkRead
<1> QED
  BY <1>1, <1>2

LEMMA ForkReadHolds == Spec => [](TypeOK /\ ForkRead)
<1>1. Init => ForkRead
  BY DEF Init, ForkRead
<1> QED
  BY <1>1, ForkReadStep, TypeCorrect, PTL DEF Spec

(***************************************************************************)
(* ForkLauncher puts a -J in front of the arguments of the bootstrap and   *)
(* none in front of jvmArgs, of which the crash file is always one: packr  *)
(* turns down the line, whatever was typed, saved or configured, and a     *)
(* launch that forks never gets to a client.  (The run of ForkStarts shows *)
(* one such line; a typed --classpath does not fork.)                      *)
(***************************************************************************)
THEOREM ForkedIsTurnedDown ==
  Spec => [](forked => stage \in {"packr", "options", "rejected"})
<1>1. ForkRead => (forked => stage \in {"packr", "options", "rejected"})
  BY DEF ForkRead
<1> QED
  BY <1>1, ForkReadHolds, PTL

(* How far a launch is: the parts that have had the command line, in order.  *)
Order == <<"packr", "options", "config", "main", "parse", "launch">>
IsBehind(new, old) ==
  \E j \in DOMAIN Order :
    old = Order[j] /\ (new \in Ends \/ \E k \in DOMAIN Order : new = Order[k] /\ k > j)

(* Every step hands the line on to a later part, or takes a word off it; or  *)
(* is the one fork there may be.                                             *)
GoesOn ==
  \/ ~forked /\ forked'
  \/ /\ forked' = forked
     /\ \/ IsBehind(stage', stage)
        \/ stage' = stage /\ Len(argv') < Len(argv)

LEMMA Behind ==
  /\ IsBehind("options", "packr") /\ IsBehind("config", "packr") /\ IsBehind("config", "options")
  /\ IsBehind("main", "config") /\ IsBehind("parse", "main") /\ IsBehind("launch", "parse")
  /\ \A old \in {"packr", "options", "config", "main", "parse", "launch"}, new \in Ends :
       IsBehind(new, old)
<1>1. /\ DOMAIN Order = 1 .. 6
      /\ Order[1] = "packr" /\ Order[2] = "options" /\ Order[3] = "config"
      /\ Order[4] = "main" /\ Order[5] = "parse" /\ Order[6] = "launch"
  BY DEF Order
<1>2. ASSUME NEW j \in 1 .. 6, NEW k \in 1 .. 6, k > j PROVE IsBehind(Order[k], Order[j])
  BY <1>1, <1>2 DEF IsBehind
<1>3. ASSUME NEW j \in 1 .. 6, NEW new \in Ends PROVE IsBehind(new, Order[j])
  BY <1>1 DEF IsBehind
<1>4. /\ IsBehind(Order[2], Order[1]) /\ IsBehind(Order[3], Order[1])
      /\ IsBehind(Order[3], Order[2]) /\ IsBehind(Order[4], Order[3])
      /\ IsBehind(Order[5], Order[4]) /\ IsBehind(Order[6], Order[5])
  BY <1>2
<1>5. ASSUME NEW old \in {"packr", "options", "config", "main", "parse", "launch"}
      PROVE  \E j \in 1 .. 6 : old = Order[j]
  BY <1>1
<1> QED
  BY <1>1, <1>3, <1>4, <1>5

LEMMA StepGoesOn == TypeOK /\ ForkRead /\ [Next]_vars => [GoesOn]_vars
<1> SUFFICES ASSUME TypeOK, ForkRead, Next PROVE GoesOn \/ UNCHANGED vars
  OBVIOUS
<1>0. /\ argv \in Seq(Words) /\ Len(argv) \in Nat /\ forked \in BOOLEAN
      /\ argv # <<>> => Len(Tail(argv)) = Len(argv) - 1 /\ Tail(argv) \in Seq(Words)
      /\ argv # <<>> => Len(argv) > 0
      /\ Len(argv) > 1 => Len(Tail(Tail(argv))) = Len(argv) - 2
  <2>1. argv \in Seq(Words) /\ forked \in BOOLEAN
    BY DEF TypeOK
  <2>2. /\ Len(argv) \in Nat
        /\ argv # <<>> => Len(Tail(argv)) = Len(argv) - 1 /\ Tail(argv) \in Seq(Words)
        /\ argv # <<>> => Len(argv) > 0
    BY <2>1, HeadTailProperties, EmptySeq, LenProperties
  <2>3. ASSUME Len(argv) > 1 PROVE Len(Tail(Tail(argv))) = Len(argv) - 2
    <3>1. argv # <<>>
      BY <2>1, <2>3, EmptySeq
    <3>2. Len(Tail(argv)) = Len(argv) - 1 /\ Tail(argv) \in Seq(Words)
      BY <2>2, <3>1
    <3>3. Tail(argv) # <<>>
      <4>1. Len(Tail(argv)) # 0
        BY <2>2, <2>3, <3>2
      <4> QED
        BY <3>2, <4>1, EmptySeq
    <3>4. Len(Tail(Tail(argv))) = Len(Tail(argv)) - 1
      BY <3>2, <3>3, HeadTailProperties
    <3> QED
      BY <2>2, <3>2, <3>4
  <2> QED
    BY <2>1, <2>2, <2>3
<1>1. CASE Packr
  BY <1>1, Behind DEF Packr, GoesOn
<1>2. CASE DroptFlag
  BY <1>0, <1>2 DEF DroptFlag, AtOption, GoesOn
<1>3. CASE DroptJ
  BY <1>0, <1>3 DEF DroptJ, AtOption, GoesOn
<1>4. CASE DroptHelp \/ DroptRejects
  BY <1>4, Behind DEF DroptHelp, DroptRejects, AtOption, GoesOn, Ends
<1>5. CASE DroptEnds
  BY <1>5, Behind DEF DroptEnds, GoesOn
<1>6. CASE LoadConfiguration \/ ParseApplicationURI
  BY <1>6, Behind DEF LoadConfiguration, ParseApplicationURI, GoesOn
<1>7. CASE ConfigurationFails
  BY <1>7, Behind DEF ConfigurationFails, Fails, GoesOn, Ends
<1>8. CASE ParseFlag \/ ParseSeparator \/ ParseArgument
  <2>1. argv # <<>> /\ argv' \in {Tail(argv), <<>>} /\ UNCHANGED <<stage, forked>>
    BY <1>8 DEF ParseFlag, ParseSeparator, ParseArgument, AtWord
  <2>2. Len(<<>>) = 0
    BY EmptySeq
  <2> QED
    BY <1>0, <2>1, <2>2 DEF GoesOn
<1>9. CASE ParseWithValue
  BY <1>0, <1>9 DEF ParseWithValue, AtWord, GoesOn
<1>10. CASE ParseValueMissing
  BY <1>10, Behind DEF ParseValueMissing, AtWord, GoesOn, Ends
<1>11. CASE ParsedAll
  BY <1>11, Behind DEF ParsedAll, GoesOn, Ends
<1>12. CASE LaunchThrows \/ LaunchReflect
  BY <1>12, Behind DEF LaunchThrows, Fails, LaunchReflect, GoesOn, Ends
<1>13. CASE LaunchJvm
  BY <1>13, Behind DEF LaunchJvm, Fails, GoesOn, Ends
<1>14. CASE LaunchFork
  <2>1. ~forked
    BY <1>14 DEF LaunchFork, ForkRead
  <2> QED
    BY <1>14, <2>1, Behind DEF LaunchFork, Fails, GoesOn, Ends
<1> QED
  BY <1>1, <1>2, <1>3, <1>4, <1>5, <1>6, <1>7, <1>8, <1>9, <1>10, <1>11, <1>12, <1>13, <1>14
  DEF Next

(***************************************************************************)
(* However long the line is and whatever is in it: no parser goes round in *)
(* circles, no part gets the line twice, and the launcher that was forked  *)
(* forks no other.  So every launch ends after as many steps as it has     *)
(* words, and a few more: what is left of GoodLineStarts, besides          *)
(* LineJudged, is that a step is possible until then.                      *)
(***************************************************************************)
THEOREM LaunchGoesOn == Spec => [][GoesOn]_vars
<1> QED
  BY ForkReadHolds, StepGoesOn, PTL DEF Spec
=============================================================================
