----------------------------- MODULE MCUpdater ------------------------------
(***************************************************************************)
(* Small instances of Updater.  1.9 is installed.  1.10 and 1.10-SNAPSHOT  *)
(* are updates of any version, 1.10.1 one of versions from 1.10-SNAPSHOT   *)
(* on, and another system has a 1.10.1 too.  One entry has a number that   *)
(* is no int, here one above 20, and therefore sorts below all the others. *)
(***************************************************************************)
EXTENDS Updater, TLC

CONSTANTS p, q, h0, h2, h3, h4, hx

MCHashes == {h0, h2, h3, h4, hx}

(* tokens; as text "1" < "10" < "9" < "99..." < "SNAPSHOT" *)
Number(value, text) == [digits |-> TRUE, value |-> value, text |-> text]
One  == Number(1, 0)
Ten  == Number(10, 1)
Big  == Number(21, 3)
Nine == Number(9, 2)
Word == [digits |-> FALSE, value |-> 0, text |-> 4]

V1Big      == <<One, Big>>
V1Nine     == <<One, Nine>>
V1Ten      == <<One, Ten>>
V1TenWord  == <<One, Ten, Word>>
V1TenOne   == <<One, Ten, One>>

(* the order VersionTest asks for, and V1Big *)
MCRank ==
  (V1Big :> 0) @@ (V1Nine :> 1) @@ (V1Ten :> 2) @@ (V1TenWord :> 3) @@ (V1TenOne :> 4)

Offer(version, hash, minimum, fits, limited) ==
  [version |-> version, hash |-> hash, minimum |-> minimum, fits |-> fits,
   limited |-> limited]

TooBig  == Offer(V1Big, h0, None, TRUE, FALSE)
First   == Offer(V1Ten, h2, None, TRUE, FALSE)
Second  == Offer(V1TenWord, h3, None, TRUE, FALSE)
Third   == Offer(V1TenOne, h4, V1TenWord, TRUE, TRUE)
Foreign == Offer(V1TenOne, hx, None, FALSE, FALSE)

EarlyFeed == <<Foreign, Second, TooBig>>
LateFeed == <<Third, Second, First, Foreign, TooBig>>

MCFeeds == {EarlyFeed, LateFeed}
OnlyLate == {LateFeed}
OnlySecond == {<<Second>>}

BothWays == Permutations(Procs)
=============================================================================
