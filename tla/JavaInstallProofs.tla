------------------------- MODULE JavaInstallProofs --------------------------
(***************************************************************************)
(* Theorems about JavaInstall, for any number of releases, failures and    *)
(* kills.                                                                  *)
(***************************************************************************)
EXTENDS JavaInstall, TLAPS

USE JavaInstallAssumption DEF Jres, Absent, Garbage

(* The steps of the installation that follow a check that did not pass.      *)
Installing == {"download", "verify", "unzip", "unzipping", "store"}

(* What the launcher has in hand while it runs: with no way back to an older *)
(* release, the JRE it wants is the newest one ever wanted.                  *)
WantOK ==
  /\ want = Absent <=> pc = "off"
  /\ ~Downgrades /\ want # Absent => want = latest

(* The zip is the wanted one once it was verified, and the wanted JRE is     *)
(* there when its checksum is stored.                                        *)
WorkOK ==
  /\ pc \in {"unzip", "unzipping", "store"} => zip = want
  /\ ZipArchives /\ pc = "store" => jre[want] = "whole" /\ want \in unpacked

(* java_hash.txt never names a JRE of a later release.                       *)
HashOK ==
  hashFile # Absent =>
    /\ ZipArchives => hashFile \in unpacked
    /\ ~Downgrades => hashFile <= latest

(* Once it names the newest JRE, neither the zip nor the folder changes; and *)
(* while that JRE is being installed it does not name it.                    *)
LatestOK ==
  ZipArchives /\ ~Downgrades /\ readFaults = 0 =>
    /\ hashFile = latest => zip = latest /\ jre[latest] = "whole"
    /\ pc \in Installing => hashFile # want

IInv == TypeOK /\ WantOK /\ WorkOK /\ HashOK /\ LatestOK

LEMMA InitIInv == Init => IInv
  BY DEF Init, IInv, TypeOK, WantOK, WorkOK, HashOK, LatestOK, Steps, Installing

LEMMA NextIInv == IInv /\ [Next]_vars => IInv'
<1> SUFFICES ASSUME IInv, [Next]_vars
             PROVE  IInv'
  OBVIOUS
<1> USE DEF IInv, TypeOK, WantOK, WorkOK, HashOK, LatestOK, Steps, Installing, Goto,
            Fault, ReadFault, NoFault, disk, AllEntriesWritten
<1>1. CASE Start
  BY <1>1 DEF Start
<1>2. CASE Check
  BY <1>2 DEF Check, Trusted
<1>3. CASE Download
  BY <1>3 DEF Download
<1>4. CASE VerifyDownload
  BY <1>4 DEF VerifyDownload
<1>5. CASE BeginUnzip
  BY <1>5 DEF BeginUnzip
<1>6. CASE EndUnzip
  <2> USE <1>6 DEF EndUnzip
  <2>1. /\ pc = "unzipping" /\ zip = want /\ want \in Jres
        /\ UNCHANGED <<zip, hashFile, want, client, latest>>
        /\ pc' \in {"store", "getJava"}
        /\ readFaults' = readFaults /\ faults' \in Nat
    OBVIOUS
  <2>2. \/ UNCHANGED <<jre, unpacked>> /\ pc' = "getJava"
        \/ ~ZipArchives /\ UNCHANGED <<jre, unpacked>>
        \/ jre' = [jre EXCEPT ![want] = "whole"] /\ unpacked' = unpacked \cup {want}
    OBVIOUS
  <2>3. TypeOK' /\ WantOK'
    BY <2>1, <2>2
  <2>4. WorkOK'
    BY <2>1, <2>2
  <2>5. HashOK'
    BY <2>1, <2>2
  <2>6. LatestOK'
    <3>1. CASE UNCHANGED <<jre, unpacked>>
      BY <2>1, <3>1
    <3>2. CASE jre' = [jre EXCEPT ![want] = "whole"]
      BY <2>1, <3>2
    <3>3. QED
      BY <2>2, <3>1, <3>2
  <2>7. QED
    BY <2>3, <2>4, <2>5, <2>6
<1>7. CASE StoreHash
  BY <1>7 DEF StoreHash
<1>8. CASE GetJava
  BY <1>8 DEF GetJava
<1>9. CASE Exit
  BY <1>9 DEF Exit, Forget
<1>10. CASE Kill
  BY <1>10 DEF Kill, Forget
<1>11. CASE UNCHANGED vars
  BY <1>11 DEF vars
<1>12. QED
  BY <1>1, <1>2, <1>3, <1>4, <1>5, <1>6, <1>7, <1>8, <1>9, <1>10, <1>11 DEF Next, Install

(* Every variable keeps its type, and a client is there exactly when one was *)
(* launched.                                                                 *)
THEOREM InstallTypeCorrect == Spec => []TypeOK
<1>1. IInv => TypeOK
  BY DEF IInv
<1>2. QED
  BY InitIInv, NextIInv, <1>1, PTL DEF Spec

(* storeLocalHash comes last: java_hash.txt only names what was unpacked.    *)
THEOREM HashAfterUnzipSafe ==
  ASSUME ZipArchives
  PROVE  Spec => []HashAfterUnzip
<1>1. IInv => HashAfterUnzip
  BY DEF IInv, HashOK, HashAfterUnzip
<1>2. QED
  BY InitIInv, NextIInv, <1>1, PTL DEF Spec

(* "Check if Java is already downloaded and hash matches": as long as the    *)
(* launcher is only ever upgraded and can read its files, what the check     *)
(* accepts is a whole JRE.                                                   *)
THEOREM ReadableIsWholeSafe ==
  ASSUME ZipArchives, ~Downgrades
  PROVE  Spec => []ReadableIsWhole
<1>1. IInv => ReadableIsWhole
  BY DEF IInv, TypeOK, WantOK, HashOK, LatestOK, ReadableIsWhole, TrustedIsWhole, Trusted
<1>2. QED
  BY InitIInv, NextIInv, <1>1, PTL DEF Spec
-----------------------------------------------------------------------------
(* As long as nothing fails: no folder is left half unpacked, one whose      *)
(* checksum is stored is whole, and the launcher only looks for the java of  *)
(* a whole JRE.                                                              *)
Undisturbed == faults = 0 /\ readFaults = 0

FoldersOK ==
  Undisturbed =>
    /\ \A j \in Jres : jre[j] = "part" => pc = "unzipping" /\ j = want
    /\ hashFile # Absent => jre[hashFile] # "none"
    /\ pc \in {"store", "getJava"} => jre[want] = "whole"
    /\ pc # "noJava" /\ client # "part"

LEMMA NextFoldersOK ==
  ASSUME ZipArchives PROVE IInv /\ FoldersOK /\ [Next]_vars => FoldersOK'
<1> SUFFICES ASSUME IInv, FoldersOK, [Next]_vars, Undisturbed'
             PROVE  /\ \A j \in Jres : jre'[j] = "part" => pc' = "unzipping" /\ j = want'
                    /\ hashFile' # Absent => jre'[hashFile'] # "none"
                    /\ pc' \in {"store", "getJava"} => jre'[want'] = "whole"
                    /\ pc' # "noJava" /\ client' # "part"
  BY DEF FoldersOK
<1>0. /\ TypeOK /\ WantOK /\ WorkOK
      /\ ~Fault /\ ~ReadFault
  BY DEF IInv, Undisturbed, Fault, ReadFault, TypeOK
<1> USE DEF TypeOK, WantOK, Steps, Goto, NoFault, disk
<1>1. Undisturbed
  BY <1>0 DEF Undisturbed, Next, Install, Start, Check, Download, VerifyDownload, BeginUnzip,
     EndUnzip, StoreHash, GetJava, Exit, Kill, vars
<1>2. CASE Start
  BY <1>0, <1>1, <1>2 DEF Start, FoldersOK
<1>3. CASE Check
  <2>1. Trusted(want) => jre[want] = "whole"
    BY <1>0, <1>1, <1>3 DEF Check, Trusted, FoldersOK
  <2> QED
    BY <1>0, <1>1, <1>3, <2>1 DEF Check, FoldersOK
<1>4. CASE Download \/ VerifyDownload
  BY <1>0, <1>1, <1>4 DEF Download, VerifyDownload, FoldersOK
<1>5. CASE BeginUnzip
  BY <1>0, <1>1, <1>5 DEF BeginUnzip, FoldersOK
<1>6. CASE EndUnzip
  <2>1. /\ want \in Jres /\ pc = "unzipping" /\ pc' = "store"
        /\ jre' = [jre EXCEPT ![want] = "whole"]
        /\ UNCHANGED <<hashFile, want, client>>
    BY <1>0, <1>6 DEF EndUnzip, AllEntriesWritten
  <2> QED
    BY <1>0, <1>1, <2>1 DEF FoldersOK
<1>7. CASE StoreHash
  BY <1>0, <1>1, <1>7 DEF StoreHash, FoldersOK
<1>8. CASE GetJava
  BY <1>0, <1>1, <1>8 DEF GetJava, FoldersOK
<1>9. CASE Exit
  BY <1>0, <1>1, <1>9 DEF Exit, Forget, FoldersOK
<1>10. CASE UNCHANGED vars
  BY <1>0, <1>1, <1>10 DEF vars, FoldersOK
<1> QED
  BY <1>0, <1>2, <1>3, <1>4, <1>5, <1>6, <1>7, <1>8, <1>9, <1>10 DEF Next, Install, Kill

(* init and getJava: while nothing fails, every launcher starts the client,  *)
(* and starts it on a whole JRE, whichever releases follow each other.  With *)
(* EventuallyWhole this says that an undisturbed run is enough.              *)
THEOREM UndisturbedIsWhole ==
  ASSUME ZipArchives
  PROVE  Spec => [](faults = 0 /\ readFaults = 0 => pc # "noJava" /\ client # "part")
<1>1. Init => FoldersOK
  BY DEF Init, FoldersOK
<1>2. FoldersOK => (faults = 0 /\ readFaults = 0 => pc # "noJava" /\ client # "part")
  BY DEF FoldersOK, Undisturbed
<1> QED
  BY InitIInv, NextIInv, NextFoldersOK, <1>1, <1>2, PTL DEF Spec
-----------------------------------------------------------------------------
(* unzip: of a .tar.gz file nothing is ever unpacked, whatever is downloaded *)
(* and stored, and a launcher on an old Java never starts a client.  (The    *)
(* run of TrustedIsWhole shows one such history.)                            *)
NothingThere == client = "none" /\ jre = [j \in Jres |-> "none"]

THEOREM TarInstallsNothing ==
  ASSUME ~ZipArchives
  PROVE  Spec => []NothingThere
<1>1. Init => NothingThere
  BY DEF Init, NothingThere
<1>2. TypeOK /\ WantOK /\ NothingThere /\ [Next]_vars => NothingThere'
  <2> SUFFICES ASSUME TypeOK, WantOK, NothingThere, [Next]_vars
               PROVE  client' = "none" /\ jre' = jre
    BY DEF NothingThere
  <2>0. client = "none" /\ (want # Absent => jre[want] = "none")
    BY DEF NothingThere, TypeOK
  <2>1. CASE GetJava
    <3>1. want # Absent
      BY <2>1 DEF GetJava, WantOK
    <3> QED
      BY <2>0, <2>1, <3>1 DEF GetJava, disk
  <2>2. CASE Start \/ Check \/ Download \/ VerifyDownload \/ BeginUnzip \/ EndUnzip \/ StoreHash
    BY <2>0, <2>2 DEF Start, Check, Download, VerifyDownload, BeginUnzip, EndUnzip,
       AllEntriesWritten, StoreHash, disk
  <2>3. CASE Exit \/ Kill \/ UNCHANGED vars
    BY <2>0, <2>3 DEF Exit, Kill, Forget, disk, vars
  <2> QED
    BY <2>1, <2>2, <2>3 DEF Next, Install
<1>3. IInv => TypeOK /\ WantOK
  BY DEF IInv
<1> QED
  BY InitIInv, NextIInv, <1>1, <1>2, <1>3, PTL DEF Spec
=============================================================================
