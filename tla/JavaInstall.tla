---------------------------- MODULE JavaInstall -----------------------------
(***************************************************************************)
(* JavaInstaller: on a JVM older than 11 the launcher downloads a JRE of   *)
(* its own and starts the client on it.  On disk there are java.zip,       *)
(* java_hash.txt with the checksum of the zip that was last unpacked, and  *)
(* one folder per JRE version.  Each launcher release names one JRE        *)
(* (java_versions.properties); contents and checksums stand for it.        *)
(*                                                                         *)
(* One launcher process at a time, killed and started again at will.       *)
(***************************************************************************)
EXTENDS Integers

CONSTANTS
  LastJre,        \* the JREs that successive launcher releases ask for are 1..LastJre
  ZipArchives,    \* are they zip files?  (on Windows; elsewhere they are .tar.gz files)
  Downgrades,     \* may the user go back to an older launcher release?
  MaxFaults,      \* bound: downloads, writes and unpacking that fail, and kills
  MaxReadFaults   \* bound: java.zip or java_hash.txt cannot be read for a moment

Absent == 0
Garbage == -1     \* a content that no release asks for

Jres == 1..LastJre

ASSUME JavaInstallAssumption ==
  /\ LastJre \in Nat \ {0}
  /\ ZipArchives \in BOOLEAN /\ Downgrades \in BOOLEAN
  /\ MaxFaults \in Nat /\ MaxReadFaults \in Nat

VARIABLES
  zip,       \* java.zip
  hashFile,  \* java_hash.txt
  jre,       \* the JRE folders: "none", "part" or "whole"
  pc,        \* what the launcher is doing
  want,      \* the JRE its release asks for
  client,    \* the JRE folder as the client found it
  faults, readFaults,
  latest,    \* history: the newest release started
  unpacked   \* history: the JREs that were once unpacked completely

disk == <<zip, hashFile, jre>>
vars == <<disk, pc, want, client, faults, readFaults, latest, unpacked>>

Steps == {"off", "check", "download", "verify", "unzip", "unzipping", "store",
          "getJava", "launched", "noJava"}

Goto(s) == pc' = s

Fault == faults < MaxFaults /\ faults' = faults + 1 /\ UNCHANGED readFaults
ReadFault ==
  readFaults < MaxReadFaults /\ readFaults' = readFaults + 1 /\ UNCHANGED faults
NoFault == UNCHANGED <<faults, readFaults>>

Init ==
  /\ zip = Absent /\ hashFile = Absent
  /\ jre = [j \in Jres |-> "none"]
  /\ pc = "off" /\ want = Absent
  /\ client = "none"
  /\ faults = 0 /\ readFaults = 0
  /\ latest = 1 /\ unpacked = {}

Start ==
  /\ pc = "off"
  /\ \E j \in Jres :
       /\ Downgrades \/ j >= latest
       /\ want' = j
       /\ latest' = IF j > latest THEN j ELSE latest
  /\ Goto("check")
  /\ UNCHANGED <<disk, client, unpacked>> /\ NoFault

(* What "already downloaded and hash matches" means on disk.                 *)
Trusted(j) == zip = j /\ hashFile = j

(* Mutant of Check: the zip is enough.                                       *)
CheckZipOnly ==
  /\ pc = "check"
  /\ Goto(IF zip = want THEN "getJava" ELSE "download") /\ NoFault
  /\ UNCHANGED <<disk, want, client, latest, unpacked>>

(* "Check if Java is already downloaded and hash matches".  A file that      *)
(* cannot be read counts as one that does not match.                         *)
Check ==
  /\ pc = "check"
  /\ \/ Trusted(want) /\ Goto("getJava") /\ NoFault
     \/ ~Trusted(want) /\ Goto("download") /\ NoFault
     \/ Trusted(want) /\ Goto("download") /\ ReadFault
  /\ UNCHANGED <<disk, want, client, latest, unpacked>>

(* downloadFile: java.zip is emptied once the server has answered, and       *)
(* written in place.  Any IOException ends the installation, and main goes   *)
(* on without it.                                                            *)
Download ==
  /\ pc = "download"
  /\ \/ zip' = Garbage /\ Goto("verify") /\ NoFault
     \/ UNCHANGED zip /\ Goto("getJava") /\ Fault
  /\ UNCHANGED <<hashFile, jre, want, client, latest, unpacked>>

(* Mutant of VerifyDownload: the checksum is stored before the zip is unpacked. *)
StoreEarly ==
  /\ pc = "verify"
  /\ \/ zip' = want /\ hashFile' = want /\ Goto("unzip") /\ NoFault
     \/ zip' \in {Garbage, Absent} /\ UNCHANGED hashFile /\ Goto("getJava") /\ Fault
  /\ UNCHANGED <<jre, want, client, latest, unpacked>>

(* The last byte has arrived, or none; then the checksum.  A zip that does   *)
(* not match, or cannot be read, is deleted.                                 *)
VerifyDownload ==
  /\ pc = "verify"
  /\ \/ zip' = want /\ Goto("unzip") /\ NoFault
     \/ zip' \in {Garbage, Absent} /\ Goto("getJava") /\ Fault
     \/ zip' = Absent /\ Goto("getJava") /\ ReadFault
  /\ UNCHANGED <<hashFile, jre, want, client, latest, unpacked>>

(* unzip rewrites the files of the folder one after the other, also when     *)
(* they are there already.  To a ZipInputStream a .tar.gz file is one without *)
(* entries: nothing is written and nothing fails.                            *)
BeginUnzip ==
  /\ pc = "unzip"
  /\ jre' = IF ZipArchives THEN [jre EXCEPT ![want] = "part"] ELSE jre
  /\ Goto("unzipping") /\ NoFault
  /\ UNCHANGED <<zip, hashFile, want, client, latest, unpacked>>

AllEntriesWritten ==
  IF ZipArchives
  THEN jre' = [jre EXCEPT ![want] = "whole"] /\ unpacked' = unpacked \cup {want}
  ELSE UNCHANGED <<jre, unpacked>>

(* Mutant of EndUnzip: a failure does not keep the checksum from being stored. *)
StoreAnyway ==
  /\ pc = "unzipping"
  /\ \/ AllEntriesWritten /\ NoFault
     \/ UNCHANGED <<jre, unpacked>> /\ Fault
  /\ Goto("store")
  /\ UNCHANGED <<zip, hashFile, want, client, latest>>

(* The last file is complete; or unpacking failed half way; or the walk over *)
(* the unpacked files failed (processFiles).                                 *)
EndUnzip ==
  /\ pc = "unzipping"
  /\ \/ AllEntriesWritten /\ Goto("store") /\ NoFault
     \/ UNCHANGED <<jre, unpacked>> /\ Goto("getJava") /\ Fault
     \/ AllEntriesWritten /\ Goto("getJava") /\ Fault
  /\ UNCHANGED <<zip, hashFile, want, client, latest>>

(* storeLocalHash: emptied, then written; a failure is only printed.         *)
StoreHash ==
  /\ pc = "store"
  /\ \/ hashFile' = want /\ NoFault
     \/ hashFile' \in {hashFile, Absent} /\ Fault
  /\ Goto("getJava")
  /\ UNCHANGED <<zip, jre, want, client, latest, unpacked>>

(* Mutant of GetJava: the executable is not looked for.                      *)
GetJavaBlindly ==
  /\ pc = "getJava" /\ Goto("launched") /\ client' = jre[want]
  /\ UNCHANGED <<disk, want, latest, unpacked>> /\ NoFault

(* JvmLauncher.getJava: the client is started if there is a java executable  *)
(* in the folder, which a half unpacked JRE may have; otherwise launch       *)
(* returns and nothing more happens.                                         *)
GetJava ==
  /\ pc = "getJava"
  /\ \/ jre[want] # "none" /\ Goto("launched") /\ client' = jre[want]
     \/ jre[want] # "whole" /\ Goto("noJava") /\ UNCHANGED client
  /\ UNCHANGED <<disk, want, latest, unpacked>> /\ NoFault

Forget == Goto("off") /\ want' = Absent /\ client' = "none" /\ UNCHANGED <<latest, unpacked>>

Exit == pc \in {"launched", "noJava"} /\ Forget /\ UNCHANGED disk /\ NoFault

(* A kill while java_hash.txt is being written may leave it empty.           *)
Kill ==
  /\ pc \notin {"off", "launched", "noJava"}
  /\ hashFile' \in IF pc = "store" THEN {hashFile, Absent} ELSE {hashFile}
  /\ UNCHANGED <<zip, jre>>
  /\ Forget /\ Fault

Install ==
  Check \/ Download \/ VerifyDownload \/ BeginUnzip \/ EndUnzip \/ StoreHash \/ GetJava

Next == Start \/ Install \/ Exit \/ Kill

Spec == Init /\ [][Next]_vars

(* The launcher goes on and the user starts it again.                        *)
FairSpec == Spec /\ WF_vars(Start \/ Install \/ Exit)
-----------------------------------------------------------------------------
TypeOK ==
  /\ zip \in Jres \cup {Absent, Garbage}
  /\ hashFile \in Jres \cup {Absent}
  /\ jre \in [Jres -> {"none", "part", "whole"}]
  /\ pc \in Steps
  /\ want \in Jres \cup {Absent}
  /\ client \in {"none", "part", "whole"} /\ (pc = "launched" <=> client # "none")
  /\ faults \in Nat /\ readFaults \in Nat
  /\ latest \in Jres
  /\ unpacked \subseteq Jres

(* "Check if Java is already downloaded and hash matches" and "Unzip and      *)
(* install Java" (init): when zip and java_hash.txt match, the JRE that is   *)
(* taken as installed is there as a whole, whatever downloads, unpackings    *)
(* and launchers were interrupted before.                                    *)
TrustedIsWhole == pc = "check" /\ Trusted(want) => jre[want] = "whole"

(* The same, for launchers that could always read their files: a zip that is *)
(* unpacked is then one that java_hash.txt does not name yet.                *)
ReadableIsWhole == readFaults = 0 => TrustedIsWhole

(* java_hash.txt names a JRE only after that JRE was unpacked completely     *)
(* (storeLocalHash comes last).                                              *)
HashAfterUnzip == hashFile # Absent => hashFile \in unpacked

(* A user who keeps starting the launcher gets the client on a whole JRE,    *)
(* whatever failures and kills left on disk, unless a file that was in order *)
(* could not be read.                                                        *)
EventuallyWhole == [](readFaults = 0) => <>(pc = "launched" /\ client = "whole")
=============================================================================
