------------------------------ MODULE Startup -------------------------------
(***************************************************************************)
(* One launcher process from main() to its end: the main thread, the event *)
(* dispatch thread with its queue of tasks, the splash screen, the dialog  *)
(* for fatal errors, and the user who may close either window.  What the   *)
(* steps of main do is in the other modules; here each of them succeeds,   *)
(* fails the way its callers handle, or throws.                            *)
(***************************************************************************)
EXTENDS Naturals, Sequences

VARIABLES
  pc,           \* what the main thread is about to do
  oldJava,      \* is this JVM older than 11?
  splash,       \* SplashScreen.INSTANCE: never there ("none"), "shown", or null again ("gone")
  queue,        \* tasks posted with SwingUtilities.invokeLater
  alreadyOpen,  \* FatalErrorDialog.alreadyOpen
  dialogs,      \* FatalErrorDialogs the user sees
  client,       \* "none", "inside" this process (ReflectionLauncher), a "process" of its own
  failed,       \* history: has main met a failure that it means to show?
  quit          \* history: did the process end on purpose?

windows == <<splash, queue, alreadyOpen, dialogs>>
vars == <<pc, oldJava, windows, client, failed, quit>>

(* Steps between which main calls SplashScreen.stage, ... *)
Staging == {"bootstrap", "update", "versions", "download", "verify", "launch"}

(* ... steps inside main's try block, and all of them.                       *)
InTry == Staging \cup {"classpath", "postinstall", "splash", "permissions", "java", "repoDir"}

Steps == InTry \cup {"args", "waiting", "caught", "finally", "done", "exited"}

(* To open a FatalErrorDialog, for a failure of the network the one that     *)
(* showNetErrorWindow picks; and to stop the splash screen.                  *)
Tasks == {"dialog", "stop"}

Goto(s) == pc' = s
Post(task) == queue' = Append(queue, task) /\ UNCHANGED <<splash, alreadyOpen, dialogs>>
NoWindows == UNCHANGED windows

ShowAndGoto(s, next) ==
  pc = s /\ Post("dialog") /\ Goto(next) /\ failed' = TRUE /\ UNCHANGED <<oldJava, client, quit>>

(* A failure that main handles: post the dialog, return.                     *)
Fail(s) == ShowAndGoto(s, "finally")

Succeed(s, next) ==
  pc = s /\ Goto(next) /\ NoWindows /\ UNCHANGED <<oldJava, client, failed, quit>>

\* Mutant of Exit: a client in this process outlives it.
ExitAlone ==
  Goto("exited") /\ quit' = TRUE /\ NoWindows /\ UNCHANGED <<oldJava, client, failed>>

(* System.exit: a client inside this process ends with it.                   *)
Exit ==
  /\ Goto("exited") /\ quit' = TRUE
  /\ client' = IF client = "inside" THEN "none" ELSE client
  /\ NoWindows /\ UNCHANGED <<oldJava, failed>>

Init ==
  /\ pc = "args"
  /\ oldJava \in BOOLEAN
  /\ splash = "none" /\ queue = <<>>
  /\ alreadyOpen = FALSE /\ dialogs = 0
  /\ client = "none"
  /\ failed = FALSE /\ quit = FALSE
-----------------------------------------------------------------------------
(* parseArgs, before the try block: an unknown value is shown and thrown out *)
(* of main; --help exits; --configure leaves main to the window it opens.    *)
ParseArgs ==
  \/ ShowAndGoto("args", "done")
  \/ pc = "args" /\ Exit
  \/ \E next \in {"done", "classpath", "postinstall", "splash"} : Succeed("args", next)

(* The child of ForkLauncher (--classpath): errors are only logged.          *)
LaunchClasspath ==
  /\ pc = "classpath"
  /\ client' \in {"none", "inside"} /\ Goto("finally")
  /\ NoWindows /\ UNCHANGED <<oldJava, failed, quit>>

PostInstall == Succeed("postinstall", "finally")

(* invokeAndWait; a splash screen that cannot be made is done without.       *)
InitSplash ==
  /\ pc = "splash" /\ splash' \in {"none", "shown"} /\ Goto("permissions")
  /\ UNCHANGED <<queue, alreadyOpen, dialogs, oldJava, client, failed, quit>>

CheckPermissions == Succeed("permissions", "java") \/ Fail("permissions")

(* FatalErrorDialog.showWindow on the main thread: the dialog is there at    *)
(* once, and stop is posted.                                                 *)
ShowWindow ==
  /\ ~alreadyOpen /\ alreadyOpen' = TRUE /\ dialogs' = dialogs + 1
  /\ queue' = Append(queue, "stop") /\ UNCHANGED splash

(* JavaInstaller.init: whatever goes wrong, with a dialog or without, main   *)
(* goes on.                                                                  *)
InstallJava ==
  \/ Succeed("java", "repoDir")
  \/ /\ pc = "java" /\ oldJava /\ ShowWindow /\ failed' = TRUE /\ Goto("repoDir")
     /\ UNCHANGED <<oldJava, client, quit>>

MakeRepoDir == Succeed("repoDir", "bootstrap") \/ Fail("repoDir")

GetBootstrap == Succeed("bootstrap", "update") \/ Fail("bootstrap")

(* Updater.update: done, or this process makes room for the next version.    *)
Update == Succeed("update", "versions") \/ (pc = "update" /\ Exit)

\* Mutant of JvmOutdated: main does not return.
OutdatedGoesOn == Succeed("versions", "download") \/ ShowAndGoto("versions", "download")

JvmOutdated == Succeed("versions", "download") \/ Fail("versions")

Download == Succeed("download", "verify") \/ Fail("download")

\* Mutant of VerifyJarHashes: main does not return.
VerifyGoesOn == Succeed("verify", "launch") \/ ShowAndGoto("verify", "launch")

VerifyJarHashes == Succeed("verify", "launch") \/ Fail("verify")

Started(place) ==
  /\ pc = "launch" /\ client' = place
  /\ NoWindows /\ UNCHANGED <<oldJava, failed, quit>>

(* A thread of this process runs the client's main.                          *)
LaunchReflect == Started("inside") /\ Goto("finally")

(* Another launcher is started, which runs the client on --classpath.        *)
LaunchFork == Started("process") /\ Goto("finally")

(* A java process is started; without a java executable that is only logged. *)
LaunchJvm == (Started("process") \/ Started("none")) /\ Goto("finally")

\* Mutant of LaunchAndWait: the splash screen is left to main's finally block.
WaitWithSplash == Started("process") /\ Goto("waiting")

(* JvmLauncher in debug mode: stop, then wait for the client to end.         *)
LaunchAndWait ==
  /\ pc = "launch" /\ Goto("waiting")
  /\ client' = "process" /\ Post("stop")
  /\ UNCHANGED <<oldJava, failed, quit>>

ClientEnds ==
  /\ pc = "waiting" /\ Goto("finally") /\ client' = "none"
  /\ NoWindows /\ UNCHANGED <<oldJava, failed, quit>>
-----------------------------------------------------------------------------
(* stage() reads INSTANCE once to compare it and again to use it, without    *)
(* synchronization: after stop has run it may see the splash screen first    *)
(* and null then.                                                            *)
StageThrows == pc \in Staging /\ splash = "gone" /\ Succeed(pc, "caught")

(* Any other exception, or an Error, which main logs and throws on; after    *)
(* --postinstall exceptions are only logged as well.                         *)
Throw ==
  /\ pc \in InTry
  /\ Succeed(pc, "finally") \/ (pc # "postinstall" /\ Succeed(pc, "caught"))

\* Mutant of Caught: the exception is only logged.
CaughtSilently ==
  /\ pc = "caught" /\ Goto("finally") /\ failed' = TRUE
  /\ NoWindows /\ UNCHANGED <<oldJava, client, quit>>

Caught == Fail("caught")

Finally ==
  /\ pc = "finally" /\ Post("stop") /\ Goto("done")
  /\ UNCHANGED <<oldJava, client, failed, quit>>

MainStep ==
  \/ ParseArgs \/ LaunchClasspath \/ PostInstall \/ InitSplash \/ CheckPermissions
  \/ InstallJava \/ MakeRepoDir \/ GetBootstrap \/ Update \/ JvmOutdated
  \/ Download \/ VerifyJarHashes
  \/ LaunchReflect \/ LaunchFork \/ LaunchJvm \/ LaunchAndWait
  \/ StageThrows \/ Throw \/ Caught \/ Finally
-----------------------------------------------------------------------------
\* Mutant of OpenDialog: every FatalErrorDialog is opened.
OpenAnyDialog ==
  /\ pc # "exited" /\ queue # <<>> /\ Head(queue) = "dialog"
  /\ alreadyOpen' = TRUE /\ dialogs' = dialogs + 1
  /\ queue' = Append(Tail(queue), "stop")
  /\ UNCHANGED <<splash, pc, oldJava, client, failed, quit>>

(* new FatalErrorDialog(...).open() on the event dispatch thread; the second *)
(* one throws ("Fatal error during fatal error"), which ends the task.       *)
OpenDialog ==
  /\ pc # "exited" /\ queue # <<>> /\ Head(queue) = "dialog"
  /\ \/ ~alreadyOpen /\ alreadyOpen' = TRUE /\ dialogs' = dialogs + 1
        /\ queue' = Append(Tail(queue), "stop")
     \/ alreadyOpen /\ queue' = Tail(queue) /\ UNCHANGED <<alreadyOpen, dialogs>>
  /\ UNCHANGED <<splash, pc, oldJava, client, failed, quit>>

StopSplash ==
  /\ pc # "exited" /\ queue # <<>> /\ Head(queue) = "stop"
  /\ queue' = Tail(queue)
  /\ splash' = IF splash = "shown" THEN "gone" ELSE splash
  /\ UNCHANGED <<alreadyOpen, dialogs, pc, oldJava, client, failed, quit>>

EventDispatch == OpenDialog \/ StopSplash

(* The splash screen is EXIT_ON_CLOSE, and the dialog exits when closed.     *)
CloseWindow == pc # "exited" /\ (splash = "shown" \/ dialogs > 0) /\ Exit

Next == MainStep \/ ClientEnds \/ EventDispatch \/ CloseWindow

Spec == Init /\ [][Next]_vars

(* Both threads go on; the client may run, and the windows stay, for ever.   *)
FairSpec == Spec /\ WF_vars(MainStep) /\ WF_vars(EventDispatch)
-----------------------------------------------------------------------------
(* A client inside this process is only there while the process is.          *)
TypeOK ==
  /\ pc \in Steps
  /\ oldJava \in BOOLEAN
  /\ splash \in {"none", "shown", "gone"}
  /\ queue \in Seq(Tasks)
  /\ alreadyOpen \in BOOLEAN
  /\ dialogs \in Nat
  /\ client \in {"none", "inside", "process"}
  /\ client = "inside" => pc # "exited"
  /\ failed \in BOOLEAN /\ quit \in BOOLEAN

(* At most one dialog, however many failures follow each other on the two    *)
(* threads: alreadyOpen.                                                     *)
OneDialog == dialogs <= 1

(* "There was a fatal error starting": no client is started by a launcher    *)
(* that says so.  On an old Java it is, after JavaInstaller has shown its    *)
(* dialog.                                                                   *)
FatalMeansFatal == dialogs > 0 /\ client # "none" => oldJava

(* While main still reports its progress, nobody has taken the splash screen *)
(* away, so that stage() does not fail; again except on an old Java.         *)
StageFindsSplash == pc \in Staging /\ splash = "gone" => oldJava

Posted(task) == \E i \in DOMAIN queue : queue[i] = task

(* Nothing owed to the user is forgotten in between: a failure that is not   *)
(* on the screen yet waits in the queue of the event dispatch thread, and so *)
(* does the end of the splash screen once main is through or waits for a     *)
(* client, or a dialog is open - in whatever order the two threads get there *)
(* and whichever dialog came first.                                          *)
NothingForgotten ==
  ~quit =>
    /\ failed => dialogs > 0 \/ Posted("dialog")
    /\ splash = "shown" /\ (pc \in {"done", "waiting"} \/ dialogs > 0) => Posted("stop")

(* A failure that main handles or catches is shown to the user in the end,   *)
(* whichever dialog is open by then, unless the user closed the launcher.    *)
FailureShown == failed ~> (dialogs > 0 \/ quit)

(* The splash screen goes away for good: after the launch, after a failure,  *)
(* and while main waits for a client.                                        *)
SplashGoes == <>[](splash # "shown" \/ quit)
=============================================================================
