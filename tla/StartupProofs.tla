--------------------------- MODULE StartupProofs ----------------------------
(***************************************************************************)
(* Theorems about Startup.                                                 *)
(***************************************************************************)
EXTENDS Startup, TLAPS

(* The dialog that is open is the one alreadyOpen stands for.                *)
DialogOK == (alreadyOpen => dialogs = 1) /\ (~alreadyOpen => dialogs = 0)

NoDialogAhead == dialogs = 0 /\ \A i \in 1..Len(queue) : queue[i] # "dialog"

(* A client is only there once main has left its try block, or waits for it. *)
ClientOK == pc \in InTry \cup {"args", "caught"} => client = "none"

(* On a new enough Java nothing is posted before main leaves its try block,  *)
(* and with a client there is no dialog, neither open nor posted.            *)
OrderOK ==
  ~oldJava =>
    /\ pc \in InTry \cup {"args"} => queue = <<>> /\ dialogs = 0 /\ splash # "gone"
    /\ client # "none" => NoDialogAhead

IInv == TypeOK /\ DialogOK /\ ClientOK /\ OrderOK

(* What the posted tasks are after one more was posted, or one was taken.    *)
LEMMA PostTyped ==
  ASSUME NEW q \in Seq(Tasks), NEW t \in Tasks
  PROVE  /\ Append(q, t) \in Seq(Tasks)
         /\ (\A i \in 1..Len(q) : q[i] # "dialog") /\ t # "dialog" =>
              \A i \in 1..Len(Append(q, t)) : Append(q, t)[i] # "dialog"
  OBVIOUS

LEMMA TakeTyped ==
  ASSUME NEW q \in Seq(Tasks), q # <<>>
  PROVE  /\ Tail(q) \in Seq(Tasks)
         /\ (\A i \in 1..Len(q) : q[i] # "dialog") =>
              /\ Head(q) # "dialog"
              /\ \A i \in 1..Len(Tail(q)) : Tail(q)[i] # "dialog"
  OBVIOUS

LEMMA InitIInv == Init => IInv
<1> SUFFICES ASSUME Init PROVE IInv
  OBVIOUS
<1>1. queue \in Seq(Tasks)
  BY DEF Init
<1>2. QED
  BY <1>1 DEF Init, IInv, TypeOK, DialogOK, ClientOK, OrderOK, Steps, InTry, Staging

(* A step of main that has no effect but on pc.                              *)
LEMMA SucceedIInv ==
  ASSUME IInv, NEW s \in InTry \cup {"args"}, NEW t \in Steps \ {"waiting", "exited"},
         Succeed(s, t)
  PROVE  IInv'
  BY DEF IInv, TypeOK, DialogOK, ClientOK, OrderOK, NoDialogAhead, Succeed, Goto,
         NoWindows, windows, Steps, InTry, Staging

(* A failure shown: the task is posted with the return from main.            *)
LEMMA ShowIInv ==
  ASSUME IInv, NEW s \in InTry \cup {"args", "caught"}, NEW t \in {"finally", "done"},
         ShowAndGoto(s, t)
  PROVE  IInv'
<1>1. queue' \in Seq(Tasks)
  BY PostTyped DEF IInv, TypeOK, ShowAndGoto, Post, Tasks
<1>2. QED
  BY <1>1 DEF IInv, TypeOK, DialogOK, ClientOK, OrderOK, NoDialogAhead, ShowAndGoto, Post,
              Goto, Steps, InTry, Staging

LEMMA ExitIInv ==
  ASSUME IInv, Exit
  PROVE  IInv'
  BY DEF IInv, TypeOK, DialogOK, ClientOK, OrderOK, NoDialogAhead, Exit, Goto, NoWindows,
         windows, Steps, InTry, Staging

LEMMA NextIInv == IInv /\ [Next]_vars => IInv'
<1> SUFFICES ASSUME IInv, [Next]_vars
             PROVE  IInv'
  OBVIOUS
<1> USE DEF InTry, Staging, Steps
<1>1. CASE ParseArgs
  BY <1>1, ShowIInv, ExitIInv, SucceedIInv DEF ParseArgs
<1>2. CASE LaunchClasspath \/ InitSplash \/ LaunchReflect \/ LaunchFork \/ LaunchJvm
  BY <1>2 DEF LaunchClasspath, InitSplash, LaunchReflect, LaunchFork, LaunchJvm, Started, IInv, TypeOK, DialogOK, ClientOK,
              OrderOK, NoDialogAhead, Goto, NoWindows, windows
<1>3. CASE PostInstall \/ CheckPermissions \/ MakeRepoDir \/ GetBootstrap
  BY <1>3, ShowIInv, SucceedIInv
     DEF PostInstall, CheckPermissions, MakeRepoDir, GetBootstrap, Fail
<1>4. CASE JvmOutdated \/ Download \/ VerifyJarHashes
  BY <1>4, ShowIInv, SucceedIInv DEF JvmOutdated, Download, VerifyJarHashes, Fail
<1>5. CASE Update
  BY <1>5, SucceedIInv, ExitIInv DEF Update
<1>6. CASE InstallJava
  <2>1. CASE Succeed("java", "repoDir")
    BY <2>1, SucceedIInv
  <2>2. CASE pc = "java" /\ oldJava /\ ShowWindow /\ failed' = TRUE /\ Goto("repoDir")
             /\ UNCHANGED <<oldJava, client, quit>>
    <3>1. queue' \in Seq(Tasks)
      BY <2>2, PostTyped DEF ShowWindow, IInv, TypeOK, Tasks
    <3>2. QED
      BY <2>2, <3>1 DEF ShowWindow, Goto, IInv, TypeOK, DialogOK, ClientOK, OrderOK
  <2>3. QED
    BY <1>6, <2>1, <2>2 DEF InstallJava
<1>7. CASE LaunchAndWait
  <2>1. queue' \in Seq(Tasks) /\ (~oldJava => NoDialogAhead')
    BY <1>7, PostTyped DEF LaunchAndWait, Post, IInv, TypeOK, OrderOK, NoDialogAhead, Tasks
  <2>2. QED
    BY <1>7, <2>1 DEF LaunchAndWait, Post, Goto, IInv, TypeOK, DialogOK, ClientOK, OrderOK
<1>8. CASE ClientEnds
  BY <1>8 DEF ClientEnds, Goto, NoWindows, windows, IInv, TypeOK, DialogOK, ClientOK,
              OrderOK, NoDialogAhead
<1>9. CASE StageThrows \/ Throw
  BY <1>9, SucceedIInv DEF StageThrows, Throw
<1>10. CASE Caught
  BY <1>10, ShowIInv DEF Caught, Fail
<1>11. CASE Finally
  <2>1. queue' \in Seq(Tasks) /\ (NoDialogAhead => NoDialogAhead')
    BY <1>11, PostTyped DEF Finally, Post, IInv, TypeOK, NoDialogAhead, Tasks
  <2>2. QED
    BY <1>11, <2>1 DEF Finally, Post, Goto, IInv, TypeOK, DialogOK, ClientOK, OrderOK
<1>12. CASE OpenDialog
  <2>1. /\ queue \in Seq(Tasks) /\ queue # <<>> /\ Head(queue) = "dialog"
        /\ queue' \in Seq(Tasks)
    BY <1>12, TakeTyped, PostTyped DEF OpenDialog, IInv, TypeOK, Tasks
  <2>2. ~NoDialogAhead
    BY <2>1, TakeTyped DEF NoDialogAhead
  <2>3. ~oldJava => pc \notin InTry \cup {"args"}
    BY <2>1 DEF IInv, OrderOK
  <2>4. ~oldJava => client = "none"
    BY <2>2, Zenon DEF IInv, OrderOK
  <2>5. TypeOK' /\ DialogOK' /\ ClientOK'
    <3>1. CASE ~alreadyOpen /\ alreadyOpen' = TRUE /\ dialogs' = dialogs + 1
      BY <1>12, <2>1, <3>1 DEF OpenDialog, IInv, TypeOK, DialogOK, ClientOK
    <3>2. CASE alreadyOpen' = alreadyOpen /\ dialogs' = dialogs
      BY <1>12, <2>1, <3>2 DEF OpenDialog, IInv, TypeOK, DialogOK, ClientOK
    <3>3. QED
      BY <1>12, <3>1, <3>2 DEF OpenDialog
  <2>6. OrderOK'
    BY <1>12, <2>3, <2>4 DEF OpenDialog, OrderOK
  <2>7. QED
    BY <2>5, <2>6 DEF IInv
<1>13. CASE StopSplash
  <2>1. queue \in Seq(Tasks) /\ queue # <<>> /\ queue' = Tail(queue)
    BY <1>13 DEF StopSplash, IInv, TypeOK
  <2>2. queue' \in Seq(Tasks) /\ (NoDialogAhead => NoDialogAhead')
    BY <1>13, <2>1, TakeTyped DEF StopSplash, NoDialogAhead
  <2>3. QED
    BY <1>13, <2>1, <2>2 DEF StopSplash, IInv, TypeOK, DialogOK, ClientOK, OrderOK
<1>14. CASE CloseWindow
  BY <1>14, ExitIInv DEF CloseWindow
<1>15. CASE UNCHANGED vars
  BY <1>15 DEF vars, windows, IInv, TypeOK, DialogOK, ClientOK, OrderOK, NoDialogAhead
<1>16. QED
  BY <1>1, <1>2, <1>3, <1>4, <1>5, <1>6, <1>7, <1>8, <1>9, <1>10, <1>11, <1>12, <1>13,
     <1>14, <1>15 DEF Next, MainStep, EventDispatch

(* Every variable keeps its type, and a client inside this process is only   *)
(* there while the process is.                                               *)
THEOREM StartupTypeCorrect == Spec => []TypeOK
<1>1. IInv => TypeOK
  BY DEF IInv
<1>2. QED
  BY InitIInv, NextIInv, <1>1, PTL DEF Spec

(* alreadyOpen keeps the second of two fatal errors from opening a dialog,   *)
(* on whichever thread they are shown.                                       *)
THEOREM OneDialogSafe == Spec => []OneDialog
<1>1. IInv => OneDialog
  BY DEF IInv, DialogOK, OneDialog
<1>2. QED
  BY InitIInv, NextIInv, <1>1, PTL DEF Spec

(* Unless the JVM is older than 11, no client runs besides the dialog for a  *)
(* fatal error.                                                              *)
THEOREM FatalMeansFatalSafe == Spec => []FatalMeansFatal
<1>1. IInv => FatalMeansFatal
  BY DEF IInv, TypeOK, OrderOK, NoDialogAhead, FatalMeansFatal
<1>2. QED
  BY InitIInv, NextIInv, <1>1, PTL DEF Spec

(* Unless the JVM is older than 11, main finds the splash screen whenever it *)
(* reports its progress, if there ever was one.                              *)
THEOREM StageFindsSplashSafe == Spec => []StageFindsSplash
<1>1. IInv => StageFindsSplash
  BY DEF IInv, OrderOK, StageFindsSplash, InTry
<1>2. QED
  BY InitIInv, NextIInv, <1>1, PTL DEF Spec
-----------------------------------------------------------------------------
(* Until the splash screen is made, nothing has been posted or shown.        *)
BeforeSplash ==
  pc \in {"args", "classpath", "postinstall", "splash"} =>
    /\ queue = <<>> /\ dialogs = 0 /\ splash = "none" /\ ~failed

OwedInv == IInv /\ BeforeSplash /\ NothingForgotten

(* Posting adds a task, taking one removes no other.                         *)
LEMMA PostedAppend ==
  ASSUME NEW q \in Seq(Tasks), NEW t \in Tasks, NEW u
  PROVE  (\E i \in DOMAIN Append(q, t) : Append(q, t)[i] = u)
           <=> (u = t \/ \E i \in DOMAIN q : q[i] = u)
<1>1. DOMAIN Append(q, t) = 1..(Len(q) + 1) /\ DOMAIN q = 1..Len(q) /\ Len(q) \in Nat
  OBVIOUS
<1>2. \A i \in 1..Len(q) : Append(q, t)[i] = q[i]
  OBVIOUS
<1>3. Append(q, t)[Len(q) + 1] = t
  OBVIOUS
<1> QED
  BY <1>1, <1>2, <1>3

LEMMA PostedTail ==
  ASSUME NEW q \in Seq(Tasks), q # <<>>, NEW u, Head(q) # u, \E i \in DOMAIN q : q[i] = u
  PROVE  \E i \in DOMAIN Tail(q) : Tail(q)[i] = u
<1>1. PICK i \in 1..Len(q) : q[i] = u
  OBVIOUS
<1>2. i # 1 /\ Len(q) \in Nat
  BY <1>1
<1>3. Tail(q) \in Seq(Tasks) /\ Len(Tail(q)) = Len(q) - 1
  OBVIOUS
<1>4. i - 1 \in DOMAIN Tail(q)
  BY <1>1, <1>2, <1>3
<1>5. Tail(q)[i - 1] = u
  BY <1>1, <1>2, <1>4
<1> QED
  BY <1>4, <1>5

(* Nothing changes but pc, which does not get to its end.                    *)
LEMMA SucceedOwed ==
  ASSUME OwedInv, NEW s, NEW t \in Steps \ {"waiting", "args", "classpath", "postinstall", "splash"},
         Succeed(s, t), t = "done" => s = "args"
  PROVE  BeforeSplash' /\ NothingForgotten'
  BY DEF OwedInv, BeforeSplash, NothingForgotten, Posted, Succeed, Goto, NoWindows, windows

LEMMA ShowOwed ==
  ASSUME OwedInv, NEW s, NEW t \in {"finally", "done"},
         ShowAndGoto(s, t), t = "done" => s = "args"
  PROVE  BeforeSplash' /\ NothingForgotten'
<1>1. queue \in Seq(Tasks) /\ queue' = Append(queue, "dialog")
  BY DEF OwedInv, IInv, TypeOK, ShowAndGoto, Post
<1>2. Posted("dialog")' /\ (Posted("stop") => Posted("stop")')
  BY <1>1, PostedAppend DEF Posted, Tasks
<1> QED
  BY <1>2 DEF OwedInv, BeforeSplash, NothingForgotten, ShowAndGoto, Post, Goto

LEMMA ExitOwed ==
  ASSUME OwedInv, Exit
  PROVE  BeforeSplash' /\ NothingForgotten'
  BY DEF BeforeSplash, NothingForgotten, Exit, Goto

LEMMA OwedNext == OwedInv /\ [Next]_vars => OwedInv'
<1> SUFFICES ASSUME OwedInv, [Next]_vars
             PROVE  BeforeSplash' /\ NothingForgotten'
  BY NextIInv DEF OwedInv
<1>0. queue \in Seq(Tasks) /\ pc \in Steps /\ dialogs \in Nat /\ quit \in BOOLEAN
  BY DEF OwedInv, IInv, TypeOK
<1>1. CASE ParseArgs
  <2>1. CASE \E next \in {"classpath", "postinstall", "splash"} : Succeed("args", next)
    BY <2>1 DEF OwedInv, BeforeSplash, NothingForgotten, Succeed, Goto, NoWindows, windows
  <2>2. CASE Succeed("args", "done")
    BY <2>2, SucceedOwed DEF Steps
  <2> QED
    BY <1>1, <2>1, <2>2, ShowOwed, ExitOwed DEF ParseArgs
<1>2. CASE LaunchClasspath \/ LaunchReflect \/ LaunchFork \/ LaunchJvm
  BY <1>2 DEF LaunchClasspath, LaunchReflect, LaunchFork, LaunchJvm, Started, Goto, NoWindows,
     windows, OwedInv, BeforeSplash, NothingForgotten, Posted
<1>3. CASE InitSplash
  BY <1>3 DEF InitSplash, Goto, OwedInv, BeforeSplash, NothingForgotten, Posted
<1>4. CASE PostInstall \/ CheckPermissions \/ MakeRepoDir \/ GetBootstrap
  BY <1>4, ShowOwed, SucceedOwed
     DEF PostInstall, CheckPermissions, MakeRepoDir, GetBootstrap, Fail, Steps, InTry, Staging
<1>5. CASE JvmOutdated \/ Download \/ VerifyJarHashes
  BY <1>5, ShowOwed, SucceedOwed
     DEF JvmOutdated, Download, VerifyJarHashes, Fail, Steps, InTry, Staging
<1>6. CASE Update
  BY <1>6, SucceedOwed, ExitOwed DEF Update, Steps, InTry, Staging
<1>7. CASE InstallJava
  <2>1. CASE Succeed("java", "repoDir")
    BY <2>1, SucceedOwed DEF Steps, InTry
  <2>2. CASE pc = "java" /\ oldJava /\ ShowWindow /\ failed' = TRUE /\ Goto("repoDir")
             /\ UNCHANGED <<oldJava, client, quit>>
    <3>1. queue' = Append(queue, "stop") /\ dialogs' > 0
      BY <1>0, <2>2 DEF ShowWindow
    <3>2. Posted("stop")'
      BY <1>0, <3>1, PostedAppend DEF Posted, Tasks
    <3> QED
      BY <2>2, <3>1, <3>2 DEF Goto, BeforeSplash, NothingForgotten
  <2> QED
    BY <1>7, <2>1, <2>2 DEF InstallJava
<1>8. CASE LaunchAndWait \/ Finally
  <2>1. queue' = Append(queue, "stop") /\ UNCHANGED <<splash, dialogs, failed, quit>>
        /\ pc' \in {"waiting", "done"}
    BY <1>8 DEF LaunchAndWait, Finally, Post, Goto
  <2>2. Posted("stop")' /\ (Posted("dialog") => Posted("dialog")')
    BY <1>0, <2>1, PostedAppend DEF Posted, Tasks
  <2> QED
    BY <2>1, <2>2 DEF OwedInv, BeforeSplash, NothingForgotten
<1>9. CASE ClientEnds
  BY <1>9 DEF ClientEnds, Goto, NoWindows, windows, OwedInv, BeforeSplash, NothingForgotten, Posted
<1>10. CASE StageThrows \/ Throw
  BY <1>10, SucceedOwed DEF StageThrows, Throw, Steps
<1>11. CASE Caught
  BY <1>11, ShowOwed DEF Caught, Fail
<1>12. CASE OpenDialog
  <2>0. /\ queue # <<>> /\ Head(queue) = "dialog" /\ Tail(queue) \in Seq(Tasks)
        /\ UNCHANGED <<splash, pc, failed, quit>>
    BY <1>0, <1>12 DEF OpenDialog
  <2>1. pc \notin {"args", "classpath", "postinstall", "splash"}
    BY <2>0 DEF OwedInv, BeforeSplash
  <2>2. CASE dialogs' = dialogs + 1 /\ queue' = Append(Tail(queue), "stop")
    <3>1. dialogs' > 0
      BY <1>0, <2>2
    <3>2. Posted("stop")'
      BY <2>0, <2>2, PostedAppend DEF Posted, Tasks
    <3> QED
      BY <2>0, <2>1, <3>1, <3>2 DEF BeforeSplash, NothingForgotten
  <2>3. CASE alreadyOpen /\ queue' = Tail(queue) /\ dialogs' = dialogs
    <3>1. dialogs > 0
      BY <2>3 DEF OwedInv, IInv, DialogOK
    <3>2. Posted("stop") => Posted("stop")'
      BY <1>0, <2>0, <2>3, PostedTail DEF Posted
    <3> QED
      BY <2>0, <2>1, <2>3, <3>1, <3>2 DEF OwedInv, BeforeSplash, NothingForgotten
  <2> QED
    BY <1>12, <2>2, <2>3 DEF OpenDialog
<1>13. CASE StopSplash
  <2>1. /\ queue # <<>> /\ Head(queue) = "stop" /\ queue' = Tail(queue)
        /\ splash' # "shown" /\ UNCHANGED <<pc, dialogs, failed, quit>>
    BY <1>13 DEF StopSplash
  <2>2. pc \notin {"args", "classpath", "postinstall", "splash"}
    BY <2>1 DEF OwedInv, BeforeSplash
  <2>3. Posted("dialog") => Posted("dialog")'
    BY <1>0, <2>1, PostedTail DEF Posted
  <2> QED
    BY <2>1, <2>2, <2>3 DEF OwedInv, BeforeSplash, NothingForgotten
<1>14. CASE CloseWindow
  BY <1>14, ExitOwed DEF CloseWindow
<1>15. CASE UNCHANGED vars
  BY <1>15 DEF vars, windows, OwedInv, BeforeSplash, NothingForgotten, Posted
<1> QED
  BY <1>1, <1>2, <1>3, <1>4, <1>5, <1>6, <1>7, <1>8, <1>9, <1>10, <1>11, <1>12, <1>13,
     <1>14, <1>15 DEF Next, MainStep, EventDispatch

(* A failure not yet on the screen and a splash screen that has to go wait   *)
(* in the queue of the event dispatch thread, however the two threads        *)
(* interleave: the safety half of FailureShown and SplashGoes, which leaves  *)
(* only that the event dispatch thread gets to the end of its queue.         *)
THEOREM NothingForgottenSafe == Spec => []NothingForgotten
<1>1. Init => OwedInv
  BY InitIInv DEF Init, OwedInv, BeforeSplash, NothingForgotten
<1>2. OwedInv => NothingForgotten
  BY DEF OwedInv
<1> QED
  BY <1>1, OwedNext, <1>2, PTL DEF Spec
=============================================================================
