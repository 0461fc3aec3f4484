---------------------------- MODULE MCClientLaunch ----------------------------
(***************************************************************************)
(* ClientLaunch for TLC: the ways the launcher is run.  Only Linux has     *)
(* AppImages; only java sets sun.java.command to a jar, and only somebody  *)
(* who puts it into config.json sets it to the native executable.          *)
(***************************************************************************)
EXTENDS ClientLaunch, SequencesExt

MCTypable == {"-J", "--", "--help", "--debug", "--classpath", "-Dx", "word", "uri",
              "jars", "-psn"}

(* up to three words of any kind; four are needed to give a value twice *)
MCLines ==
  SeqOf(MCTypable, 3) \cup SeqOf({"-J", "--classpath", "jars"}, 4)
OneWord == SeqOf(MCTypable, 1)

MCPlaces ==
  LET Run(packr, os, appimage, command, saved) ==
        {[packr |-> packr, os |-> os, appimage |-> appimage, command |-> command,
          mode |-> m, saved |-> saved, broken |-> FALSE] : m \in LaunchModes}
      packr == Run(TRUE, "Windows", FALSE, "none", {})
      java  == Run(FALSE, "Windows", FALSE, "jar", Saveable)
  IN  packr \cup java
        \cup Run(TRUE, "Windows", FALSE, "launcher", {"jvm", "safemode"})
        \cup Run(TRUE, "MacOS", FALSE, "none", {"args", "debug", "ipv4"})
        \cup Run(TRUE, "Linux", TRUE, "none", {"args"})
        \cup Run(FALSE, "Linux", FALSE, "jar", {"debug"})
        \cup {[p EXCEPT !.broken = TRUE] : p \in {q \in packr \cup java : q.mode = "JVM"}}
=============================================================================
