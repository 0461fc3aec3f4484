----------------------------- MODULE ClientLaunch -----------------------------
(***************************************************************************)
(* The way of a command line: from the shell through the native executable *)
(* (packr.cpp), into Launcher.main, through one of the three client        *)
(* launchers, and with ForkLauncher once more through the native           *)
(* executable.  Each of the two parsers takes some of the words for itself *)
(* and hands on the rest.                                                  *)
(*                                                                         *)
(* A word of a command line is one of the strings below: options that one  *)
(* of the parsers knows, "-Dx" and "word" for everything else that does or *)
(* does not begin with a dash, "uri" for a runelite-jav:// address, "jars" *)
(* for a class path of the client's jars, and "-psn" for the number that   *)
(* macOS gives to a process.                                               *)
(***************************************************************************)
EXTENDS Naturals, Sequences, FiniteSets

CONSTANTS
  Lines,      \* bound: the lines a user may type, behind -c or not
  Places      \* how the launcher may be run (records, see Init)

LaunchModes == {"AUTO", "JVM", "FORK", "REFLECT"}

(***************************************************************************)
(* What config.json, settings.json, the bootstrap, the environment         *)
(* (RUNELITE_ARGS, RUNELITE_VMARGS) and main (jvmProps) add.               *)
(***************************************************************************)
ConfigVmArgs    == <<"-Xconfig">>
SavedArgs       == <<"saved">>
SavedJvmArgs    == <<"-Dsaved">>
EnvArgs         == <<"env">>
EnvVmArgs       == <<"-Denv">>
BootstrapArgs   == <<"-Xboot">>
JvmProps        == <<"-Dprops">>
ErrorFile       == "-XX:ErrorFile"

Dashed == {"-c", "-J", "-Dx", "-Dsaved", "-Dipv4", "-Denv", "-Dprops", "-psn",
           "-Xconfig", "-Xboot", ErrorFile, "--", "--help", "--debug",
           "--safe-mode", "--classpath", "--jav_config"}
Words  == Dashed \cup {"word", "uri", "url", "saved", "env", "jars"}

(* what settings.json may hold for the client: arguments and switches *)
Saveable == {"args", "jvm", "debug", "safemode", "ipv4"}

ASSUME LinesAssumption  == Lines \subseteq Seq(Words)
ASSUME PlacesAssumption ==
  Places \subseteq [packr : BOOLEAN, os : {"Windows", "MacOS", "Linux"},
                    appimage : BOOLEAN, command : {"none", "jar", "launcher"},
                    mode : LaunchModes, saved : SUBSET Saveable, broken : BOOLEAN]

VARIABLES
  typed,     \* what the user typed, and
  place,     \* where and how the launcher is run and set up (both constant)
  stage,     \* who has the command line, or how it ended
  argv,      \* the words that part has not read yet
  vmArgs,    \* packr: values of -J, later the arguments of the launcher's JVM
  given,     \* Launcher.parseArgs: the options and arguments found so far
  forked,    \* this is the process ForkLauncher started
  client     \* the client: its arguments and those of its JVM

vars == <<typed, place, stage, argv, vmArgs, given, forked, client>>

NothingGiven == [args |-> <<>>, j |-> <<>>, debug |-> FALSE, help |-> FALSE,
                 classpath |-> <<>>]
NoClient     == [args |-> <<>>, jvm |-> <<>>]

Ends == {"client", "noclient", "help", "rejected", "misparsed", "failed"}

TypeOK ==
  /\ typed \in Seq(Words) /\ place \in Places
  /\ stage \in {"packr", "options", "config", "main", "parse", "launch"} \cup Ends
  /\ argv \in Seq(Words) /\ vmArgs \in Seq(Words)
  /\ given \in [args : Seq(Words), j : Seq(Words), debug : BOOLEAN,
                help : BOOLEAN, classpath : Seq(Words)]
  /\ forked \in BOOLEAN
  /\ client \in [args : Seq(Words), jvm : Seq(Words)]

(***************************************************************************)
(* The user types the words, after -c or not.  place.packr: the native     *)
(* executable is run, not java.  place.command: the property               *)
(* sun.java.command, which only the java executable sets by itself.        *)
(* place.broken: the JVM needed next is not there, or packr cannot read    *)
(* config.json.                                                            *)
(***************************************************************************)
Init ==
  /\ place \in Places
  /\ \E s \in Lines : typed \in {s, <<"-c">> \o s}
  /\ stage = IF place.packr THEN "packr" ELSE "main"
  /\ argv = typed /\ vmArgs = <<>>
  /\ given = NothingGiven /\ forked = FALSE /\ client = NoClient

(* a process ends with an error message, or main with a dialog *)
Fails ==
  /\ stage' = "failed"
  /\ UNCHANGED <<typed, place, argv, vmArgs, given, forked, client>>

(***************************************************************************)
(* setCmdLineArguments: only after -c packr looks at the words at all.     *)
(***************************************************************************)
Packr ==
  /\ stage = "packr"
  /\ stage' = IF argv # <<>> /\ Head(argv) = "-c" THEN "options" ELSE "config"
  /\ UNCHANGED <<typed, place, argv, vmArgs, given, forked, client>>

(***************************************************************************)
(* dropt_parse, one option a step: -J takes the next word whatever it is.  *)
(***************************************************************************)
AtOption == stage = "options" /\ argv # <<>> /\ Head(argv) \in Dashed

DroptFlag ==
  /\ AtOption /\ Head(argv) = "-c"
  /\ argv' = Tail(argv)
  /\ UNCHANGED <<typed, place, stage, vmArgs, given, forked, client>>

DroptJ ==
  /\ AtOption /\ Head(argv) = "-J" /\ Len(argv) > 1
  /\ vmArgs' = Append(vmArgs, argv[2])
  /\ argv' = Tail(Tail(argv))
  /\ UNCHANGED <<typed, place, stage, given, forked, client>>

(* --help halts the parser, prints the usage and ends the process *)
DroptHelp ==
  /\ AtOption /\ Head(argv) = "--help"
  /\ stage' = "help"
  /\ UNCHANGED <<typed, place, argv, vmArgs, given, forked, client>>

(* an option without its value, or one packr does not have: exit(EXIT_FAILURE) *)
DroptRejects ==
  /\ AtOption
  /\ \/ Head(argv) = "-J" /\ Len(argv) = 1
     \/ Head(argv) \notin {"-c", "-J", "--", "--help"}
  /\ stage' = "rejected"
  /\ UNCHANGED <<typed, place, argv, vmArgs, given, forked, client>>

(* the end of the options: -- is not handed on, any other word is *)
DroptEnds ==
  /\ stage = "options"
  /\ \/ AtOption /\ Head(argv) = "--" /\ argv' = Tail(argv)
     \/ ~AtOption /\ argv' = argv
  /\ stage' = "config"
  /\ UNCHANGED <<typed, place, vmArgs, given, forked, client>>

(* mutant: the vmArgs of config.json come on top of those of -J *)
LoadConfigurationAlways ==
  /\ stage = "config" /\ ~place.broken
  /\ vmArgs' = vmArgs \o ConfigVmArgs
  /\ stage' = "main"
  /\ UNCHANGED <<typed, place, argv, given, forked, client>>

(***************************************************************************)
(* loadConfiguration and launchJavaVM: vmArgs of config.json only if there *)
(* was no -J; the rest of the words are the arguments of main.  Without a  *)
(* readable config.json or a JVM packr exits.                              *)
(***************************************************************************)
LoadConfiguration ==
  /\ stage = "config" /\ ~place.broken
  /\ vmArgs' = IF vmArgs = <<>> THEN ConfigVmArgs ELSE vmArgs
  /\ stage' = "main"
  /\ UNCHANGED <<typed, place, argv, given, forked, client>>

ConfigurationFails == stage = "config" /\ place.broken /\ Fails

(***************************************************************************)
(* Launcher.parseArgs.  An address as the first argument replaces all of   *)
(* them.  Then the option parser, one option a step; what it does not know *)
(* is an argument.                                                         *)
(***************************************************************************)
ParseApplicationURI ==
  /\ stage = "main" /\ stage' = "parse"
  /\ argv' = IF argv # <<>> /\ Head(argv) = "uri"
             THEN <<"--jav_config", "url">> ELSE argv
  /\ UNCHANGED <<typed, place, vmArgs, given, forked, client>>

AtWord == stage = "parse" /\ argv # <<>>

(* -psn is the option -p with its value, which only macOS has *)
ParseFlag ==
  /\ AtWord
  /\ \/ Head(argv) = "--debug" /\ given' = [given EXCEPT !.debug = TRUE]
     \/ Head(argv) = "--help"  /\ given' = [given EXCEPT !.help = TRUE]
     \/ Head(argv) = "-psn" /\ place.os = "MacOS" /\ given' = given
  /\ argv' = Tail(argv)
  /\ UNCHANGED <<typed, place, stage, vmArgs, forked, client>>

ParseWithValue ==
  /\ AtWord /\ Len(argv) > 1
  /\ \/ Head(argv) = "-J"          /\ given' = [given EXCEPT !.j = Append(@, argv[2])]
     \/ Head(argv) = "--classpath"
        /\ given' = [given EXCEPT !.classpath = Append(@, argv[2])]
  /\ argv' = Tail(Tail(argv))
  /\ UNCHANGED <<typed, place, stage, vmArgs, forked, client>>

(* no value left: OptionException, the dialog "was unable to parse" *)
ParseValueMissing ==
  /\ AtWord /\ Head(argv) \in {"-J", "--classpath"} /\ Len(argv) = 1
  /\ stage' = "misparsed"
  /\ UNCHANGED <<typed, place, argv, vmArgs, given, forked, client>>

(* mutant: options are looked for behind the separator too *)
ParseSeparatorGoesOn ==
  /\ AtWord /\ Head(argv) = "--"
  /\ argv' = Tail(argv)
  /\ UNCHANGED <<typed, place, stage, vmArgs, given, forked, client>>

ParseSeparator ==
  /\ AtWord /\ Head(argv) = "--"
  /\ given' = [given EXCEPT !.args = @ \o Tail(argv)]
  /\ argv' = <<>>
  /\ UNCHANGED <<typed, place, stage, vmArgs, forked, client>>

ParseArgument ==
  /\ AtWord
  /\ Head(argv) \notin {"--debug", "--help", "-J", "--classpath", "--"}
  /\ Head(argv) = "-psn" => place.os # "MacOS"
  /\ given' = [given EXCEPT !.args = Append(@, Head(argv))]
  /\ argv' = Tail(argv)
  /\ UNCHANGED <<typed, place, stage, vmArgs, forked, client>>

ParsedAll ==
  /\ stage = "parse" /\ argv = <<>>
  /\ stage' = IF given.help THEN "help" ELSE "launch"
  /\ UNCHANGED <<typed, place, argv, vmArgs, given, forked, client>>

(***************************************************************************)
(* LauncherSettings.apply, getClientArgs and getJvmArgs: of the arguments  *)
(* what was typed takes the place of what was saved; the saved switches    *)
(* and the environment come on top, and the crash file always first.       *)
(***************************************************************************)
Saved(what, words) == IF what \in place.saved THEN words ELSE <<>>

DebugArgs == IF given.debug THEN <<"--debug">> ELSE Saved("debug", <<"--debug">>)
ClientArgs ==
  (IF given.args # <<>> THEN given.args ELSE Saved("args", SavedArgs))
    \o EnvArgs \o DebugArgs \o Saved("safemode", <<"--safe-mode">>)

(* mutant: add instead of addAll, the list becomes one element *)
JvmParamsNested == <<ErrorFile, given.j>>

JvmParams ==
  <<ErrorFile>> \o (IF given.j # <<>> THEN given.j ELSE Saved("jvm", SavedJvmArgs))
    \o Saved("ipv4", <<"-Dipv4">>) \o EnvVmArgs

(***************************************************************************)
(* ForkLauncher.canForkLaunch.  java sets sun.java.command to the jar and  *)
(* the words of the line, and Paths.get, which AUTO calls on Windows and   *)
(* macOS, throws on Windows when the colon of an address is among them.    *)
(***************************************************************************)
PathReadable ==
  ~ /\ place.os = "Windows" /\ place.command = "jar"
    /\ \E i \in DOMAIN typed : typed[i] = "uri"

CanForkLaunch ==
  IF place.os = "Linux" THEN place.appimage ELSE place.command = "launcher"

(* mutant: the child of ForkLauncher forks again *)
ForkChosenAgain ==
  place.mode = "FORK" \/ (place.mode = "AUTO" /\ CanForkLaunch)

ForkChosen ==
  /\ given.classpath = <<>>
  /\ place.mode = "FORK" \/ (place.mode = "AUTO" /\ CanForkLaunch)

(***************************************************************************)
(* main ends in the dialog: valueOf throws for an option given twice, or   *)
(* AUTO cannot read the path.                                              *)
(***************************************************************************)
ClasspathTwice == Len(given.classpath) > 1
PathThrows     == given.classpath = <<>> /\ place.mode = "AUTO" /\ ~PathReadable

LaunchThrows ==
  /\ stage = "launch" /\ (ClasspathTwice \/ PathThrows)
  /\ Fails

(***************************************************************************)
(* ReflectionLauncher, by mode or in the child of ForkLauncher: a thread   *)
(* of this JVM.  If the class is not on the path, it only logs the fact.   *)
(***************************************************************************)
LaunchReflect ==
  /\ stage = "launch" /\ ~ClasspathTwice
  /\ given.classpath # <<>> \/ place.mode = "REFLECT"
  /\ IF given.classpath \in {<<>>, <<"jars">>}
     THEN /\ stage' = "client"
          /\ client' = [args |-> ClientArgs, jvm |-> vmArgs]
     ELSE stage' = "noclient" /\ client' = client
  /\ UNCHANGED <<typed, place, argv, vmArgs, given, forked>>

(***************************************************************************)
(* JvmLauncher: java with the launcher's parameters.  In an AppImage the   *)
(* launcher throws before it gets there; without a java executable it logs *)
(* the fact and returns.                                                   *)
(***************************************************************************)
LaunchJvm ==
  /\ stage = "launch" /\ given.classpath = <<>> /\ ~PathThrows
  /\ ~ForkChosen /\ place.mode # "REFLECT"
  /\ IF place.appimage \/ place.broken
     THEN Fails
     ELSE /\ stage' = "client"
          /\ client' = [args |-> ClientArgs, jvm |-> BootstrapArgs \o JvmProps \o JvmParams]
          /\ UNCHANGED <<typed, place, argv, vmArgs, given, forked>>

(***************************************************************************)
(* ForkLauncher: the executable of sun.java.command once more.  Without    *)
(* the property Paths.get(null) throws; a jar or a class is no executable. *)
(* The arguments of the bootstrap and jvmProps get a -J each, jvmArgs get  *)
(* none.                                                                   *)
(***************************************************************************)
ForkCommand ==
  <<"-c", "-J", BootstrapArgs[1], "-J", JvmProps[1]>> \o JvmParams \o
    <<"--", "--classpath", "jars">> \o ClientArgs

LaunchFork ==
  /\ stage = "launch" /\ ForkChosen
  /\ IF place.command # "launcher"
     THEN Fails
     ELSE /\ stage' = "packr" /\ forked' = TRUE
          /\ argv' = ForkCommand /\ vmArgs' = <<>> /\ given' = NothingGiven
          /\ UNCHANGED <<typed, place, client>>

Next ==
  \/ Packr \/ DroptFlag \/ DroptJ \/ DroptHelp \/ DroptRejects \/ DroptEnds
  \/ LoadConfiguration \/ ConfigurationFails
  \/ ParseApplicationURI \/ ParseFlag \/ ParseWithValue \/ ParseValueMissing
  \/ ParseSeparator \/ ParseArgument \/ ParsedAll
  \/ LaunchThrows \/ LaunchReflect \/ LaunchJvm \/ LaunchFork

(* a process that has a command line works on it *)
Spec == Init /\ [][Next]_vars /\ WF_vars(Next)

(***************************************************************************)
(* A description of the two grammars that does not mention any parser.     *)
(* Of a run of words that each take a value, every second one is a value.  *)
(***************************************************************************)
ValueAt(s, takers, i) ==
  \E n \in 1 .. i - 1 :
    /\ n % 2 = 1
    /\ \A k \in i - n .. i - 1 : s[k] \in takers
    /\ i - n = 1 \/ s[i - n - 1] \notin takers

(* the first word that stops the options of s, or the place behind s *)
StopAt(s, takers, stoppers) ==
  LET stops == {i \in DOMAIN s : s[i] \in stoppers /\ ~ValueAt(s, takers, i)}
  IN  IF stops = {} THEN Len(s) + 1
      ELSE CHOOSE i \in stops : \A k \in stops : i <= k

The(S) == CHOOSE i \in S : TRUE  \* the member of a set that has one

Picked(s, places) == \* the words of s at these places, in order
  [k \in 1 .. Cardinality(places) |->
     s[The({i \in places : Cardinality({h \in places : h <= i}) = k})]]

(* what is for packr, and what it leaves for the launcher *)
ForPackr == place.packr /\ typed # <<>> /\ typed[1] = "-c"
PackrStop == StopAt(typed, {"-J"}, {"--"} \cup (Words \ Dashed))
PackrJ ==
  IF ForPackr
  THEN Picked(typed, {i \in DOMAIN typed : i < PackrStop /\ ValueAt(typed, {"-J"}, i)})
  ELSE <<>>
LeftByPackr ==
  LET behind == SubSeq(typed, PackrStop, Len(typed))
  IN  IF ~ForPackr THEN typed
      ELSE IF behind # <<>> /\ behind[1] = "--" THEN Tail(behind)
      ELSE behind
Passed ==
  IF LeftByPackr # <<>> /\ LeftByPackr[1] = "uri" THEN <<"--jav_config", "url">>
  ELSE LeftByPackr

(* what the launcher takes of that, and what it leaves for the client *)
Takers == {"-J", "--classpath"}
Known  == Takers \cup {"--debug", "--help"}
            \cup (IF place.os = "MacOS" THEN {"-psn"} ELSE {})
LauncherStop == StopAt(Passed, Takers, {"--"})
InFront(i) == i < LauncherStop
ValuesOf(option) ==
  Picked(Passed, {i \in DOMAIN Passed :
    InFront(i) /\ ValueAt(Passed, Takers, i) /\ Passed[i - 1] = option})
LauncherJ  == ValuesOf("-J")
Classpaths == ValuesOf("--classpath")
Arguments ==
  Picked(Passed, {i \in DOMAIN Passed :
    \/ i > LauncherStop
    \/ InFront(i) /\ ~ValueAt(Passed, Takers, i) /\ Passed[i] \notin Known})
Asks(word) ==
  \E i \in DOMAIN Passed : InFront(i) /\ Passed[i] = word /\ ~ValueAt(Passed, Takers, i)

-----------------------------------------------------------------------------
(***************************************************************************)
(* What reaches the client is what neither parser was meant to take: every *)
(* word behind the launcher's -- literally, however it looks, and of the   *)
(* words before it those that are no option and no value; a URI alone.     *)
(* Only if there are none the saved ones.  Behind them come those of the   *)
(* environment and the switches, typed or saved.  Nothing is lost, doubled *)
(* or reordered on the way through packr, main, settings and launcher.     *)
(***************************************************************************)
ClientArgsAsTyped ==
  stage = "client" /\ ~forked =>
    client.args =
      (IF Arguments # <<>> THEN Arguments ELSE Saved("args", SavedArgs)) \o EnvArgs
        \o (IF Asks("--debug") \/ "debug" \in place.saved THEN <<"--debug">> ELSE <<>>)
        \o Saved("safemode", <<"--safe-mode">>)

(***************************************************************************)
(* A JVM argument works on one JVM: those in front of packr's end of       *)
(* options on the launcher's, where they replace those of config.json, the *)
(* others on the client's, if it gets a JVM of its own, where they replace *)
(* the saved ones, but neither the ipv4 setting nor RUNELITE_VMARGS, which *)
(* come last and so prevail.                                               *)
(***************************************************************************)
JvmArgsReachTheirJvm ==
  stage = "client" /\ ~forked =>
    IF Classpaths # <<>> \/ place.mode = "REFLECT"
    THEN client.jvm = IF ~place.packr THEN <<>>
                      ELSE IF PackrJ # <<>> THEN PackrJ ELSE ConfigVmArgs
    ELSE client.jvm =
           BootstrapArgs \o JvmProps \o
             (<<ErrorFile>>
                \o (IF LauncherJ # <<>> THEN LauncherJ ELSE Saved("jvm", SavedJvmArgs))
                \o Saved("ipv4", <<"-Dipv4">>) \o EnvVmArgs)

(***************************************************************************)
(* A command line that asks for no help, has a value for every option that *)
(* needs one and nothing for packr that packr does not know, starts the    *)
(* client, where the launch can work: with one class path, which has the   *)
(* client on it, or with none and a mode that needs no ForkLauncher, and   *)
(* in AUTO no path that cannot be read.                                    *)
(***************************************************************************)
PackrAccepts ==
  ForPackr =>
    \A i \in 1 .. PackrStop - 1 : ~ValueAt(typed, {"-J"}, i) =>
      \/ typed[i] = "-c"
      \/ typed[i] = "-J" /\ i < Len(typed)

LauncherAccepts ==
  /\ ~Asks("--help")
  /\ \A i \in DOMAIN Passed :
       InFront(i) /\ Passed[i] \in Takers /\ ~ValueAt(Passed, Takers, i) => i < Len(Passed)

LaunchWorks ==
  /\ ~place.broken
  /\ \/ Classpaths = <<"jars">>
     \/ Classpaths = <<>> /\ place.mode = "REFLECT"
     \/ /\ Classpaths = <<>> /\ place.mode \in {"JVM", "AUTO"}
        /\ ~place.appimage /\ place.command # "launcher"
        /\ place.mode = "AUTO" => PathReadable

GoodLineStarts ==
  PackrAccepts /\ LauncherAccepts /\ LaunchWorks ~> stage = "client"

(***************************************************************************)
(* The two parsers, one after the other, judge a line as the two grammars  *)
(* do: a client is only started by a line that both accept, and only a     *)
(* line that one of them does not accept is turned down, by whichever      *)
(* parser and however far behind options, values and separators its fault  *)
(* is.  A line that is accepted only fails, or ends without a client, where *)
(* the launch cannot work.                                                 *)
(***************************************************************************)
LineJudged ==
  ~forked =>
    /\ stage = "client" => PackrAccepts /\ LauncherAccepts
    /\ stage \in {"help", "rejected", "misparsed"} => ~(PackrAccepts /\ LauncherAccepts)
    /\ stage \in {"failed", "noclient"} => ~LaunchWorks

(***************************************************************************)
(* Launcher.java:118 offers the mode: "JVM launch method (JVM, FORK,       *)
(* REFLECT)", and line 116 JVM arguments for it: "JVM argument (FORK or    *)
(* JVM launch mode only)".  Where the launcher knows its executable, a     *)
(* good command line starts the client in this mode too.                   *)
(***************************************************************************)
ToFork == /\ PackrAccepts /\ LauncherAccepts /\ Classpaths = <<>>
          /\ place.mode = "FORK" /\ place.command = "launcher"
ForkStarts == ToFork ~> stage = "client"
=============================================================================
