# TLA+ models of the OpenRune launcher

The launcher fetches a signed bootstrap, brings the client's jars in
`~/.<name>/repository2` up to date, checks them, and starts the client on them.
On the way it may update itself, patch the configuration of the native
executable that starts it, and install a JRE. This directory models the parts in
which processes, files, crashes and failures meet, checks them with TLC on small
instances, and proves the central invariants with TLAPS for every instance.

Java sources are in `src/src/main/java/net/runelite/launcher/`; a bare file name
below is one of them. Native sources are in `src/native`, `src/liblauncher` and,
of the vendored Detours library, `src/detours`. `PROJECT.json` maps every
definition to its lines.

## 1. The system

`Launcher.main` is one long sequential procedure. What makes it hard is not in
one run but around it: several launcher processes and configuration windows of
one user share files without a lock, any step may fail or be the last one before
a kill, and the next run starts from whatever is on disk.

| Component | State it keeps | Operations | Talks to |
| --- | --- | --- | --- |
| Artifact pipeline (`Launcher.java`, `beans/`) | `REPO_DIR`; in memory the artifact list, the choice of diffs, download counters | bootstrap, `clean`, both loops of `download`, `verifyJarHashes`, launch | server, client process, every other launcher on the same `REPO_DIR` |
| Self-update (`Updater.java`) | the installed application; `lastUpdateHash`, `lastUpdateAttemptTime`, `lastUpdateAttemptNum` in `settings.json` | `findAvailableUpdate`, backoff, download, `hdiutil attach`, delete, copy, relaunch; on Windows the installer check | settings file, the process it starts |
| Settings file (`LauncherSettings.java`, `ConfigurationFrame.java`) | `settings.json`; on macOS a part of the application's bundle | `loadSettings`, `saveSettings`, the window's `save` | all launchers and windows; `Updater`, which saves it and deletes it with the old application |
| Packr configuration (`PackrConfig.java`, `ConfigurationFrame.save`) | `config.json`: vmArgs, env | `updateLauncherArgs`, `patch` | native launcher at its next start; the ipv4 setting of `settings.json` and its writers |
| Bundled Java (`JavaInstaller.java`, `JvmLauncher.getJava`) | `java.zip`, `java_hash.txt`, one folder per JRE | check, download, verify, unzip, store the checksum | `JvmLauncher` |
| Startup, splash screen, dialogs (`Launcher.main`, `SplashScreen.java`, `FatalErrorDialog.java`) | `INSTANCE`, `alreadyOpen`, the queue of the event dispatch thread | `init`, `stage`, `stop`, `open`, every error path of `main` | main thread and event dispatch thread |
| Client launchers (`ForkLauncher.java`, `JvmLauncher.java`, `ReflectionLauncher.java`) | none | build a command line, start a process or a class loader | packr, JVM |
| Native packr launcher (`src/native/src/packr.cpp`, option parser `dropt`) | `vmArgs`, `cmdLineArgs`, `classPath` | parse the command line and `config.json`, create the JVM | `config.json`, `ForkLauncher` |
| Version comparison (`Launcher.compareVersion`) | none | compare two version strings token by token | `Updater`, `jvmOutdated` |
| DLL blacklist (`src/liblauncher/main.cpp`, with the transactions of `src/detours/src/detours.cpp`) | function pointers, two lists under a lock; the code of loader functions, page permissions, trampolines | `DllMain` attaches and detaches the hooks, the hooks refuse, `setBlacklistedDlls` | every thread that loads a DLL, the loader, the launcher |
| File permissions, TLS, platform helpers, installers, other vendored code | | | |

### What is hard about it

* **Crashes.** `Files.newOutputStream(dest)` empties a jar before its
  replacement has arrived; the updater removes the application before it copies
  the new one; the JRE is unpacked in place before its checksum is stored.
* **Sharing without locks.** `REPO_DIR`, `settings.json`, `config.json`,
  `java.zip` and the application itself have several writers. The lock that
  `saveSettings` takes is on its temporary file and covers the write alone.
* **Time of check, time of use.** A diff's base is hashed in one loop and read in
  the next; settings are loaded and saved back much later; the backoff is read by
  two launchers before either marks its attempt.
* **Retries that must end, and must not start too soon.** The exponential
  backoff lives in a file that a failed save deletes, and on macOS in the
  application that the update replaces.
* **Failures that are only logged, or not looked at.** A wrong download, a failed
  `saveSettings`, a failed `patch`, an archive without entries, a missing `java`
  executable, a `delete()` or `VirtualProtect` whose result is dropped: the program
  goes on, and something later has to catch it, or nothing does.
* **Two parsers.** packr and `Launcher.main` both take some words of a command
  line and hand on the rest, and `ForkLauncher` builds one that both read again.
* **Code rewritten under running threads.** The hooks are written over functions
  that other threads are calling, through pages whose permission several hooks share.
* **Two threads.** Dialogs and `SplashScreen.stop` are queued to the event
  dispatch thread while `main` goes on and reads `INSTANCE`.

### What makes each component correct

* Artifact pipeline: the client only runs on jars with the hashes of the signed
  bootstrap; a good jar is not lost; bases of diffs survive; whatever is in
  `REPO_DIR`, an undisturbed run repairs it; launchers side by side converge.
* Self-update: never an older application; the newest eligible update wins; one
  upgrade per start; backoff held, but not for ever; an application survives.
* Settings: what the user saved stays saved.
* Packr configuration: arguments and environment from one bootstrap; the IPv4
  flag follows the setting.
* Bundled Java: a JRE that counts as installed is there as a whole.
* Startup: every failure is shown or ends the process, at most one dialog, the
  splash screen goes away, nothing is started after a fatal error was shown.
* Client launchers and packr: the arguments arrive at the part they are for.
* Version comparison: an order, also for numbers beyond `int`, so that there is a
  newest update at all.
* DLL blacklist: all hooks or none; no page left writable; no jump into nothing; a
  listed DLL is refused by whatever function it is loaded.

`PROJECT.json` lists each hazard at its line, with the properties that would
catch it, or a note why none does.

## 2. The modules

| Module | Models | What needs explaining |
| --- | --- | --- |
| `Repository` | the artifact pipeline | A file's content is the hash it has; `Garbage` is anything no bootstrap asks for. |
| `VerifiedLauncher` | what the pipeline promises | Removing, mending, ready, running: the abstract specification that `Repository` implements. |
| `Versions` | `compareVersion` | A version is a sequence of tokens; `text` is a token's place among all texts. |
| `Updater` | macOS self-update, the settings it shares with the configuration window; on Windows the installer check | Extends `Versions`; time is an age in hours that `Tick` lets grow. |
| `PackrConfig` | writers of `config.json` | The file is reduced to whose vmArgs, whose env, how many IPv4 flags. |
| `JavaInstall` | installing a JRE | A JRE folder is `none`, `part` or `whole`. |
| `Startup` | `main` against the event dispatch thread and the user | The splash screen is `none` before it is made, `shown`, or `gone` once `stop` has run. |
| `ClientLaunch` | the way of a command line through packr, `main`, the settings and the client launchers | A word is one of 23 strings; `word` and `-Dx` stand for all that no parser knows, `uri` for an address, `jars` for a class path with the client on it. |
| `DllHooks` | hooking, unhooking and calling the functions that load DLLs | The code of a function is `orig`, `half` a jump, or the hook it jumps to. |
| `...Proofs` (8 modules) | theorems and proofs | `RepositoryProofs`, `JavaInstallProofs`, `StartupProofs`, `UpdaterProofs`, `VersionsProofs`, `PackrConfigProofs`, `ClientLaunchProofs`, `DllHooksProofs`. |
| `MCRepository`, `MCUpdater`, `MCPackrConfig`, `MCClientLaunch`, `MCDllHooks` | instances for TLC | `JavaInstall` needs none, its constants are numbers and Booleans; `Startup` has no constants. |

`Updater` compares versions with `Versions`, and `MCRepository` checks `Repository`
against `VerifiedLauncher`. The other modules are not composed: what they share is
small (the updater and `PackrConfig` both use `settings.json`, for different fields;
`PackrConfig` therefore has the updater's load, save and deletion of it as steps of its own). `Startup` has every outcome of the steps that the other modules open up:
that a step succeeds, that it fails in the way `main` handles, or that it throws.

### Repository

One record of variables per launcher process (`pc`, `arts`, `pos`, `dpos`,
`toDownload`, `chosen`, ...) and the shared `repo`. The actions follow
`Launcher.main` and its helpers in order:

| Actions | Code |
| --- | --- |
| `Begin`, `BootstrapFails` | start, `getBootstrap`, platform filter (337-400) |
| `CleanList`, `CleanOne`, `CleanDone` | `clean` (739-778): list, then delete one file after the other |
| `UpToDate`, `OutOfDate`, `Unreadable`, `ScanDiff`, `AddDownload`, `ScanDone` | first loop of `download` (604-674), with its inner loop over the diffs |
| `Skip`, `FetchDiff`, `OpenPatch`, `ApplyPatch`, `PatchMismatch`, `GiveUpPatch` | second loop: patching, and falling back to the whole jar |
| `OpenFull`, `WriteFull`, `WriteWrong`, `WriteFails` | whole downloads: empty the file, then write it; wrong content is only logged |
| `VerifyOne`, `VerifyFails`, `VerifyDone`, `Launch` | `verifyJarHashes`, launch |
| `Exit`, `Kill` | end of the process; a kill at any step, leaving what is on disk |

A jar that cannot be opened (`FileNotFoundException`, `Launcher.java:624`) stays where it
is; one that cannot be read (628) is deleted, and nobody looks whether `delete()` (630)
did it. `Unreadable` has both outcomes, and `unread` remembers for which artifacts it
happened: such a jar may have been right, and is emptied by its download all the same.

Opening a file for writing and having written it are two steps, so that kills and
rivals fall in between. Two writers of one file are modelled by `truncated` and
`WriteResults`: a stream that was truncated by a rival leaves a hole, unless the
rival has written the same bytes.

### VerifiedLauncher

Five variables: `repo`, and for each launcher its `phase`, the `release` it is at, the
jars it could not read (`doubted`) and the `jars` under its client. A launcher first only
removes files, then only writes over jars that are wrong for its release or doubted, then
leaves the repository alone, and starts the client only on a complete one. `Repository`
maps its `pc` to the phase, its `arts` to the release, its `unread` to the names doubted
and its `repo` to itself (`KeepsPromise`).

### Versions

`CompareToken` and `CompareVersion` as in the code: the first differing token decides, or
else the number of tokens. `Integer.parseInt` fails above `MaxInt`, and a token that is
no number sorts below every number. `MaxInt` is 20 in the runs, so that a number above
it is at hand; the theorems are about any `MaxInt`. Splitting a string into tokens is
left out. By these rules a `-SNAPSHOT`, which has a token more, is newer than
its release.

### Updater

`updateMacos` step by step (`CheckInstaller`, `FindUpdate`, `CheckBackoff`,
`Mark`, `Download`, `Attach`, `BeginDelete`, `EndDelete`, `BeginCopy`, `EndCopy`,
`Relaunch`), the configuration window (`OpenFrame`, `ToggleBox`, `LoadToSave`,
`SaveFrame`), the clock (`Tick`), and the user (`Start`, `Exit`, `Kill`).
`settings.json` is one value that `Save` replaces, or deletes when it fails. It is looked
for in the working directory (`LauncherSettings.java:171`), which packr makes the
bundle's `Contents/Resources` (`packr_macos.cpp:145-199`): `BeginDelete` and `EndDelete`
take it away with the application, at any moment of the walk (`SettingsMayGo`) and at the latest
with its end (`SettingsGo`), and a failed copy or the new application starts without it.
Deletion and copy are two steps each. A deletion fails on a folder that somebody else fills, a copy on
files or folders that somebody else deletes (`spoilt`), and both on their own (`LateFault`).
`AppSurvives` is about the moments at which every launcher is through with its update
or has given it up.
With `Os = "Windows"` the model stops at the installer check:
`getCurrentJavaProcessCommand` returns the path of `java.exe`, which never has
the launcher's name, so `SkipUpdate` is all that happens and the installer steps
behind it are dead code.

### PackrConfig

`Start`, `GetBootstrap`, `ReadConfig`, `WriteConfig` for each launcher run;
`OpenFrame`, `SaveSettings`, `ReadForFrame`, `WriteForFrame`, `CloseFrame` for each
window. `patch` reads the whole file, changes it and moves a new one over it;
reading and writing are separate steps, so that patches are lost and overwritten.
Before it patches, a launcher runs the update. Where `Updates` is true (macOS),
`CheckUpdate` loads the settings for the backoff, `MarkUpdate` saves them with whatever ipv4 they
had then, and `EndUpdate` gives up, or loses `settings.json` with a failed
deletion, or installs an application with a `config.json` of its own and no
`settings.json` (at most `MaxInstalls` times). What else an update does is in `Updater`.

### JavaInstall

`Check` (zip, `java_hash.txt` and checksum), `Download`, `VerifyDownload`,
`BeginUnzip`, `EndUnzip`, `StoreHash`, `GetJava`. The `IOException` of any step
only ends `JavaInstaller.init`, and `main` goes on. The constant `ZipArchives`
says what the links of `java_versions.properties` lead to: zip files on Windows,
`.tar.gz` files on Linux and macOS. One process at a time.

### ClientLaunch

One command line, from the shell to the client.

| Actions | Code |
| --- | --- |
| `Packr`, `DroptFlag`, `DroptJ`, `DroptHelp`, `DroptRejects`, `DroptEnds` | `setCmdLineArguments` and `dropt_parse`: only behind `-c` packr looks at the words at all |
| `LoadConfiguration`, `ConfigurationFails` | the `vmArgs` of `config.json`, which a `-J` replaces; `launchJavaVM` |
| `ParseApplicationURI`, `ParseFlag`, `ParseWithValue`, `ParseValueMissing`, `ParseSeparator`, `ParseArgument`, `ParsedAll` | `Launcher.parseArgs` and the option parser; `-psn` is an option on macOS only |
| `ClientArgs`, `JvmParams`, `JvmProps` | `LauncherSettings.apply`, `getClientArgs` (typed or saved words, `RUNELITE_ARGS`, the debug and safe mode switches), `getJvmArgs` (typed or saved, ipv4, `RUNELITE_VMARGS`) behind `-XX:ErrorFile`, and the properties `jvmProps` of `main` |
| `LaunchThrows` | the dialog for an exception: `valueOf` of a `--classpath` given twice (`Launcher.java:213`), `Paths.get` of a `sun.java.command` with an address in it, on Windows (`ForkLauncher.java:51`) |
| `LaunchReflect`, `LaunchJvm`, `LaunchFork` | the three client launchers; `LaunchReflect` ends in `noclient` when the class is not on the path, which it only logs; `LaunchFork` leads back to `Packr` |

`place` is the way the launcher is run: system, packr or java, AppImage, launch mode,
what `sun.java.command` holds, which settings are saved (`saved`), and whether a JVM or
`config.json` is missing (`broken`).

The properties are stated with a description of the two grammars that mentions no
parser: which words are values (`ValueAt`, by counting back the options in front of a
word), and where the options end (`StopAt`).

### DllHooks

`DllMain` (`Load`, `Begin`, `Attach`, `Detach`, `SkipHook`, `Commit`, `WriteOpcode`, `WriteJump`,
`WritePointer`, `RestoreCode`, `Written`, `Close`, `Closed`) with the transaction of
Detours that it runs; `LockList` and `AddName` for `setBlacklistedDlls`; and threads that
load DLLs: `CallLoader`, then `Enter` and `Proceed` for the first instructions of a
function, `Check` and `CallReal` for a hook, `CallInner` and `LoadDll` for what Windows
does behind it. A jump is two writes and the pointer a third, and threads run in
between. A thread that was past the first byte when the jump was written is `torn`.
`Close` and `Closed` give pages and trampoline regions their permissions back. Each of these
`VirtualProtect` calls may fail (`Restore`): its result is dropped ("We don't care if this fails",
`detours.cpp:1618` and 1904), and the page stays writable; `stuck` holds those pages and regions.
Names are matched by their exact spelling (`main.cpp:33-47`): a listed DLL is one with just the
listed name, and another case or a missing `.dll` is another name.

### Startup

One process, three actors: the main thread (`MainStep`), the event dispatch
thread with its queue of `invokeLater` tasks (`EventDispatch`), and the user, who
may close the splash screen or a dialog at any time (`CloseWindow`).

| Actions | Code |
| --- | --- |
| `ParseArgs`, `LaunchClasspath`, `PostInstall` | what `main` does before and instead of a normal start: a bad argument, `--help`, `--configure`, the child of `ForkLauncher`, `--postinstall` |
| `InitSplash`, `CheckPermissions`, `InstallJava`, `MakeRepoDir`, `GetBootstrap`, `Update`, `JvmOutdated`, `Download`, `VerifyJarHashes` | the steps of a normal start in order; `Fail` is the handler that posts a dialog and returns |
| `LaunchReflect`, `LaunchFork`, `LaunchJvm`, `LaunchAndWait`, `ClientEnds` | the three client launchers; the wait of `JvmLauncher` in debug mode |
| `Throw`, `StageThrows`, `Caught`, `Finally` | the `catch` and `finally` blocks around all of it |
| `OpenDialog`, `StopSplash` | the tasks: `new FatalErrorDialog(...).open()`, `SplashScreen.stop` |
| `ShowWindow` (inside `InstallJava`) | `JavaInstaller` opens its dialog on the main thread, at once |

`stage` reads `INSTANCE` several times without synchronization. In the model it
may throw once `stop` has run (`StageThrows`): the first read may still see
the splash screen and the next one null.

## 3. Runs

| Run | Instance | Shows |
| --- | --- | --- |
| `repository` | 1 launcher, 2 releases, 3 jars, 3 initial states of `REPO_DIR`, 4 starts, 3 faults (a jar that cannot be opened, read or deleted is one) | the jars under a client are verified (`VerifiedLaunch`); good jars that could be read and bases of diffs are kept (`GoodFilesKept`, `BasesKept`); the progress reaches its total (`ProgressComplete`); every step is one of `VerifiedLauncher` (`KeepsPromise`); a run in which nothing fails never ends in a dialog (`UndisturbedRunSucceeds`); the client is launched in the end (`RecoversAndLaunches`) |
| `repository_shared` | 2 launchers, 1 start each, no faults | launchers side by side converge on verified jars |
| `updater` | 1 launcher, 1 window, one fault of each kind, 2 lists of updates with words and a number beyond `int` in their versions | `NewestChosen`, `OneUpgradePerStart`, `NeverDowngrades` |
| `updater_live` | 1 launcher, 2 faults, ages up to 16 h | `BackoffHeld`, `EventuallyLatest` |
| `packr_config` | 1 launcher, 1 window, 3 saves, 1 fault, 1 installed update, 3 bootstraps, one without arguments | `ArgsMatchEnv`, `FlagConverges` |
| `java_install` | 3 releases, 4 faults, 1 read fault | `ReadableIsWhole`, `HashAfterUnzip`, `EventuallyWhole` |
| `startup` | no bounds: every run of `main`, 254 states | `OneDialog`, `FatalMeansFatal`, `StageFindsSplash`, `NothingForgotten`, `FailureShown`, `SplashGoes` |
| `client_launch` | every line of up to 3 words out of 10, and of 4 words out of 3, behind `-c` or not; 26 ways to run the launcher | client arguments and JVM arguments of every source arrive once, in order, at the part they are for (`ClientArgsAsTyped`, `JvmArgsReachTheirJvm`); only a line that a grammar does not accept is turned down, and only a launch that cannot work fails (`LineJudged`); a good line starts the client where the launch can work (`GoodLineStarts`) |
| `dll_hooks` | 4 hooks, 3 functions, 2 pages, 1 thread, 3 DLLs of which 2 are listed; a failure anywhere | `PagesRestored`, `NoDanglingJump`, `AllOrNothing`, `BlacklistHolds`, `CallsEnd` |

Why the bounds are enough to be interesting: in `repository` the second release
replaces one jar under a new name and one under its old name, each with a diff,
and three faults are enough for a failed patch, a wrong full download and a kill
in one history, with a start left to recover. Two starts follow the last fault in
the worst case of `RecoversAndLaunches`. In `updater_live` an age of 16 hours is
past the backoff of the attempts that two faults can cause. In `java_install` four
faults and three releases let an interrupted unpacking, a failed download and two
upgrades follow each other. `startup` is one process without loops and is
explored completely. Three words are enough in `client_launch` for an option with its
value and one more, on either side of `--`, and for two values in a row that look like
options; four give a value twice, to `-J` or to `--classpath`. The 26 ways to run the launcher
are packr and java on Windows, packr on macOS, an AppImage, java on Linux, and packr on Windows
with `sun.java.command` set, each in every launch mode, and two broken installations; each
setting is saved in some of them and not in others. In `packr_config` one installed update is enough, since a
second one finds what the first one found. In `dll_hooks` two hooks share a function, as the import jump of kernel32's
`LoadLibraryW` makes them, three functions call each other, and three hooks share a page,
so that permissions are taken and given back in nested order.

Deadlock is not looked for where the system may really stop: in `startup` when `main`
has returned and no window is left, in `client_launch` when the process ends, in
`dll_hooks` when the library is unloaded, and in `repository` and `repository_shared` when
the bound on starts is used up.

### Disagreements with what the code says

Each of these runs ends in a counterexample to a property taken from a comment or
message of the code:

| Run | Property | The history TLC finds |
| --- | --- | --- |
| `updater_overlap` | `AppSurvives` | two macOS launchers attempt the same update. The first deletes the bundle, with `settings.json` and the record of its attempt in it, and begins to copy. The second, started before, passes the backoff that is empty now and begins to delete what the first copies. The folder fills while it is emptied, so that the deletion fails, and the copy loses what it copies into: both launchers log that and go on, and half an application is left |
| `java_install_tar` | `TrustedIsWhole` | a `.tar.gz` has no zip entries: nothing is unpacked, the checksum is stored, and the missing JRE counts as installed for ever after |
| `client_launch_fork` | `ForkStarts` | `ForkLauncher` hands `-XX:ErrorFile` to packr without a `-J`, behind those of the bootstrap and of the properties, which have one; packr knows no such option and exits. A line with a `--classpath` of its own does not fork |

More were met while modelling and have no run of their own.

* A failure between deletion and copy (`BeginDelete` to `EndCopy`) leaves no
  application, also with one launcher (`AppSurvives` fails with `MaxLateFaults =
  1` as well).
* A patch that was downloaded in vain stays in `downloaded` while its size is
  taken out of `totalDownloadBytes` (`Launcher.java:719`), so the progress ends
  beyond its total; `ProgressComplete` therefore only says that it does not stop
  short.
* On a Java older than 11 `JavaInstaller` may show "There was a fatal error
  starting", throw, log its own exception and return, and `main` goes on and
  starts the client beside the dialog; meanwhile the dialog's `stop` takes the
  splash screen away under `stage`. `FatalMeansFatal` and `StageFindsSplash`
  leave this case (`oldJava`) out and would fail with it.
* `JvmLauncher` without a `java` executable logs that and returns: no client, no
  dialog. `FailureShown` is about the failures that `main` handles or catches.
* Of two macOS launchers, one may choose its update before the other has
  installed a newer one, and then copy the older over it. `NeverDowngrades` is
  checked with one launcher.
* An installed Windows launcher says that it is "not running from installer":
  `getCurrentJavaProcessCommand` returns the path of `java.exe`, never the launcher's.
* The launcher saves the backoff together with the preferences as they were before
  the user changed them in the configuration window.
* On macOS every update takes `settings.json` away with the old bundle (`Updater.java:234`):
  all preferences are back at their defaults, and an attempt that fails from the deletion on is
  not remembered. `BackoffHeld` is about the attempts the file still records.
* A jar that cannot be opened or read for a moment counts as out of date, is emptied for its
  download, and lost if that fails (`Launcher.java:624-632`). `GoodFilesKept` and `KeepsPromise`
  let just these jars go.
* A class that is not on the `--classpath` is only logged (`ReflectionLauncher.java:67`): no
  client, no dialog. Two `--classpath` end in the dialog for unexpected errors, and so does on
  Windows, in mode AUTO and under `java`, a line with a `runelite-jav://` address, whose colon
  `Paths.get` refuses (`ForkLauncher.java:51`). `GoodLineStarts` leaves these out (`LaunchWorks`);
  `LineJudged` says that no others end so.
* A page or a trampoline region whose restoring `VirtualProtect` fails stays writable.
  `PagesRestored` says that only those do.
* Saving twice with IPv4 on adds two flags to `config.json`, saving with IPv4 off removes
  one: `FlagConverges` therefore speaks of settings that stay as they are.
* packr does not set `sun.java.command`, so that under packr `ForkLauncher` throws
  (`ForkLauncher.java:63`), unless somebody puts the property into `config.json`.
* `-c -- --help` shows the launcher's help, since packr takes the `--` away.
* The child of `ForkLauncher` reads `RUNELITE_ARGS` again: its arguments are there twice.
  `ClientArgsAsTyped` leaves the child out.
* `DllMain` calls `DetourUpdateThread` with its own thread only. Another thread inside the
  first bytes of a function may be torn when the jump is written over them. The
  properties of `DllHooks` are about threads that were not.
* `setBlacklistedDlls` clears the narrow list and never the wide one. It is called once.
* `DetourTransactionCommitEx` flushes `sizeof(o->pTrampoline)` bytes of instruction cache,
  those of a pointer (`detours.cpp:1867`). On x86 this does not matter.
* Two launchers on an old Java: one that has checked before the other has stored the
  checksum unpacks the JRE again over the one in use, and if it is killed there leaves half
  a JRE with a zip and a checksum that match. Nothing locks it (`JavaInstaller.java:145`).

### Fairness

* `Repository`: weak fairness of each launcher's own steps and of its next start.
  The code is a sequential program that the scheduler keeps running. A download
  that hangs for ever is not fair: no request has a time limit, and the user of a
  hanging launcher kills it, which is a `Kill`. Kills and failures have no fairness
  and are bounded.
* `Updater`: weak fairness of `Tick`, of the launcher's steps and of its exit;
  strong fairness of a start of the installed application without `--noupdate`
  (the user does so again and again) and of winning the rollout lottery, which
  `CheckBackoff` draws anew at every start: `install_id.txt`, which would fix the draw,
  is only written by the Windows installer.
* `PackrConfig`: weak fairness of launcher and window steps, strong fairness of
  getting a bootstrap with launcher arguments.
* `JavaInstall`: weak fairness of the launcher's steps, exit and next start.
* `ClientLaunch`: weak fairness of the one process that has the command line.
* `DllHooks`: weak fairness of `DllMain`, of the thread that holds the list's lock, and of
  each thread inside a call. Nobody has to call, set the list or unload the library.
* `Startup`: weak fairness of the main thread and of the event dispatch thread, each
  of which runs its next step or task as long as it has one. Windows need not be
  closed, and a client for which `main` waits need not end.

Nothing is assumed about when the user opens a window or kills a process.

## 4. Proofs

All theorems hold for every value of the constants that satisfies the named
assumptions of the modules (`RepositoryAssumption`, `UpdaterAssumption`, ...: the bounds
are natural numbers, the special values are no hashes, lists are sequences). TLC
evaluates them in every run. What a theorem assumes beyond them is named with it.

**`RepositoryProofs`**

* `TypeCorrect`. Inductive invariant `TypeInv == TypeOK /\ CursorOK /\ ChosenOK`:
  the types alone are not inductive, since `arts[l][pos[l]]` has a type only while
  the index is inside the list and the chosen diff exists. The theorem states the types alone.
* `VerifiedLaunchSafe`, for one launcher at a time (`Sole`). `VerifiedLaunch` is
  about the moment of launch; the invariant `VerifiedPrefix` carries it there: in
  `verify`, the jars before `pos` have their hashes, and in `launch` all have. With
  two launchers on different releases it is false: nothing locks `REPO_DIR`.
* `GoodFilesKeptSafe`, for one launcher and artifacts with files of their own
  (`DistinctLists`). The invariant `PendingBad` says that what is still to be
  downloaded is still wrong or could not be read by this run (`unread`), so that `download` only
  ever writes over such files;
  `StaleUnneeded` that `clean` only has unneeded files left to delete.
* `BasesKeptSafe`, for one launcher, from `StaleUnneeded`.
* `PromiseKept`, for one launcher and `DistinctLists`: `Repository` implements
  `VerifiedLauncher`. Initial states map to initial states, and each step to a step or a
  stutter; `PendingBad` gives the guard of `Mend`, with the unread artifacts as the doubted jars,
  and `VerifiedPrefix` that of `Start`.
* `ProgressCompleteSafe`, for any number of launchers. The counters cannot be compared with
  a recursive sum, about which the prover could prove nothing. The invariant
  `Progress` says instead that there is a function of prefix sums (`SumsTo`) that the
  total and the counter of downloaded bytes agree with; the scan extends it by one
  place, and a patch in vain adds to the counter what it takes from the plan.
* `ConcurrentRunsConvergeSafe`, for any number of launchers with one bootstrap
  (`OneBootstrap`) and `DistinctLists`. A file is `Settled` when it has its hash or when
  somebody is about to write it whole: a writer whose stream was not truncated by
  another, or one about to truncate (`Mends`). No step unsettles a file as long as
  nothing fails, what was verified is settled (`VerifiedSettled`), and once all are done
  nobody is left to mend anything, so that it is right.
* `UndisturbedRunSucceedsSafe`, for one launcher and `DistinctLists`: the safety half of
  `RecoversAndLaunches`. The dialog is what a wrong jar in `verify` leads to. While nothing fails,
  a file is right once the loop of `download` is past its artifact (`DealtRight`), and a later
  artifact does not touch it (`StaysRight`).

**`JavaInstallProofs`**

* `InstallTypeCorrect`, `HashAfterUnzipSafe`, `ReadableIsWholeSafe`. The last one
  needs that the launcher is only ever upgraded: then (`LatestOK`) once
  `java_hash.txt` names the newest JRE neither the zip nor the folder changes, and
  while that JRE is being installed it does not name it yet. The last two assume
  zip archives; `java_install_tar` shows that they must.
* `UndisturbedIsWhole`, the safety half of `EventuallyWhole`, with zip archives: as long as nothing
  fails, a folder is only half there while it is being unpacked, a checksum only names
  folders that are there, and who looks for `java` finds a whole JRE (`FoldersOK`).
* `TarInstallsNothing`, for `.tar.gz` archives: what `java_install_tar` shows happens in every
  history. No folder ever gets a JRE and no client is started.

**`StartupProofs`**

* `StartupTypeCorrect`, `OneDialogSafe`, `FatalMeansFatalSafe`,
  `StageFindsSplashSafe`, for every run of `main` without an assumption. `TypeOK` is
  inductive by itself. The others need three parts more: `DialogOK`, that one dialog
  is open when `alreadyOpen` is set and none otherwise; `ClientOK`, that no client is
  there while `main` is still in its `try` block; and `OrderOK`, that on a Java of at
  least 11 nothing is posted while `main` is in that block, and that a launcher with a
  client has no dialog, neither open nor posted.
* `NothingForgottenSafe`, the safety half of `FailureShown` and `SplashGoes`: what is owed to the
  user, a dialog or the end of the splash screen, is done or still in the queue (`OwedInv`).

**`VersionsProofs`**

* `CompareAntisymmetric`, `CompareTransitive`: `compareVersion` is an order on all
  versions. The place of the first difference is a least number, whose existence (`Least`)
  comes from the library's theorem that strict inclusion of finite sets is well founded.
  With it the recursive function of the next module can be reasoned about as well.

**`UpdaterProofs`**

* `TypeCorrect`, with `ChosenOK`: an update in hand is one.
* `NewestChosenSafe`, if `Rank` is the order of `compareVersion` on the versions there are
  (`RankAgrees`; MCUpdater's is the order `VersionTest.java` asks for).
  `NewestUpdateIsNewest` shows what the loop of `findAvailableUpdate` returns for every list.
* `OneUpgradePerStartSafe`: a launcher in the midst of an upgrade was not started by one
  (`ChainOK`).
* `NeverDowngradesSafe`, for one launcher (`Sole`) and `RankAgrees`: an application that is
  there is the best there ever was, and a launcher on its way to an update runs it (`BestOK`).
* `BackoffHeldSafe`, for a launcher alone with its settings (`AloneWithFile`: no window, no
  failed save): the file holds the last mark, and who marks was let through by it (`MarkOK`); who
  may come to mark runs from a whole application (`WholeOK`), so that its save has a folder to go to. When
  the deletion takes the file, the mark goes with it.
* `AppSurvivesAlone`, for one launcher and no configuration window (which could save into a folder
  that is being deleted, and so keep it): without a failure behind the point of no return there is
  an application whenever the launcher goes on, whatever fails before it, and through any
  number of updates. The application folder is what the launcher has got to (`FolderOK`). So the
  counterexample of `updater_overlap`, which has no failure, needs its second launcher.

**`PackrConfigProofs`**

* `ConfigTypeCorrect`, `ArgsMatchEnvSafe`, for any launchers and windows. Every copy of the
  file that somebody may still write back is of one bootstrap (`WholeCopies`).
* `QuietStepsHeal`, `SettledStays`, for any launchers and windows: why `FlagConverges` holds. Once
  no window saves and no launcher or self-update has a setting from before in hand (`Quiet`), it
  stays so, whatever is written then has the flag of the setting, and a flag that is right stays
  right. What a self-update saves then is the setting that is there. It can end the quiet in one way only, by
  losing a `settings.json` that has IPv4 on (`Lost`): a failed save or deletion, or a new
  application. Each of these is bounded in the run. That a launcher does write some day is the
  part that needs fairness.

**`DllHooksProofs`**

* `TypeCorrect`, `PagesRestoredSafe`, `NoDanglingJumpSafe`, `AllOrNothingSafe`, for any hooks,
  functions, pages and threads. The invariant has one part for each phase of the
  transaction (`Before`, `Listing`, `Writing`, `Finishing`, `After`): which of the pending
  operations are written by now, and what that makes of code, pointers and
  trampolines. `OldestKeeps` is about permissions: the oldest pending operation on a
  page remembers the one from before, and operations are closed newest first. `Sound` and `NoHalf`
  hold at every write. `PagesRestoredSafe` allows for calls that fail to restore: outside the
  transaction exactly the pages and regions in `stuck` are writable.
* `BlacklistHoldsSafe`. A call that began in safety stays in it, since unloading ends
  all threads (`Guarded`): until a hook has checked its DLL it is on its way into a
  function that is hooked, and behind that the DLL is one the list lets through.
* `CallsPassWhenAttached`, the safety half of `CallsEnd`: once the hooks are attached no call meets a
  half-written jump, and a hook calls its trampoline and not itself, since a thread in a hook is
  in one that was there to be attached (`InHooks`).

**`ClientLaunchProofs`**

* `TypeCorrect`, for lines of any length: no part reads past the end of the line.
* `ClientArgsAsTypedSafe` and `JvmArgsReachTheirJvmSafe`, for lines of any length and any
  mix of words. Three facts carry them. A parser's cursor never stands on a value
  (`Cursor`, `CursorOnNoValue`): the unbroken run of options in front of it is always
  even, whichever way it moves on. Nothing in front of the cursor stops a parser, so
  that where it ends is the place the description of the grammar names
  (`CursorStops`). And what a parser has collected is what stands at the places of that kind
  in front of the cursor (`PackrAt`, `ParseAt`), which one word further is one word
  longer or the same (`PickedNext`). `PackrInv` and `ParseInv` hold this along the way. All
  is about the first process; in the one `LaunchFork` starts the line is the launcher's own. Saved
  words, switches, environment, properties and bootstrap stand at fixed places behind or in front
  of them.
* `LineJudgedSafe`, the safety half of `GoodLineStarts`: who turns a line down stands on a word for
  which its grammar does not accept the line (`PackrTurnsDown`, `LauncherTurnsDown`), a launch that
  fails is one that cannot work (`LaunchTurnsDown`), and who starts
  a client has read all of it and met none (`ParsedWhole`). `CursorBeforeStop` says that a cursor on
  a word that is no separator is in front of the first one.
* `LaunchGoesOn`: every step hands the line to a later part or takes a word off it, and a forked
  launcher forks no other. With `LineJudged` and the absence of a step that is stuck, which is
  left to TLC, this is `GoodLineStarts` for lines of any length.
* `ForkedIsTurnedDown`: what `client_launch_fork` shows for one line holds for every launch that
  forks. Behind the argument of the bootstrap and the properties, which have their `-J`, packr
  always comes to `-XX:ErrorFile`, which has none (`CrashFileFirst`, `ForkRead`). A line with a
  `--classpath` never gets there: it does not fork.

Only model-checked: every liveness property, since the prover does not reason about fairness
and `ENABLED`. Of `RecoversAndLaunches`, `EventuallyWhole`, `FailureShown`, `SplashGoes`,
`FlagConverges`, `GoodLineStarts` and `CallsEnd` the theorems above state the part that is about
what steps do; what is left to TLC is that the steps are taken. Of `EventuallyLatest` no
such part is proved. The counterexamples are TLC's too; `TarInstallsNothing` and
`ForkedIsTurnedDown` prove that two of them are what always happens.

## 5. What is not modelled

* Windows updates behind the installer check: dead code as it stands.
* `settings.json` fields that are read once and passed on.
* The formats of jars, patches and archives, TLS, HTTP, registry and
  ACL calls: pure I/O. Their failures are faults of the modules that call them.
* Of packr: loading the JVM library, JNI, the environment and the working directory.
* Of Detours: disassembling and copying instructions, the search for memory near a
  function, other processors, import tables, and processes started with a DLL; the
  launcher uses none of the last two. Threads that `DetourUpdateThread` suspends:
  `DllMain` never has one.
* Two launchers that install a JRE at the same time (see section 3): what is left on disk
  depends on which of the files in use Windows lets the other one open.
* Installers and build files, which run before or outside the program, and other
  vendored code (`sajson`, samples).

The program itself is the Java code, about 5,000 lines, and 900 lines of C++. Counted
over all C++ files of the repository, 82,000 lines, the models cover little: nearly all of
these are samples, disassembler tables and utilities of the Detours library that no part of the
launcher calls, and a model of them would say nothing about it.

## 6. Plan

The modules of the plan are all there. What could follow, most important first:

1. `NeverDowngrades` and `AppSurvives` under a lock that the code does not have, to
   say what a fix would need.
2. `JavaInstall` with two processes, once it is known which files Windows lets both open.
3. The environment variables that packr takes from `config.json`, on both sides.
