# Verification of west-env

`west env` is a west extension (Python) that runs `west build` and friends either on
the host or in a container: `west_commands/env.py` parses and dispatches, the package
`west_env/` does the work. These TLA+ modules model that program. TLC checks small
instances, TLAPS proves the main results for every instance.

Paths below are relative to the repository.

## 1. The system

| Component | Source | State it keeps | Operations |
|---|---|---|---|
| Command line, dispatch | `west_commands/env.py` | the parsed line | argparse set-up, `do_run`, one branch per action |
| Configuration | `west_env/config.py` | `west-env.yml` (read once per command) | `load_config`, `wants_container` |
| Stale check and build | `west_env/buildcheck.py`, `env.py` | build directories and their `CMakeCache.txt` | `detect_stale_build`, `clean_build_dir`, the actions `init build shell benchmark` |
| Container execution | `west_env/container.py` | none; reads config, engine, cwd | `run_container`, `check_container*` |
| Engine (legacy) | `west_env/engine.py` | none; reads PATH | `detect_engine` |
| Backend detection | `west_env/backend.py` | none; asks programs, in a world that changes | `detect_all`, `select`, `doctor_lines` |
| Workspace sync | `west_env/sync.py`, `env.py:_sync` | one named volume per workspace | `sync_to_volume` (tar pipe, docker cp), `sync_from_volume` |
| Caches | `west_env/cache.py` | four named volumes | `stats`, `reset` |
| Credentials | `west_env/credentials.py` | none | strategy detection |
| Doctor | `env.py:_doctor`, `west_env/util.py` | none | every check, in order, and a verdict |
| Flash, debug | `west_env/flash.py` | the J-Link process | `flash`, `start_gdb_server` |
| Tasks, wrappers | `west_env/vscode.py`, `platform.py` | generated files | `generate_tasks`, `generate_wrappers` |
| Execution shim | `scripts/exec.sh`, `exec.cmd` | PID file, logs, watchdog | run with a time limit |
| Bootstrap | `example/workspace/scripts/` | `.venv`, `.west` | create or reuse both |

How they interact: `do_run` reads the configuration once, decides `use_container`, and
calls one component. The components do not call each other; they meet in what lies
outside the process: the build directories, the workspace files, the volumes, the engine,
the file `west-env.yml`. Several `west env` commands and the user's own commands share
all of it without any lock.

Hard behaviours, from which the properties are drawn (`PROJECT.json`, "hazards", has them
line by line):

* a check and the act it guards are separate steps, between which others act
  (`env.py:173-187`);
* a mode that changes between two builds of one directory;
* two transports for one operation, one of which reads exit codes and the other not;
* the same question (which engine?) answered in two places from different keys;
* a parser whose REMAINDER makes the meaning of an option depend on its position;
* questions to programs that hang, whose answers are used when they need not be true any more;
* a watchdog that outlives what it watches, and process numbers that are used again;
* interruption and failure at any step.

What makes each component correct: the parser hands on what was typed; the configuration
decides every command alike; a build never uses a directory of the other mode and nothing
is deleted that was not to be; a volume holds the source, only the source, at its paths,
and success is reported only when that is so; a cache that is reported as removed was
removed; the doctor's verdict follows from what it saw, and it ends; a time limit is kept
and reported, and nothing is left of a command that ended. Where the code does not do so,
section 3 says it.

## 2. Modules

| Module | Models | Composed with |
|---|---|---|
| `EnvConfig` | meaning of `west-env.yml`: defaults, legacy mapping, validation, `wants_container` | extended by the next and by `CommandLine` |
| `BuildCheck` | `init build shell benchmark` against the build directories | `EnvConfig` |
| `OwnedDirectory` | what the stale check promises: a directory that changes hands only by being emptied | implemented by `BuildCheck` (`OneOwner`) |
| `WorkspaceSync` | `sync`, `sync --back`, the volumes and the workspaces | – |
| `MirroredVolume` | what a sync promises of a volume, whatever carries the files | implemented by the tar pipe of `WorkspaceSync` (`SyncsMirror`) |
| `CommandLine` | parser, dispatch, choice of engine, generated tasks | `EnvConfig` |
| `CacheVolumes` | `cache reset`, `cache stats`, the volumes, the containers that use them | – |
| `Doctor` | backend detection and selection, credentials, J-Link search, container checks, verdict | – |
| `ExecShim` | `scripts/exec.sh`: command, PID file, watchdog | – |
| `MC*` | values for TLC | the module they are named after |
| `*Proofs` | theorems and proofs | the module they are named after |
| `KeptProofs` | what the operator `Kept` of `CommandLine` computes | extended by `CommandLineProofs` |

`PROJECT.json` "map" gives the lines of every definition. Definitions marked *Slip* in a
comment are plausible mistakes: each has the parameters of the definition that follows it,
and shows which property would notice it. Nothing else uses them.

### BuildCheck

A build directory does not exist, exists without a `CMakeCache.txt`, or has a cache that
names a source path: `HostSource` or `ContainerSource`. An invocation `p` walks through
`do_run`: `Start` (configuration, mode), `check` (`Stale` is `detect_stale_build`, with
its actual criterion, the prefix `/work`), `clean` (rmtree, possibly half done),
`validate`, `launch`, `running`. `Ends` records the exit status. Between any two steps
come `Interrupt`, the user editing the file (`EditFile`), the engine going up or down and,
if `Concurrent`, every other invocation and the user's `rm -rf build` and `west build`.
The invocation reads the file only in `Start`, as the code does. `west build` itself is
external: it configures a fresh directory with its own path, fails before or after that,
and leaves a directory with a foreign cache as it is.

`OwnedDirectory` is the promise without invocations, checks or failures: a mode `Take`s a
directory that is free or its own, works in it alone, `Release`s it, and only `Empty` lets
another mode in. `Owned` maps it to `build[TopBuild]` and to the set of modes of the builds
that run (`Owners`); with `Guarded` every step of `BuildCheck` is one of its steps or none.

### WorkspaceSync

A volume is a set of copies (file, owner, content, and whether it lies one directory too
deep). `Volume` is the name that `Slug` gives the workspace, which need not be its own: the
code takes the last directory of the path. The tar pipe is two processes: `Pack` reads one
file of the host, `Unpack` writes one into the volume, and `TarEnds` is reached with
everything transferred or, unless `Reliable`, at any time: the code waits for both and
looks at neither exit code. The cp fallback creates its container (`CpCreates`), lists the
top-level entries (`Listings`: an empty directory may be one of them), and copies one after
the other. `docker cp` is not one step: it looks whether the directory is in the volume
(`CpLooks`, `found`), makes it or goes inside the one it found (`CpLands`, `dirs`), and
reads and writes file by file (`Pack` and `Unpack` again), until `CpCopied`; others may act
in between. The first failure ends the sync (`CpFails`), which an entry that is gone by
then is too. The user edits files between any two steps. `recent` is a history variable:
what each file has held since the sync began; it says what a consistent copy is when files
change meanwhile. `Source` is what the exclusion patterns leave, at every depth
(`_is_excluded`).

`MirroredVolume` is the promise without transports, exclusions or an engine: a sync
`Begin`s, what it has seen of a file arrives in the volume of its workspace and may replace
what lay there (`Carry`), it says "source synced" only when every file that was there all
along has arrived (`Finish`), or gives up with a part of it there (`GiveUp`). `Mirror` maps
it to the contents that lie in a volume at the path of each source file (`Mirrored`) and to
`recent` for what was seen. Only the tar pipe keeps this promise; of docker cp it is said
that everything was copied to where cp puts it (`OkMeansCopied`). The rest of a step of
`WorkspaceSync` (the engine, the pipe, `sync --back`, a build) is a stutter, or `Otherwise`.

### CommandLine

The user types up to `MaxTokens` tokens, or a VS Code task does. One action per kind of
token follows argparse with `allow_abbrev=False`, `parse_known_args` (`west` passes unknown
arguments) and `REMAINDER`: options until the first word, the word is the action, the rest
are arguments. `Kept` is the list comprehension with which `do_run` takes `--container` out
of the words. `DropsDashes` is the behaviour of argparse before Python 3.13 on a `--` that
follows the action. Then `do_run`, with one action per branch, records in `ran` what was
started, on which engine, with which words, and which engines the doctor asked on the way:
`doctor` lists the backends, and so runs every engine in PATH, in a native configuration too
(`Probes`). `DetectEngine` and `EngineName` are the program's two ways to choose an engine;
the latter looks for a word in the name of the backend, and the sets `NamesPodman` and
`NamesDocker` are the names that have it. The parser part was compared with Python's
argparse, set up as in `env.py`, on 66,430 lines: no difference.

### CacheVolumes

`reset` inspects and removes one volume after the other (`Inspect`, `Remove`,
`RemoveFails`); `stats` inspects, asks for the size, and runs a container for ccache's own
numbers (`Size`, `Df`, `AskCcache`, `RunHelper`, `RunTimesOut`). Between any two calls of
the engine come other cache commands, containers that start (which creates the volume) and
end, Ctrl-C, and an engine that goes down; a command that finds no engine goes on as if
there were no volume (`Exists`), as the code does. `there`, `gone` and `silent` are history
variables: what a command could have seen since it began. An engine that is not installed
raises `FileNotFoundError` at the first call, which is `Interrupt` here.

### Doctor

A call of `doctor` or of `select(preferred)` is a sequence of checks, each a sequence of
questions to other programs, asked until one is not answered with yes. `Checks` is that
sequence as `_doctor`, `doctor_lines` (three of them), `select`, `check_container` and
`check_container_workspace` produce it from the configuration and the platform. A question
may hang; `Timed` ones then count as no. The world changes between any two questions
(`WorldChanges`, bounded by `MaxChanges`). `detect_all` calls each probe twice and throws
the first answer away but for the name; only the second is modelled. The lines that
`credentials.doctor_lines` prints say [PASS] whatever was answered; only its questions are
modelled. `held` and `missed` are history variables: which questions would have been
answered with yes, or not, at some moment of the call.

### ExecShim

One action per line of `exec.sh` from 27 on, beside the command, which ends when it likes
and with any status (0 stands for those that mean nothing here, 124 for a command that
reports a timeout of its own), the watchdog (SIGTERM, five seconds, SIGKILL) and the other
processes. bash collects a child as soon as it ends, so a process number is free from then
on and may be given to the next command, to a watchdog or to a `Stranger`. `Signal` goes to
a number, and to whoever has it: nobody (`kill` fails), a stranger, another shim's command
or another shim's watchdog. The command may catch SIGTERM. The shim itself may be
terminated (the EXIT trap runs) or killed (nothing runs); its command and watchdog go on.
Two children of one shell get different numbers, as a system that gives them out in turn
does; numbers that no shim has had yet are alike, so `Given` offers only one of them. The
`sleep` that a watchdog leaves behind when it is killed is left out.

## 3. Runs

All runs use 2 workers and stay below three minutes.

| Run | Checks | Instance |
|---|---|---|
| `BuildSerial` | `TypeOK`, `NoStaleBuild`, `ContainerNeedsLayout`, `RemovesOnlyStale`, `OneOwner` (refinement) | 2 invocations, never together; 4 files: native, container, container without image, rejected |
| `BuildConcurrent` | `RemovesOnlyWhenAsked` | 2 overlapping invocations of `build` and `benchmark`, native or with `--container`, 2 directories, unreadable caches |
| `SyncTar` | `TypeOK`, `NothingExcluded`, `OkMeansSynced`, `SyncsMirror` (refinement), `SyncsEnd` | 1 workspace: a source file, a file in a nested `.git`, an elf, an artifact; 2 contents |
| `SyncCp` | `OkMeansCopied` | docker cp, which may fail anywhere, repeated; a source file in a directory, an elf, an artifact; builds by hand in the volume; 2 contents, symmetric |
| `Commands` | `TypeOK`, `HandedOver`, `OptionsAsTyped`, `LegacyEngine` | 1 file with every line of up to 5 of 9 tokens; 123 files with every action and one more token; all 4 sets of engines |
| `Caches` | `TypeOK`, `ReportsTrue`, `CreatesNothingNew`, `CachesEnd` | 2 commands, 2 of the 4 volumes, up to 2 containers each, engine on and off |
| `Doctor` | `TypeOK`, `PicksTheFirst`, `VerdictTrue`, `EndsUnlessHung` | 3 platforms, 14 calls, every combination of what the backends ask for, one other question at a time answered no or not at all; 1 change of the world, 2 for `select` |
| `ExecShim` | `TypeOK`, `PidFiles`, `NothingLeft`, `TimeoutTold`, `LimitKept`, `ShimsEnd` | 2 shims, 3 process numbers, strangers |
| `SyncLost` | `OkMeansSynced`, violated | tar pipe, unreliable engine |
| `SyncAgain` | `OkMeansSynced`, violated | docker cp, reliable engine, a second sync after an edit |
| `SyncBack` | `BackBringsArtifact`, violated | container build, then `sync --back` |
| `ParseReset` | `CcacheOnly`, violated | `cache reset --ccache` |

What the passing runs show, and why the bounds are enough:

* `BuildSerial`. Used one command at a time in one build directory the check works: no
  sequence of edits, switches, failures, interruptions and removals leads to a build in a
  directory of the other mode (`NoStaleBuild`) or to the loss of a good one
  (`RemovesOnlyStale`). A build directory has four
  states and a command nothing but its own record, so a second invocation adds only the
  order of runs; the proof covers any number.
* `BuildConcurrent`. With overlap, verdicts go stale between check and removal; what still
  holds is that only `<topdir>/build` is removed and only with `--clean`. Two invocations
  give every interleaving of check, clean and build; the proof covers more.
* `SyncTar`, `SyncCp`. One included and one excluded file, with two contents, are enough to
  skip, swap or age a copy, and syncs are repeated without bound. Contents are only ever
  compared, so that permuting them is sound where `SyncCp` does so (it checks no liveness).
  What several workspaces and several syncs add is proved, or below.
* `Commands`. Five tokens hold an option with its value before the action and two tokens
  after it, in every order, including repeated options and missing or wrong values
  (`sync` is an action, and a mode when it follows `--mode`). For the choice of the engine
  two tokens suffice, an action and a flag or one argument; the files are every combination
  of type, engine, backend and mode that matters.
* `Caches`. Commands treat their volumes one by one, so two (ccache's and another) stand
  for four; two commands and two containers give a removal between another's inspection and
  its `run -v`, and a container left behind.
* `Doctor`. One change is enough for the selection and the list to contradict each other,
  two for a selection that saw no backend although there always was one; `PicksTheFirst`
  says what is right about each of them in such a world. The checks of a call do not read
  each other's answers but for `Unneeded`, so that the other questions need not be combined.
* `ExecShim`. Two shims and three numbers are enough for a number to go from a command or a
  watchdog to the other shim's, or to a stranger, at every line: the first shim holds at
  most two. The proofs cover more.

`CHECK_DEADLOCK FALSE` stands in the runs of `CommandLine` only: a command that is done
stops. Of the other models some never stop, because the user and the system never do;
`Doctor` says with `Halted` when it may.

### Fairness

Weak fairness only, and only of the program's own steps.

* `SyncsEnd`: the probe always, because `<engine> info` has a time limit of 15 s in the
  code; the other steps of a sync only while the engine is up, because `tar`, `run` and `cp`
  have no limit. The property says as much: a sync ends, or the engine is gone while it is
  past the probe.
* `CachesEnd`: the steps of a cache command. `run` has a time limit of 30 s; `volume
  inspect`, `volume rm` and `system df` have none and are assumed to return. The helper
  container need never end.
* `EndsUnlessHung`: `Answered`. A question with a time limit is answered or given up; a
  question without one owes nothing, and neither does the world.
* `LimitKept`, `ShimsEnd`: bash goes on and `sleep` ends. The command need never end, and a
  watchdog that a stray signal has hit does nothing more.

The user, the engine, Ctrl-C and other processes owe nothing.

### Disagreements with the documentation

Four runs find the code doing something else than a document, comment or help text of the
repository says; `PROJECT.json` "findings" quotes them. TLC also refutes the following,
with the small change of an instance that is named, for which no run is kept:

| Statement | Change | What happens |
|---|---|---|
| "Runs commands inside the selected backend" (`docs/ARCHITECTURE.md:27`) | `Commands`, `BackendRuns`: a file with `env.backend: podman-native`, both engines installed | `run_container` asks `get_engine` with the legacy key (`container.py:30`), which is "docker" by default: the build runs in docker, while sync and cache use podman |
| "This module detects the mismatch" (`buildcheck.py:11-12`) | `BuildSerial`, `Dirs = {"build", "app/build"}`, `NoStaleBuild` | the check looks at `<topdir>/build` (`env.py:172`); a build from a subdirectory, or with `-d`, uses a directory of the other mode without a warning |
| "created in a different execution mode" (`docs/REQUIREMENTS.md:304`) | `BuildSerial`, `HostSource <- WorkspaceSource`, `NoFalseAlarm` | a native rebuild below `/workspaces` is refused: the prefix test of `buildcheck.py:66` has no separator |
| "before any container operation" (`docs/REQUIREMENTS.md:290`) | `BuildSerial`, `Actions = {"benchmark"}`, `ContainerNeedsLayout` | `_benchmark` does not validate the layout |
| "excluded dirs are never uploaded" (`README.md:41`) | `SyncTar`, `TarPipe = FALSE`, `NothingExcluded` | cp excludes at the top level only |
| "identifier for a workspace path" (`sync.py:196`) | `SyncTar`, two workspaces with one `Slug`, the files of `SyncBack`: `\A v \in Volumes : \A x, y \in vol[v] : x.from = y.from` | two workspaces of the same base name share a volume, and its files are of both |
| "`west env sync --back`" (`README.md:98`) | `ParseReset` with tokens `sync`, `--back`: `ran.op = "sync" /\ "--back" \in Typed => ran.what = "back"` | the option is an argument; it syncs forward |
| "Arguments passed through" (`env.py:148`) | `Commands`: `ran.op = "build" => ran.words = Handed` | a `--` after the action is dropped (Python 3.10–3.12) |
| "Override backend" (`env.py:115`) | `Commands`, three tokens: `chosen["--backend"] \in NamesPodman /\ ran.engine # None => ran.engine = "podman"` | the value is never read |
| "setup  Initialize the environment" (`vscode.py:5`) | `Commands`: the task `<<"setup">>` and `exit # "usage"` | `setup` is not a choice of the parser |
| "kill after timeout" (`exec.sh:42`, of the command) | `ExecShim`, `NobodyElseHit` | between the end of a command and the end of its watchdog the number may be another process's, which the signal then hits; so may that of a watchdog that has ended by itself (`exec.sh:52`) |
| "reference build (e.g. `hello_world` for `native_sim`)" (`docs/FEATURE-PLAN.md:133`) | `Commands` with the action `benchmark`: `ran.words[3]` is not the value of `-b` | `benchmark -b BOARD` takes BOARD for the sample too |

What else the models show, which no document contradicts:

* `cache reset` with a daemon that is down prints "[OK] removed" for every volume
  (`cache.py:124`); `ReportsTrue` holds but for these commands (`silent`).
* A `cache stats` that runs into its time limit leaves its container behind, and the next
  reset fails with "Make sure no containers are using it".
* The verdict of the doctor ignores the backend, the credentials and J-Link: "[FAIL] No
  supported container backend" and "Environment looks good [OK]" stand in one report.
* The backend that the doctor selects and the list below it come from different probes,
  each of which ran twice, and may disagree.
* Two syncs of one workspace that overlap: the one that began earlier puts an older content
  in place of what the other has brought, which then says "source synced" (`SyncTar` with
  two processes: `OkMeansSynced`, `SyncsMirror`; `SyncCp` with two, `Reliable`:
  `OkMeansCopied`). Nothing keeps them apart.
* A sync whose engine goes away during the transfer may wait for ever (`SyncsEnd`).
* `west --version`, `git config`, the engine's `--version`, `image inspect` and `run` have
  no time limit: with one that hangs the doctor hangs (`Waiting`).
* A manifest path that begins with dots makes the doctor's check of the workspace fail
  (`env.py:292` strips characters, not a prefix).
* The watchdog of a shim that was killed lives on: the limit is kept, but the signal may hit
  the next owner of the number; if that is another shim's watchdog, the command of that shim
  has no limit any more (`dog = "hit"` in `LimitKept`). A command that ends with 143 or 137
  by itself is reported as a timeout; one that catches SIGTERM and ends with 0 is not.

## 4. Proofs

All proofs are checked by `tlapm` without gaps. Assumptions on constants are named in the
modules (`DirsAssumption`, `SourcesAssumption`, `MapsAssumption`, ...) and evaluated by
TLC in every run.

* `BuildCheckProofs`. `TypeCorrect`: `Spec => []TypeOK`. Under `Guarded` (one command at a
  time, readable caches, a host path that does not start with `/work`, no benchmark, builds
  only in `<topdir>/build`) `GuardInv` is inductive. `NoStaleBuild` speaks of running builds
  only; it is kept by steps because the verdict of the check stays true until the build
  runs, which `VerdictHolds` says of every step after the check, and because nobody else
  moves meanwhile (`OneAtATime`). `LayoutHolds` is the same for the layout. From it follow
  `BuildsInOwnMode`, `ContainersSeeLayout` and `DestroysOnlyStale`. Each conjunct of
  `Guarded` is needed: dropping it gives one of the counterexamples above, or the
  time-of-check race. `DestroysOnlyWhenAsked` needs no guard: `CleanIsAsked` is inductive
  with any number of overlapping commands. `HasOneOwner` is the refinement: under `Guarded`,
  `Spec => Owned!Spec`, by `GuardInv` and one step per action.
* `WorkspaceSyncProofs`. `TypeCorrect`. `TarExcludes`, `TarMirrorsPaths`: with the tar pipe,
  by `TarCarriesSource`. What success means rests on one invariant for both transports:
  `NothingSkipped` (a file that was there all along is still to be read, alone or with its
  entry, is in the pipe, or lies in the volume as it was at some moment of this sync), with
  `Directed` (what a sync has in hand fits the line it is at), `PipesAreOwn` and
  `HistoryHolds`. It needs that no two syncs fill one volume at a time
  (`[]OneSyncPerVolume`, a condition on the behaviour: syncs to different volumes may
  overlap, two workspaces may have the same slug, and a volume may be filled again and
  again, after failures too). From it follow `CopiedWhenSynced` (either transport; docker cp
  may fail or be killed anywhere, the tar pipe needs an engine that runs what it is given)
  and, with the tar pipe, `SyncedWhenReliable` (each file at its own path).
  `SyncsMirrorSource` is the refinement, under the same conditions and for the tar pipe: a
  lemma per kind of step says which step of `MirroredVolume` it is. Each condition is
  needed, as TLC shows: a tar pipe that breaks off (`SyncLost`), docker cp (`SyncAgain`), or
  two syncs that fill one volume at a time (section 3) violate the properties.
* `KeptProofs`. What `Kept` computes, for sequences of any length: its two equations, its
  type, that it keeps everything when everything is in the set, and that it distributes over
  `\o`. These are inductions over data. They are stated about sets (a set of numbers that
  has 0 and with a number the next is `Nat`, `AllNumbers`; the same for sequences,
  `AllSequences`) and follow from `Nat` being well-founded, so that no induction theorem
  with an operator parameter is needed.
* `CommandLineProofs`. For lines of any length: `LegacyEngineObeyed`, from `Picked` (what
  ran acted on an engine that one of the two choosers gives). `TypeCorrect` needs beside
  `TypeOK` that the value of `--mode` is a mode. `OptionsTaken` and `ArgumentsHandedOver`
  say that the parser's loop agrees with a reading of the whole line at once: `Parsed` says
  of every prefix that the flags, values and unknown options are those of the tokens read so
  far and that no word was passed over, from which the place where it stops is `ActionAt`
  (`ActionFound`).
* `CacheVolumesProofs`. `TypeCorrect`. `ReportsAreTrue` rests on `HasSeen` (a running
  command has seen what there is now, and asks ccache only about a volume it has seen),
  from which a volume that is reported now was gone, or there, at some moment. `NothingNew`
  follows from the same invariant: `run -v` creates nothing that the command has not seen.
* `DoctorProofs`. `TypeCorrect`: every call is a sequence of checks of one to three
  questions, by a lemma per part of `Checks`. `ChecksAreSeen`: the questions of a check that
  were answered so far were answered with yes at some moment. The world may change as often
  as it likes, here and in what follows. `VerdictIsTrue` and `FirstIsPicked` also need which
  checks a call makes: `DoctorElements` gives them as a set, where part and name tell the
  checks apart, and `Remembered` ties the answers so far to what was held or missed (only
  informing checks are skipped). `ProbeNeeds` compares what a probe asks with the
  independent list `Needs`.
* `ExecShimProofs`. `Line` says what the line of the shim tells of the command, its number
  and the watchdog, `Own` that nobody else has the number of a live watchdog, so that
  the signal that shall end it does;
  with the types they are inductive (`ControlCorrect`). From them follow `TypeCorrect` and
  `TimeoutsAreTold`. `NothingIsLeft` adds which PID files there may be; `FilesTrackCommands`
  is inductive beside it.

Only model-checked: the liveness properties `SyncsEnd`, `CachesEnd`,
`EndsUnlessHung`, `LimitKept` and `ShimsEnd`, which rest on fairness and ENABLED. Every other
property of a passing run is a theorem. Outside the proofs: that the modelled parser is
argparse (compared by running both, section 2), and the instances of section 3 that name a
violation.

## 5. Not modelled

* The J-Link process and the GDB server: one external call each, whose guards are in
  `CommandLine` and whose tools are in `Doctor`.
* The JSON record of benchmark, the files of `vscode.py` and `platform.py`: written in one
  go, read by nothing in the program.
* `volume_args` of sync, cache and credentials, `container_args`, `_rsync_to` and `status`:
  no caller in the program, so nothing they do is reachable. (`select` with a preferred
  backend has none but `get_backend`, which has none itself; it is modelled because the doctor
  shares it.)
* `exec.cmd`, which polls the list of processes; the log files of both shims (two commands
  in one second share them, `exec.sh:21`); the children of the command.
* The bootstrap scripts (plan, below). The image scripts in `container/` are a straight
  line of docker commands; CI and tests are not part of the program.
* The text of commands, output and YAML syntax is abstracted everywhere.

## 6. Plan

Done: `BuildCheck` with `OwnedDirectory`, `WorkspaceSync` with `MirroredVolume`,
`CommandLine`, `CacheVolumes`, `Doctor`, `ExecShim`, and their proofs. What would come
next, in this order:

1. `Bootstrap`: interrupted and repeated runs; a half-made `.venv` that the next run takes
   for a whole one (`bootstrap.sh:93`).
2. An abstract specification of a command with a time limit, implemented by `ExecShim`.
3. `exec.cmd`, beside `ExecShim`.
