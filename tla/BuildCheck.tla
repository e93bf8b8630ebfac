------------------------------ MODULE BuildCheck ------------------------------
(***************************************************************************)
(* `west env build', `init', `shell' and `benchmark' against the build      *)
(* directories of one workspace: EnvCommand.do_run and _benchmark of        *)
(* west_commands/env.py, west_env/buildcheck.py and the launch of a command *)
(* on the host (util.run_host) or in a container (container.run_container). *)
(*                                                                         *)
(* A build directory does not exist, exists without a CMakeCache.txt, or    *)
(* has a cache that names the source directory it was configured from:      *)
(* HostSource after a native build, ContainerSource after a container one.  *)
(* WorkPrefixed is the set of those paths that start with "/work", which is *)
(* all that detect_stale_build looks at.                                    *)
(***************************************************************************)
EXTENDS EnvConfig

CONSTANTS
    Invocations,        \* the `west env' processes that may run
    Actions,            \* the actions the user asks for
    Files,              \* the west-env.yml files the user writes
    Dirs,               \* the directories `west build' may build in: the
                        \* cwd's build/, or the -d argument
    TopBuild,           \* <topdir>/build, the directory that is checked
    HostSource,         \* the source path of a native build
    ContainerSource,    \* the source path of a container build, under /work
    WorkPrefixed,       \* the source paths that start with "/work"
    Concurrent,         \* may the user do two things at once?
    ReadErrors          \* may reading CMakeCache.txt raise OSError?

Sources == {HostSource, ContainerSource}
NoDir   == "no directory"
NoCache == "no CMakeCache.txt"

ASSUME ActionsAssumption == Actions \subseteq {"init", "shell", "build", "benchmark"}
ASSUME DirsAssumption == TopBuild \in Dirs
ASSUME SourcesAssumption ==
    /\ HostSource # ContainerSource
    /\ NoDir \notin Sources
    /\ NoCache \notin Sources
    /\ ContainerSource \in WorkPrefixed
ASSUME SwitchesAssumption == Concurrent \in BOOLEAN /\ ReadErrors \in BOOLEAN

VARIABLES
    file,       \* the west-env.yml of the manifest directory
    layout,     \* would validate_workspace_layout pass?
    engine,     \* does the container engine run what it is asked to?
    build,      \* Dirs -> what the build directory holds
    pc,         \* Invocations -> the next step of do_run
    job,        \* Invocations -> what the arguments and the file asked for
    exit        \* Invocations -> how the last run of it ended

vars == <<file, layout, engine, build, pc, job, exit>>

Job == [action : {"none", "init", "shell", "build", "benchmark"},
        container : BOOLEAN, clean : BOOLEAN, image : BOOLEAN, dir : Dirs]

NoJob == [action |-> "none", container |-> FALSE, clean |-> FALSE,
          image |-> FALSE, dir |-> TopBuild]

Idle(p) == pc[p] = "idle"

(* Nothing runs, or the user does not wait for what runs.                   *)
UserFree == Concurrent \/ \A p \in Invocations : Idle(p)

(* The source path that a build of invocation p configures with.            *)
Own(p) == IF job[p].container THEN ContainerSource ELSE HostSource

Init ==
    /\ file \in Files
    /\ layout \in BOOLEAN
    /\ engine \in BOOLEAN
    /\ build = [d \in Dirs |-> NoDir]
    /\ pc = [p \in Invocations |-> "idle"]
    /\ job = [p \in Invocations |-> NoJob]
    /\ exit = [p \in Invocations |-> "none"]

-----------------------------------------------------------------------------
(* The end of an invocation, and the exit status the caller sees.           *)

Ends(p, status) ==
    /\ pc' = [pc EXCEPT ![p] = "idle"]
    /\ job' = [job EXCEPT ![p] = NoJob]
    /\ exit' = [exit EXCEPT ![p] = status]

Goes(p, step) ==
    /\ pc' = [pc EXCEPT ![p] = step]
    /\ UNCHANGED <<job, exit>>

(* An exception ends every action with a traceback, but _benchmark catches  *)
(* it, prints [FAIL] and returns.                                           *)
Fails(p) == Ends(p, IF job[p].action = "benchmark" THEN "ok" ELSE "error")

-----------------------------------------------------------------------------
(* do_run: load the configuration, choose the mode, dispatch.               *)

StartRejected(p) ==
    /\ Idle(p) /\ UserFree
    /\ ~Accepted(file)
    /\ Ends(p, "error")
    /\ UNCHANGED <<file, layout, engine, build>>

(* Slip: a native `init' goes to a step that nobody takes.                  *)
FirstStepNowhere(action, container) ==
    CASE action = "build"     -> "check"
      [] action = "benchmark" -> "launch"
      [] action \in {"init", "shell"} -> IF container THEN "validate" ELSE action

FirstStep(action, container) ==
    CASE action = "build"     -> "check"
      [] action = "benchmark" -> "launch"
      [] action = "init"      -> IF container THEN "validate" ELSE "finish"
      [] action = "shell"     -> IF container THEN "validate" ELSE "launch"

Start(p, action, force, clean, dir) ==
    /\ Idle(p) /\ UserFree
    /\ Accepted(file)
    /\ LET cfg       == Settings(file)
           container == \/ WantsContainer(cfg)
                        \/ force /\ action # "benchmark"
       IN  /\ job' = [job EXCEPT ![p] =
                         [action |-> action, container |-> container,
                          clean |-> clean /\ action = "build",
                          image |-> HasImage(cfg), dir |-> dir]]
           /\ pc' = [pc EXCEPT ![p] = FirstStep(action, container)]
    /\ UNCHANGED <<file, layout, engine, build, exit>>

(* `west env init' without a container only prints a line.                  *)
Finish(p) ==
    /\ pc[p] = "finish"
    /\ Ends(p, "ok")
    /\ UNCHANGED <<file, layout, engine, build>>

-----------------------------------------------------------------------------
(* buildcheck.py.                                                           *)

(* Slip: one direction is forgotten.                                        *)
StaleOneWay(held, container) ==
    held \in Sources /\ container /\ held \notin WorkPrefixed

(* detect_stale_build, on what <topdir>/build holds.                        *)
Stale(held, container) ==
    /\ held \in Sources
    /\ container # (held \in WorkPrefixed)

(* Slip: a container build launched without validation.                     *)
AfterCheckLaunch(p) == "launch"

AfterCheck(p) == IF job[p].container THEN "validate" ELSE "launch"

CheckPasses(p) ==
    /\ pc[p] = "check"
    /\ ~Stale(build[TopBuild], job[p].container)
    /\ Goes(p, AfterCheck(p))
    /\ UNCHANGED <<file, layout, engine, build>>

(* OSError while the cache is read: taken for "not yet configured".         *)
CheckUnreadable(p) ==
    /\ ReadErrors
    /\ pc[p] = "check"
    /\ build[TopBuild] \in Sources
    /\ Goes(p, AfterCheck(p))
    /\ UNCHANGED <<file, layout, engine, build>>

(* Slip: the mismatch is reported, and the build goes on.                   *)
CheckWarns(p) ==
    /\ pc[p] = "check"
    /\ Stale(build[TopBuild], job[p].container)
    /\ ~job[p].clean
    /\ Goes(p, AfterCheck(p))
    /\ UNCHANGED <<file, layout, engine, build>>

CheckRefuses(p) ==
    /\ pc[p] = "check"
    /\ Stale(build[TopBuild], job[p].container)
    /\ ~job[p].clean
    /\ Ends(p, "stale")
    /\ UNCHANGED <<file, layout, engine, build>>

(* Slips: --clean removes a good directory too; a stale one is removed      *)
(* without --clean.                                                         *)
CheckCleansGood(p) ==
    /\ pc[p] = "check"
    /\ job[p].clean
    /\ Goes(p, "clean")
    /\ UNCHANGED <<file, layout, engine, build>>

CheckCleansUnasked(p) ==
    /\ pc[p] = "check"
    /\ Stale(build[TopBuild], job[p].container)
    /\ Goes(p, "clean")
    /\ UNCHANGED <<file, layout, engine, build>>

CheckCleans(p) ==
    /\ pc[p] = "check"
    /\ Stale(build[TopBuild], job[p].container)
    /\ job[p].clean
    /\ Goes(p, "clean")
    /\ UNCHANGED <<file, layout, engine, build>>

(* clean_build_dir: whatever is there by now is removed.                    *)
Clean(p) ==
    /\ pc[p] = "clean"
    /\ build' = [build EXCEPT ![TopBuild] = NoDir]
    /\ Goes(p, AfterCheck(p))
    /\ UNCHANGED <<file, layout, engine>>

(* What an rmtree that stopped half way leaves of a directory.              *)
Leftovers(held) == IF held = NoDir THEN {NoDir} ELSE {held, NoCache}

(* rmtree raises: files a container wrote as root, a file in use.           *)
CleanFails(p) ==
    /\ pc[p] = "clean"
    /\ build[TopBuild] # NoDir
    /\ \E left \in Leftovers(build[TopBuild]) :
          build' = [build EXCEPT ![TopBuild] = left]
    /\ Fails(p)
    /\ UNCHANGED <<file, layout, engine>>

-----------------------------------------------------------------------------
(* Launching the command.                                                   *)

Validate(p) ==
    /\ pc[p] = "validate"
    /\ IF layout THEN Goes(p, "launch") ELSE Fails(p)
    /\ UNCHANGED <<file, layout, engine, build>>

(* run_host, or run_container, which needs an image and an engine.          *)
Launch(p) ==
    /\ pc[p] = "launch"
    /\ job[p].container => job[p].image /\ engine
    /\ Goes(p, "running")
    /\ UNCHANGED <<file, layout, engine, build>>

LaunchFails(p) ==
    /\ pc[p] = "launch"
    /\ job[p].container
    /\ ~(job[p].image /\ engine)
    /\ Fails(p)
    /\ UNCHANGED <<file, layout, engine, build>>

Builds(p) == job[p].action \in {"build", "benchmark"}

(* `west build' (external): a fresh directory is configured with the        *)
(* builder's own source path, unless the build fails before it writes the   *)
(* cache; a directory configured from another source path stays as it is.   *)
BuildOutcomes(held, own) ==
    IF held \in {NoDir, NoCache} THEN {held, NoCache, own} ELSE {held}

RunEnds(p) ==
    /\ pc[p] = "running"
    /\ IF Builds(p)
       THEN \E held \in BuildOutcomes(build[job[p].dir], Own(p)) :
               /\ build' = [build EXCEPT ![job[p].dir] = held]
               /\ \/ held = Own(p) /\ Ends(p, "ok")
                  \/ Fails(p)
       ELSE build' = build /\ (Ends(p, "ok") \/ Fails(p))
    /\ UNCHANGED <<file, layout, engine>>

-----------------------------------------------------------------------------
(* What happens around the program.                                         *)

(* Ctrl-C or a signal, at any point of the run.                             *)
Interrupt(p) ==
    /\ ~Idle(p)
    /\ \/ build' = build
       \/ /\ pc[p] = "clean"
          /\ \E left \in Leftovers(build[TopBuild]) :
                build' = [build EXCEPT ![TopBuild] = left]
       \/ /\ pc[p] = "running" /\ Builds(p)
          /\ \E held \in BuildOutcomes(build[job[p].dir], Own(p)) :
                build' = [build EXCEPT ![job[p].dir] = held]
    /\ Ends(p, "killed")
    /\ UNCHANGED <<file, layout, engine>>

(* The user edits west-env.yml in an editor, at any time.                   *)
EditFile ==
    /\ file' \in Files
    /\ UNCHANGED <<layout, engine, build, pc, job, exit>>

(* The daemon stops or starts, at any time.                                 *)
EngineToggles ==
    /\ engine' = ~engine
    /\ UNCHANGED <<file, layout, build, pc, job, exit>>

(* `west init' and `west update', or a move of the manifest.                *)
LayoutChanges ==
    /\ UserFree
    /\ layout' = ~layout
    /\ UNCHANGED <<file, engine, build, pc, job, exit>>

(* `rm -rf build', as the refusal advises, and `west build' on the host.    *)
UserRemoves(d) ==
    /\ UserFree
    /\ build' = [build EXCEPT ![d] = NoDir]
    /\ UNCHANGED <<file, layout, engine, pc, job, exit>>

UserBuilds(d) ==
    /\ UserFree
    /\ \E held \in BuildOutcomes(build[d], HostSource) :
          build' = [build EXCEPT ![d] = held]
    /\ UNCHANGED <<file, layout, engine, pc, job, exit>>

-----------------------------------------------------------------------------
Step(p) ==
    \/ Finish(p)
    \/ CheckPasses(p) \/ CheckUnreadable(p) \/ CheckRefuses(p) \/ CheckCleans(p)
    \/ Clean(p) \/ CleanFails(p)
    \/ Validate(p) \/ Launch(p) \/ LaunchFails(p) \/ RunEnds(p)

Next ==
    \/ \E p \in Invocations :
          \/ \E a \in Actions, force, clean \in BOOLEAN, d \in Dirs :
                Start(p, a, force, clean, d)
          \/ StartRejected(p)
          \/ Step(p)
          \/ Interrupt(p)
    \/ EditFile \/ EngineToggles \/ LayoutChanges
    \/ \E d \in Dirs : UserRemoves(d) \/ UserBuilds(d)

Spec == Init /\ [][Next]_vars

-----------------------------------------------------------------------------
(* Properties.                                                              *)

PcValues == {"idle", "finish", "check", "clean", "validate", "launch", "running"}

(* The type of every variable of the model.                                 *)
TypeOK ==
    /\ file \in Files
    /\ layout \in BOOLEAN
    /\ engine \in BOOLEAN
    /\ build \in [Dirs -> {NoDir, NoCache} \cup Sources]
    /\ pc \in [Invocations -> PcValues]
    /\ job \in [Invocations -> Job]
    /\ exit \in [Invocations -> {"none", "ok", "error", "stale", "killed"}]

(* No `west build' that west-env launched works in a directory that was     *)
(* configured in the other execution mode, whatever was built, switched,    *)
(* interrupted or removed before it: what detect_stale_build is there for.  *)
NoStaleBuild ==
    \A p \in Invocations :
        pc[p] = "running" /\ Builds(p)
            => build[job[p].dir] \in {NoDir, NoCache, Own(p)}

(* A container command of a finished dispatch runs only in a workspace      *)
(* whose layout validate_workspace_layout would still accept.               *)
ContainerNeedsLayout ==
    \A p \in Invocations :
        pc[p] = "running" /\ job[p].container => layout

(* The modes that west-env is building with, of which there should be one at*)
(* most, and the promise of OwnedDirectory about <topdir>/build: taken      *)
(* together, the steps of all invocations, of the user and of the failures  *)
(* are steps of a directory that has one owner at a time.                   *)
Working(p) == pc[p] = "running" /\ Builds(p)
Owners     == {Own(p) : p \in {q \in Invocations : Working(q)}}

Owned == INSTANCE OwnedDirectory WITH
             Modes <- Sources, Free <- {NoDir, NoCache},
             held <- build[TopBuild], owner <- Owners

OneOwner == Owned!Spec

(* What makes NoStaleBuild and RemovesOnlyStale inductive, when one thing   *)
(* is done at a time: nothing but the one invocation touches its build      *)
(* directory, and the verdict of its check still holds when it acts on it.  *)

OneAtATime ==
    \A p, q \in Invocations : ~Idle(p) /\ ~Idle(q) => p = q

VerdictHolds ==
    \A p \in Invocations :
        /\ pc[p] = "clean"
              => job[p].clean /\ build[TopBuild] \in Sources \ {Own(p)}
        /\ pc[p] \in {"validate", "launch", "running"} /\ Builds(p)
              => build[TopBuild] \in {NoDir, NoCache, Own(p)}

LayoutHolds ==
    \A p \in Invocations :
        pc[p] \in {"launch", "running"} /\ job[p].container => layout

CleanIsAsked ==
    \A p \in Invocations : pc[p] = "clean" => job[p].clean

GuardInv == TypeOK /\ OneAtATime /\ VerdictHolds /\ LayoutHolds

(* The circumstances under which detect_stale_build sees what it has to:    *)
(* nothing runs beside the invocation, the cache is readable, host paths do *)
(* not look like container ones, every build is a `west env build' and it   *)
(* works in the directory that is checked.                                  *)
Guarded ==
    /\ ~Concurrent
    /\ ~ReadErrors
    /\ HostSource \notin WorkPrefixed
    /\ "benchmark" \notin Actions
    /\ Dirs = {TopBuild}

(* What the message of the refusal says (docs/REQUIREMENTS.md:304): the     *)
(* directory was configured in the other mode.  It is so unless the host    *)
(* path starts with /work, as /workspaces does (buildcheck.py:66).          *)
NoFalseAlarm ==
    [][\A p \in Invocations :
          pc[p] # "idle" /\ pc'[p] = "idle" /\ exit'[p] = "stale"
              => build[TopBuild] \in Sources \ {Own(p)}]_vars

(* The invocation that a step belongs to.                                   *)
Moves(p) == pc'[p] # pc[p]

(* Build output that west-env itself destroys was configured in the other   *)
(* mode, lay in <topdir>/build, and --clean was given.                      *)
RemovesOnlyStale ==
    [][\A p \in Invocations, d \in Dirs :
          Moves(p) /\ build[d] \in Sources /\ build'[d] \notin Sources
              => d = TopBuild /\ job[p].clean /\ build[d] # Own(p)]_vars

(* Even when invocations overlap, west-env destroys build output only in    *)
(* <topdir>/build and only for an invocation that was given --clean.        *)
RemovesOnlyWhenAsked ==
    [][\A p \in Invocations, d \in Dirs :
          Moves(p) /\ build[d] \in Sources /\ build'[d] \notin Sources
              => d = TopBuild /\ job[p].clean]_vars
=============================================================================
