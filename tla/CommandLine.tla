----------------------------- MODULE CommandLine -----------------------------
(***************************************************************************)
(* From what the user types after `west env' to what runs on which engine:  *)
(* the parser and the dispatch of west_commands/env.py, the engine that     *)
(* each action picks (west_env/engine.py, EnvCommand._engine_name), and the *)
(* generated VS Code tasks that type for the user.                          *)
(*                                                                         *)
(* The parser is argparse as env.py sets it up.  It takes options as long   *)
(* as they come first; the first word is the action; "args" is REMAINDER,   *)
(* so that everything after the action is an argument, options included.    *)
(* Whether a container command then succeeds is the matter of BuildCheck    *)
(* and WorkspaceSync; here a command has run when its operation is started. *)
(***************************************************************************)
EXTENDS EnvConfig, Naturals, Sequences

CONSTANTS
    Words,          \* words that are neither an action nor an option
    Others,         \* options the parser does not know: those of west build
    Files,          \* the west-env.yml files the user may have
    Typeable,       \* Files -> the tokens the user of that file types
    MaxTokens,      \* Files -> bound: how many of them
    Paths,          \* the sets of engines that may be in PATH
    DropsDashes     \* argparse before 3.13 removes a "--" after the action

Actions ==
    {"init", "build", "shell", "doctor", "sync", "flash", "debug", "cache",
     "benchmark", "generate-tasks", "version"}

OwnFlags  == {"--container", "--back", "--clean", "--ccache", "--modules"}
OwnValued == {"--backend", "--mode"}
Help      == "-h"
Dashes    == "--"
Options   == OwnFlags \cup OwnValued \cup Others \cup {Help}
Tokens    == Actions \cup Words \cup Options \cup {Dashes} \cup ValidModes \cup ValidBackends

Engines == {"docker", "podman"}
Unset   == "unset"
None    == "none"

ASSUME TokensAssumption ==
    /\ Typeable \in [Files -> SUBSET Tokens]
    /\ MaxTokens \in [Files -> Nat]
    /\ Words \cap (Actions \cup Options \cup {Dashes, Unset}) = {}
    /\ {"setup", "stats", "reset"} \subseteq Words
    /\ Others \cap (Actions \cup Words \cup {Dashes, Unset}) = {}
    /\ Others \cap (OwnFlags \cup OwnValued \cup {Help}) = {}
    /\ DropsDashes \in BOOLEAN
ASSUME EnginesAssumption == Paths \subseteq SUBSET Engines

VARIABLES
    file,       \* the west-env.yml
    path,       \* the engines in PATH
    line,       \* the tokens after `west env'
    pc,         \* "typing", "options", "run", "done"
    pos,        \* the token argparse looks at
    dashed,     \* has it seen "--" before the action?
    flags,      \* the flags taken
    chosen,     \* the values of --backend and --mode
    extras,     \* the unknown options before the action
    action,     \* the action
    args,       \* the arguments after it
    exit,       \* how the command ended
    ran         \* what it started

parsed == <<pos, dashed, flags, chosen, extras, action, args>>
vars   == <<file, path, line, pc, parsed, exit, ran>>

Nothing == [op |-> None, what |-> None, engine |-> None, words |-> <<>>, probes |-> {}]

Init ==
    /\ file \in Files
    /\ path \in Paths
    /\ line = <<>>
    /\ pc = "typing"
    /\ pos = 1 /\ dashed = FALSE
    /\ flags = {} /\ chosen = [o \in OwnValued |-> Unset]
    /\ extras = <<>> /\ action = None /\ args = <<>>
    /\ exit = None /\ ran = Nothing

-----------------------------------------------------------------------------
(* What reaches the parser.                                                 *)

Type(t) ==
    /\ pc = "typing" /\ Len(line) < MaxTokens[file]
    /\ line' = Append(line, t)
    /\ UNCHANGED <<file, path, pc, parsed, exit, ran>>

Enter ==
    /\ pc = "typing"
    /\ pc' = "options"
    /\ UNCHANGED <<file, path, line, parsed, exit, ran>>

(* _ACTIONS of vscode.py, each through the wrapper of its first word, which *)
(* runs `west env <word> "$@"'.                                             *)
Tasks ==
    {<<"setup">>, <<"sync">>, <<"build">>, <<"sync", "--back">>, <<"flash">>,
     <<"debug">>, <<"cache", "stats">>, <<"cache", "reset">>, <<"benchmark">>}

RunTask(t) ==
    /\ pc = "typing" /\ line = <<>>
    /\ line' = t
    /\ pc' = "options"
    /\ UNCHANGED <<file, path, parsed, exit, ran>>

-----------------------------------------------------------------------------
(* The options before the action.                                           *)

More == pos <= Len(line)

AtOption == pc = "options" /\ More /\ ~dashed /\ line[pos] \in Options

Stop(how) ==
    /\ pc' = "done" /\ exit' = how
    /\ UNCHANGED <<file, path, line, parsed, ran>>

TakeHelp == AtOption /\ line[pos] = Help /\ Stop("help")

TakeFlag ==
    /\ AtOption /\ line[pos] \in OwnFlags
    /\ flags' = flags \cup {line[pos]}
    /\ pos' = pos + 1
    /\ UNCHANGED <<file, path, line, pc, dashed, chosen, extras, action, args,
                   exit, ran>>

HasValue ==
    /\ pos < Len(line)
    /\ line[pos + 1] \notin Options \cup {Dashes}
    /\ line[pos] = "--mode" => line[pos + 1] \in ValidModes

(* Slip: the value is stored where nobody reads it.                         *)
TakeValueLost ==
    /\ AtOption /\ line[pos] \in OwnValued /\ HasValue
    /\ pos' = pos + 2
    /\ UNCHANGED <<file, path, line, pc, dashed, flags, chosen, extras, action, args,
                   exit, ran>>

TakeValue ==
    /\ AtOption /\ line[pos] \in OwnValued /\ HasValue
    /\ chosen' = [chosen EXCEPT ![line[pos]] = line[pos + 1]]
    /\ pos' = pos + 2
    /\ UNCHANGED <<file, path, line, pc, dashed, flags, extras, action, args,
                   exit, ran>>

RefuseValue == AtOption /\ line[pos] \in OwnValued /\ ~HasValue /\ Stop("usage")

TakeUnknown ==
    /\ AtOption /\ line[pos] \in Others
    /\ extras' = Append(extras, line[pos])
    /\ pos' = pos + 1
    /\ UNCHANGED <<file, path, line, pc, dashed, flags, chosen, action, args,
                   exit, ran>>

TakeDashes ==
    /\ pc = "options" /\ More /\ ~dashed /\ line[pos] = Dashes
    /\ dashed' = TRUE
    /\ pos' = pos + 1
    /\ UNCHANGED <<file, path, line, pc, flags, chosen, extras, action, args,
                   exit, ran>>

(* Slip: nargs="?" for REMAINDER.                                           *)
RestIsOne == IF pos < Len(line) THEN line[pos + 1] ELSE None

(* The action, and what is left of the line.                                *)
Rest ==
    LET rest == SubSeq(line, pos + 1, Len(line))
    IN  IF DropsDashes /\ ~dashed /\ rest # <<>> /\ rest[1] = Dashes
        THEN Tail(rest) ELSE rest

TakeAction ==
    /\ pc = "options" /\ More /\ line[pos] \in Actions
    /\ action' = line[pos]
    /\ args' = Rest
    /\ pc' = "run"
    /\ UNCHANGED <<file, path, line, pos, dashed, flags, chosen, extras, exit, ran>>

RefuseAction ==
    /\ pc = "options" /\ ~AtOption
    /\ More => line[pos] \notin Actions /\ (line[pos] = Dashes => dashed)
    /\ Stop("usage")

-----------------------------------------------------------------------------
(* do_run.                                                                  *)

cfg == Settings(file)

UseContainer == "--container" \in flags \/ WantsContainer(cfg)

(* The elements of a sequence that are in a set, in their order.            *)
Kept(s, K) ==
    LET upto[n \in 0..Len(s)] ==
            IF n = 0 THEN <<>>
            ELSE IF s[n] \in K THEN Append(upto[n - 1], s[n]) ELSE upto[n - 1]
    IN  upto[Len(s)]

NotContainer == Tokens \ {"--container"}

(* Slip: the unknown options are forgotten.                                 *)
PassthroughArgs == Kept(args, NotContainer)

Passthrough == Kept(args, NotContainer) \o Kept(extras, NotContainer)

(* detect_engine and _engine_name: two answers to the same question.        *)
DetectEngine ==
    IF cfg.engine # "auto" THEN (IF cfg.engine \in path THEN cfg.engine ELSE None)
    ELSE IF "docker" \in path THEN "docker"
    ELSE IF "podman" \in path THEN "podman"
    ELSE None

(* The backends whose names have the one word in them, and the other.       *)
NamesPodman == {"podman-machine-hyperv", "podman-native", "podman-machine", "podman"}
NamesDocker == {"docker-desktop", "docker-native", "docker-machine", "docker"}

(* Slip: the legacy key is not read.                                        *)
EngineNameNew ==
    IF cfg.backend \in NamesPodman THEN "podman" ELSE "docker"

EngineName ==
    IF cfg.backend \in NamesPodman THEN "podman"
    ELSE IF cfg.backend \in NamesDocker THEN "docker"
    ELSE IF cfg.engine = "auto" THEN "docker" ELSE cfg.engine

(* The doctor's list of backends asks every engine there is for its version,*)
(* whatever the configuration says.                                         *)
Probes == IF action = "doctor" THEN path ELSE {}

Does(what, engine, words) ==
    /\ pc' = "done" /\ exit' = "ran"
    /\ ran' = [op |-> action, what |-> what, engine |-> engine, words |-> words,
               probes |-> Probes]
    /\ UNCHANGED <<file, path, line, parsed>>

Running(ops) == pc = "run" /\ action \in ops /\ Accepted(file)

BadConfig == pc = "run" /\ ~Accepted(file) /\ Stop("error")

(* _run_container, for those who get that far: an image and an engine.      *)
InContainer(words) ==
    \/ HasImage(cfg) /\ DetectEngine # None /\ Does("container", DetectEngine, words)
    \/ ~(HasImage(cfg) /\ DetectEngine # None) /\ Stop("error")

CommandWords == IF action = "build" THEN Passthrough ELSE <<>>

BuildInitShell ==
    /\ Running({"init", "build", "shell"})
    /\ IF UseContainer THEN InContainer(CommandWords)
       ELSE Does("host", None, CommandWords)

(* Prints what it finds and always exits with 0.  Besides its probes it runs*)
(* the checks of the container, in container mode.                          *)
Doctor ==
    /\ Running({"doctor"})
    /\ Does("doctor", IF UseContainer THEN DetectEngine ELSE None, <<>>)

SyncMode == IF chosen["--mode"] # Unset THEN chosen["--mode"] ELSE cfg.workspace_mode

Sync ==
    /\ Running({"sync"})
    /\ IF EngineName \notin path THEN Stop("error")
       ELSE Does(IF "--back" \in flags THEN "back" ELSE SyncMode, EngineName, <<>>)

Flash ==
    /\ Running({"flash"})
    /\ IF cfg.jlink_mode = "none" \/ Passthrough = <<>> THEN Stop("error")
       ELSE Does("host", None, Passthrough)

Debug ==
    /\ Running({"debug"})
    /\ Does("host", None, IF Passthrough = <<>> THEN <<"auto">> ELSE <<Passthrough[1]>>)

(* Without arguments: stats.  The engine is started without a look at PATH. *)
Cache ==
    /\ Running({"cache"})
    /\ LET sub == IF Passthrough = <<>> THEN "stats" ELSE Passthrough[1]
           what == IF sub = "stats" THEN "stats"
                   ELSE IF "--ccache" \in flags THEN "ccache"
                   ELSE IF "--modules" \in flags THEN "modules" ELSE "all"
       IN  IF sub \in {"stats", "reset"} /\ EngineName \in path
           THEN Does(what, EngineName, <<>>) ELSE Stop("error")

(* The board is what follows the last -b, the sample the last word that is  *)
(* not an option: the board too, if nothing follows it.                     *)
LastOf(positions) == CHOOSE i \in positions : \A j \in positions : j <= i

Board ==
    LET at == {i \in 1..(Len(Passthrough) - 1) : Passthrough[i] \in {"-b", "--board"}}
    IN  IF at = {} THEN "native_sim" ELSE Passthrough[LastOf(at) + 1]
Sample ==
    LET at == {i \in 1..Len(Passthrough) : Passthrough[i] \notin Options \cup {Dashes}}
    IN  IF at = {} THEN <<>> ELSE <<Passthrough[LastOf(at)]>>

(* Every failure of the build is printed and the command exits with 0;      *)
(* --container is not asked.                                                *)
Benchmark ==
    /\ Running({"benchmark"})
    /\ LET words == <<"-b", Board>> \o Sample
       IN  IF ~WantsContainer(cfg) THEN Does("host", None, words)
           ELSE IF HasImage(cfg) /\ DetectEngine # None
           THEN Does("container", DetectEngine, words)
           ELSE Stop("ran")

TasksOrVersion ==
    /\ Running({"generate-tasks", "version"})
    /\ Does("host", None, <<>>)

-----------------------------------------------------------------------------
Parse ==
    \/ TakeHelp \/ TakeFlag \/ TakeValue \/ RefuseValue \/ TakeUnknown
    \/ TakeDashes \/ TakeAction \/ RefuseAction

Run ==
    \/ BadConfig \/ BuildInitShell \/ Doctor \/ Sync \/ Flash \/ Debug
    \/ Cache \/ Benchmark \/ TasksOrVersion

Next ==
    \/ \E t \in Typeable[file] : Type(t)
    \/ Enter
    \/ \E t \in Tasks : RunTask(t)
    \/ Parse
    \/ Run

Spec == Init /\ [][Next]_vars

-----------------------------------------------------------------------------
(* Properties.                                                              *)

(* What a command can start.                                                *)
Effects ==
    {None, "host", "container", "doctor", "back", "stats", "ccache", "modules", "all"}
    \cup ValidModes

(* The type of every variable of the model.                                 *)
TypeOK ==
    /\ file \in Files /\ path \in Paths
    /\ line \in Seq(Tokens)
    /\ pc \in {"typing", "options", "run", "done"}
    /\ pos \in Nat \ {0} /\ dashed \in BOOLEAN
    /\ flags \subseteq OwnFlags
    /\ chosen \in [OwnValued -> Tokens \cup {Unset}]
    /\ extras \in Seq(Others)
    /\ action \in Actions \cup {None}
    /\ args \in Seq(Tokens)
    /\ exit \in {None, "help", "usage", "error", "ran"}
    /\ ran \in [op : Actions \cup {None}, what : Effects, engine : Engines \cup {None},
                words : Seq(Tokens \cup {"auto", "-b", "native_sim"}),
                probes : SUBSET Engines]

(* The reference for the parser: where the action is, what is before it, and*)
(* what is after.                                                           *)
IsValue(k)  == k > 1 /\ line[k - 1] \in OwnValued
ActionAt    == CHOOSE k \in 1..Len(line) :
                   LET word(i) == line[i] \notin Options \cup {Dashes} /\ ~IsValue(i)
                   IN  word(k) /\ \A i \in 1..(k - 1) : ~word(i)
Before      == SubSeq(line, 1, ActionAt - 1)
After       == SubSeq(line, ActionAt + 1, Len(line))
Typed       == {line[k] : k \in 1..Len(line)}

NotDashes   == Tokens \ {Dashes}
Handed      == Kept(After, NotContainer) \o Kept(Before, Others)

(* west build gets every argument that was typed, in the order typed, and   *)
(* the unknown options from before the action after them.                   *)
HandedOver ==
    exit = "ran" /\ ran.op = "build" =>
        Kept(ran.words, NotDashes) = Kept(Handed, NotDashes)

(* When the action is known, the flags in force are those typed before it,  *)
(* and an option with a value has the last one typed there.                 *)
OptionsAsTyped ==
    pc = "run" =>
        /\ action = line[ActionAt]
        /\ flags = {Before[k] : k \in 1..Len(Before)} \cap OwnFlags
        /\ \A o \in OwnValued :
              LET at == {k \in 1..(Len(Before) - 1) : Before[k] = o}
              IN  chosen[o] = IF at = {} THEN Unset ELSE Before[LastOf(at) + 1]

(* A file in the legacy format that names an engine is obeyed by every      *)
(* command: build, doctor, sync, cache and benchmark use that one.          *)
LegacyEngine ==
    ran.engine # None /\ file.backend = Absent /\ file.engine # "auto" =>
        ran.engine = Default(file.engine, "docker")

(* Builds run in the engine of the configured backend, the one that sync and*)
(* cache take.                                                              *)
BackendRuns ==
    ran.what = "container" /\ file.backend \notin {Absent, "auto"} =>
        ran.engine = EngineName

(* `cache reset --ccache' clears the ccache only.                           *)
CcacheOnly ==
    ran.op = "cache" /\ "--ccache" \in Typed => ran.what \in {"stats", "ccache"}
=============================================================================
