-------------------------- MODULE CommandLineProofs --------------------------
(***************************************************************************)
(* Proofs about CommandLine: which engine a command acts on, what the parser*)
(* makes of a line and what west build gets, for every line the user can    *)
(* type and every file.  What Kept computes is in KeptProofs.               *)
(***************************************************************************)
EXTENDS KeptProofs

(* Nothing has run before a command is done, and what ran acted on an       *)
(* engine that the file and the engines in PATH lead to.                    *)
Picked ==
    \/ ran = Nothing
    \/ /\ Accepted(file)
       /\ ran.op \in Actions
       /\ ran.engine \in (IF ran.op \in {"sync", "cache"} THEN {EngineName}
                          ELSE {None, DetectEngine})

LEMMA DoesPicks ==
  ASSUME NEW what, NEW engine, NEW words, Does(what, engine, words),
         Accepted(file), action \in Actions,
         engine \in (IF action \in {"sync", "cache"} THEN {EngineName}
                     ELSE {None, DetectEngine})
  PROVE  Picked'
<1>1. /\ ran'.op = action /\ ran'.engine = engine
      /\ file' = file /\ path' = path
  BY DEF Does, parsed
<1>2. /\ Accepted(file') /\ cfg' = cfg
      /\ EngineName' = EngineName /\ DetectEngine' = DetectEngine
  BY <1>1 DEF cfg, EngineName, DetectEngine
<1> QED BY <1>1, <1>2 DEF Picked

LEMMA PickedKept ==
  ASSUME Picked, ran' = ran, file' = file, path' = path
  PROVE  Picked'
<1>1. cfg' = cfg /\ EngineName' = EngineName /\ DetectEngine' = DetectEngine
  BY DEF cfg, EngineName, DetectEngine
<1> QED BY <1>1 DEF Picked

LEMMA PickedStep ==
  ASSUME Picked, [Next]_vars
  PROVE  Picked'
<1>1. CASE UNCHANGED vars
  BY <1>1, PickedKept DEF vars, parsed
<1>2. CASE \/ \E t \in Typeable[file] : Type(t)
           \/ Enter
           \/ \E t \in Tasks : RunTask(t)
  BY <1>2, PickedKept DEF Type, Enter, RunTask, parsed
<1>3. CASE Parse
  BY <1>3, PickedKept DEF Parse, TakeHelp, TakeFlag, TakeValue, RefuseValue, TakeUnknown,
     TakeDashes, TakeAction, RefuseAction, Stop, parsed
<1>4. CASE \E how \in {"usage", "error", "ran"} : Stop(how)
  BY <1>4, PickedKept DEF Stop, parsed
<1>5. CASE BuildInitShell
  <2>1. action \in Actions \ {"sync", "cache"} /\ Accepted(file)
    BY <1>5 DEF BuildInitShell, Running, Actions
  <2>2. \/ Stop("error")
        \/ Does("container", DetectEngine, CommandWords)
        \/ Does("host", None, CommandWords)
    BY <1>5 DEF BuildInitShell, InContainer
  <2> QED BY <2>1, <2>2, <1>4, DoesPicks
<1>6. CASE Doctor
  <2>1. action = "doctor" /\ action \in Actions /\ Accepted(file)
    BY <1>6 DEF Doctor, Running, Actions
  <2>2. Does("doctor", IF UseContainer THEN DetectEngine ELSE None, <<>>)
    BY <1>6 DEF Doctor
  <2> QED BY <2>1, <2>2, DoesPicks
<1>7. CASE Sync
  <2>1. action = "sync" /\ action \in Actions /\ Accepted(file)
    BY <1>7 DEF Sync, Running, Actions
  <2>2. Stop("error") \/ \E what : Does(what, EngineName, <<>>)
    BY <1>7 DEF Sync
  <2>3. ASSUME NEW what, Does(what, EngineName, <<>>)
        PROVE  Picked'
    BY <2>1, <2>3, DoesPicks
  <2> QED BY <2>2, <2>3, <1>4
<1>8. CASE Cache
  <2>1. action = "cache" /\ action \in Actions /\ Accepted(file)
    BY <1>8 DEF Cache, Running, Actions
  <2>2. Stop("error") \/ \E what : Does(what, EngineName, <<>>)
    BY <1>8 DEF Cache
  <2>3. ASSUME NEW what, Does(what, EngineName, <<>>)
        PROVE  Picked'
    BY <2>1, <2>3, DoesPicks
  <2> QED BY <2>2, <2>3, <1>4
<1>9. CASE Flash \/ Debug \/ TasksOrVersion
  <2>1. action \in Actions /\ Accepted(file)
    BY <1>9 DEF Flash, Debug, TasksOrVersion, Running, Actions
  <2>2. Stop("error") \/ \E words : Does("host", None, words)
    BY <1>9 DEF Flash, Debug, TasksOrVersion
  <2>3. ASSUME NEW words, Does("host", None, words)
        PROVE  Picked'
    <3>1. action \notin {"sync", "cache"}
      BY <1>9 DEF Flash, Debug, TasksOrVersion, Running
    <3> QED BY <2>1, <2>3, <3>1, DoesPicks
  <2> QED BY <2>2, <2>3, <1>4
<1>10. CASE Benchmark
  <2>1. action = "benchmark" /\ action \in Actions /\ Accepted(file)
    BY <1>10 DEF Benchmark, Running, Actions
  <2>2. \/ Stop("ran")
        \/ \E words : Does("host", None, words)
        \/ \E words : Does("container", DetectEngine, words)
    BY <1>10 DEF Benchmark
  <2> QED BY <2>1, <2>2, <1>4, DoesPicks
<1>11. CASE BadConfig
  BY <1>11, <1>4 DEF BadConfig
<1> QED BY <1>1, <1>2, <1>3, <1>5, <1>6, <1>7, <1>8, <1>9, <1>10, <1>11 DEF Next, Run

(* Whatever ran acted on an engine that one of the two choosers gives       *)
(* (detect_engine for containers, _engine_name for volumes).                *)
THEOREM EnginesPicked == Spec => []Picked
<1>1. Init => Picked
  BY DEF Init, Picked
<1> QED BY <1>1, PickedStep, PTL DEF Spec

-----------------------------------------------------------------------------
(* A legacy file that names an engine, or none: sync and cache (_engine_name*)
(* of env.py) and the container commands (detect_engine of engine.py) agree *)
(* on it, whatever else the file says and whatever is in PATH.              *)
THEOREM LegacyEngineObeyed == Spec => []LegacyEngine
<1>1. Picked => LegacyEngine
  <2> SUFFICES ASSUME Picked, ran.engine # None, file.backend = Absent,
                      file.engine # "auto"
               PROVE  ran.engine = Default(file.engine, "docker")
    BY DEF LegacyEngine
  <2>1. Accepted(file) /\ ran.engine \in {EngineName, DetectEngine}
    BY DEF Picked, Nothing
  <2>2. /\ cfg.engine = Default(file.engine, "docker")
        /\ cfg.env_type = Default(file.type, "native")
        /\ cfg.backend = BackendOf(file)
    BY DEF cfg, Settings
  <2>3. cfg.engine \in {"docker", "podman"} /\ cfg.env_type \in {"native", "container"}
    BY <2>1, <2>2 DEF Accepted, cfg, Default, Absent
  <2>4. DetectEngine \in {cfg.engine, None}
    BY <2>3 DEF DetectEngine
  <2>5. BackendOf(file) = IF Default(file.type, "native") = "native" THEN "auto"
                          ELSE IF cfg.engine = "docker" THEN "docker-native"
                          ELSE "podman-native"
    BY <2>2, <2>3 DEF BackendOf
  <2>6. EngineName = cfg.engine
    BY <2>2, <2>3, <2>5 DEF EngineName, NamesPodman, NamesDocker
  <2> QED BY <2>1, <2>2, <2>4, <2>6
<1> QED BY <1>1, EnginesPicked, PTL

-----------------------------------------------------------------------------
LEMMA TaskTokens == \A t \in Tasks : t \in Seq(Tokens)
<1>1. {"setup", "stats", "reset", "sync", "build", "flash", "debug", "cache",
       "benchmark", "--back"} \subseteq Tokens
  BY TokensAssumption DEF Tokens, Actions, Options, OwnFlags
<1>2. ASSUME NEW a \in Tokens, NEW b \in Tokens
      PROVE  <<a>> \in Seq(Tokens) /\ <<a, b>> \in Seq(Tokens)
  OBVIOUS
<1> QED BY <1>1, <1>2 DEF Tasks

(* The types.  A mode is one the parser lets through, so that what sync is  *)
(* told to do is a mode and not any token.                                  *)
WellTyped == TypeOK /\ chosen["--mode"] \in ValidModes \cup {Unset}

RanWords == Tokens \cup {"auto", "-b", "native_sim"}

LEMMA PassthroughType ==
  ASSUME args \in Seq(Tokens), extras \in Seq(Others)
  PROVE  Passthrough \in Seq(Tokens)
<1>1. Others \subseteq Tokens
  BY DEF Tokens, Options
<1>2. extras \in Seq(Tokens)
  BY <1>1, SeqMonotonic
<1>3. Kept(args, NotContainer) \in Seq(Tokens \cap NotContainer)
  BY KeptType
<1>4. Kept(extras, NotContainer) \in Seq(Tokens \cap NotContainer)
  BY <1>2, KeptType
<1>5. Tokens \cap NotContainer \subseteq Tokens
  OBVIOUS
<1>6. Kept(args, NotContainer) \in Seq(Tokens) /\ Kept(extras, NotContainer) \in Seq(Tokens)
  BY <1>3, <1>4, <1>5, SeqMonotonic
<1> QED BY <1>6, ConcatProperties DEF Passthrough

LEMMA EnginesType ==
  ASSUME WellTyped, Accepted(file)
  PROVE  EngineName \in Engines /\ DetectEngine \in Engines \cup {None}
<1>1. path \subseteq Engines
  BY EnginesAssumption DEF WellTyped, TypeOK
<1>2. cfg.engine \in {"auto", "docker", "podman"}
  BY DEF Accepted, cfg
<1>3. EngineName \in Engines
  BY <1>2 DEF EngineName, Engines
<1>4. DetectEngine \in Engines \cup {None}
  BY <1>1, <1>2 DEF DetectEngine, Engines
<1> QED BY <1>3, <1>4

(* The board and the sample of benchmark are words it was given.            *)
LEMMA BenchmarkWords ==
  ASSUME Passthrough \in Seq(Tokens)
  PROVE  <<"-b", Board>> \o Sample \in Seq(RanWords)
<1> DEFINE boards == {i \in 1..(Len(Passthrough) - 1) : Passthrough[i] \in {"-b", "--board"}}
           samples == {i \in 1..Len(Passthrough) : Passthrough[i] \notin Options \cup {Dashes}}
           n == Len(Passthrough)
<1>1. n \in Nat /\ \A i \in 1..n : Passthrough[i] \in Tokens
  OBVIOUS
<1>2. Board \in RanWords
  <2>1. CASE boards = {}
    BY <2>1 DEF Board, RanWords
  <2>2. CASE boards # {}
    <3>1. boards \in SUBSET (1..n)
      BY <1>1
    <3>2. LastOf(boards) \in boards
      BY <1>1, <3>1, <2>2, LastOfIsLast
    <3>3. LastOf(boards) + 1 \in 1..n
      BY <1>1, <3>2
    <3>4. Board = Passthrough[LastOf(boards) + 1]
      BY <2>2 DEF Board
    <3> QED BY <1>1, <3>3, <3>4 DEF RanWords
  <2> QED BY <2>1, <2>2
<1>3. Sample \in Seq(RanWords)
  <2>1. CASE samples = {}
    BY <2>1 DEF Sample
  <2>2. CASE samples # {}
    <3>1. samples \in SUBSET (1..n)
      BY <1>1
    <3>2. LastOf(samples) \in 1..n
      BY <1>1, <3>1, <2>2, LastOfIsLast
    <3>3. Sample = <<Passthrough[LastOf(samples)]>>
      BY <2>2 DEF Sample
    <3>4. Passthrough[LastOf(samples)] \in RanWords
      BY <1>1, <3>2 DEF RanWords
    <3> QED BY <3>3, <3>4
  <2> QED BY <2>1, <2>2
<1>4. <<"-b", Board>> \in Seq(RanWords)
  <2>1. "-b" \in RanWords
    BY DEF RanWords
  <2> QED BY <1>2, <2>1
<1> QED BY <1>3, <1>4, ConcatProperties

(* A command that runs keeps the types if what it starts has its own.       *)
LEMMA DoesTyped ==
  ASSUME NEW what, NEW engine, NEW words, Does(what, engine, words), WellTyped,
         what \in Effects, engine \in Engines \cup {None}, words \in Seq(RanWords)
  PROVE  WellTyped'
<1>1. ran' \in [op : Actions \cup {None}, what : Effects, engine : Engines \cup {None},
                words : Seq(RanWords), probes : SUBSET Engines]
  <2>1. path \subseteq Engines /\ action \in Actions \cup {None}
    BY EnginesAssumption DEF WellTyped, TypeOK
  <2>2. Probes \in SUBSET Engines
    BY <2>1 DEF Probes
  <2> QED BY <2>1, <2>2 DEF Does
<1>2. UNCHANGED <<file, path, line, pos, dashed, flags, chosen, extras, action, args>>
      /\ pc' = "done" /\ exit' = "ran"
  BY DEF Does, parsed
<1> QED BY <1>1, <1>2 DEF WellTyped, TypeOK, RanWords

LEMMA KnownEffects ==
  {None, "host", "container", "doctor", "stats", "ccache", "modules", "all"} \subseteq Effects
BY DEF Effects

LEMMA StopTyped ==
  ASSUME NEW how \in {"help", "usage", "error", "ran"}, Stop(how), WellTyped
  PROVE  WellTyped'
BY DEF Stop, parsed, WellTyped, TypeOK

LEMMA RunTyped ==
  ASSUME WellTyped, Run
  PROVE  WellTyped'
<1>1. /\ Passthrough \in Seq(Tokens)
      /\ Tokens \subseteq RanWords
  BY PassthroughType DEF WellTyped, TypeOK, RanWords
<1>2. Passthrough \in Seq(RanWords) /\ <<>> \in Seq(RanWords)
  BY <1>1, SeqMonotonic
<1>3. CommandWords \in Seq(RanWords)
  BY <1>2 DEF CommandWords
<1>4. Accepted(file) => EngineName \in Engines /\ DetectEngine \in Engines \cup {None}
  BY EnginesType
<1>5. CASE BadConfig
  BY <1>5, StopTyped DEF BadConfig
<1>6. CASE BuildInitShell
  <2>1. \/ Stop("error")
        \/ Does("container", DetectEngine, CommandWords)
        \/ Does("host", None, CommandWords)
    BY <1>6 DEF BuildInitShell, InContainer
  <2>2. Accepted(file)
    BY <1>6 DEF BuildInitShell, Running
  <2> QED BY <2>1, <2>2, <1>3, <1>4, StopTyped, DoesTyped, KnownEffects
<1>7. CASE Doctor
  <2>1. Accepted(file) /\ (\/ Does("doctor", DetectEngine, <<>>) \/ Does("doctor", None, <<>>))
    BY <1>7 DEF Doctor, Running
  <2> QED BY <2>1, <1>2, <1>4, DoesTyped, KnownEffects
<1>8. CASE Sync
  <2> DEFINE what == IF "--back" \in flags THEN "back" ELSE SyncMode
  <2>1. Accepted(file) /\ (Stop("error") \/ Does(what, EngineName, <<>>))
    BY <1>8 DEF Sync, Running
  <2>2. what \in Effects
    <3>1. ValidModes \cup {"back"} \subseteq Effects
      BY DEF Effects
    <3>2. cfg.workspace_mode \in ValidModes
      BY <2>1 DEF Accepted, cfg
    <3> QED BY <3>1, <3>2 DEF SyncMode, WellTyped
  <2> HIDE DEF what
  <2> QED BY <2>1, <2>2, <1>2, <1>4, StopTyped, DoesTyped, KnownEffects
<1>9. CASE Flash
  <2>1. Stop("error") \/ Does("host", None, Passthrough)
    BY <1>9 DEF Flash
  <2> QED BY <2>1, <1>2, StopTyped, DoesTyped, KnownEffects
<1>10. CASE Debug
  <2> DEFINE words == IF Passthrough = <<>> THEN <<"auto">> ELSE <<Passthrough[1]>>
  <2>1. words \in Seq(RanWords)
    <3>1. "auto" \in RanWords
      BY DEF RanWords
    <3>2. Passthrough # <<>> => Passthrough[1] \in RanWords
      BY <1>2
    <3> QED BY <3>1, <3>2
  <2>2. Does("host", None, words)
    BY <1>10 DEF Debug
  <2> HIDE DEF words
  <2> QED BY <2>1, <2>2, DoesTyped, KnownEffects
<1>11. CASE Cache
  <2>1. Accepted(file)
        /\ (Stop("error") \/ \E what \in {"stats", "ccache", "modules", "all"} :
                               Does(what, EngineName, <<>>))
    BY <1>11 DEF Cache, Running
  <2> QED BY <2>1, <1>2, <1>4, StopTyped, DoesTyped, KnownEffects
<1>12. CASE Benchmark
  <2> DEFINE words == <<"-b", Board>> \o Sample
  <2>1. Accepted(file) /\ (\/ Does("host", None, words) \/ Does("container", DetectEngine, words)
                           \/ Stop("ran"))
    BY <1>12 DEF Benchmark, Running
  <2>2. words \in Seq(RanWords)
    BY <1>1, BenchmarkWords
  <2> HIDE DEF words
  <2> QED BY <2>1, <2>2, <1>4, StopTyped, DoesTyped, KnownEffects
<1>13. CASE TasksOrVersion
  BY <1>13, <1>2, DoesTyped, KnownEffects DEF TasksOrVersion
<1> QED BY <1>5, <1>6, <1>7, <1>8, <1>9, <1>10, <1>11, <1>12, <1>13 DEF Run

LEMMA ParseTyped ==
  ASSUME WellTyped, Parse
  PROVE  WellTyped'
<1>1. CASE TakeHelp \/ RefuseValue \/ RefuseAction
  BY <1>1, StopTyped DEF TakeHelp, RefuseValue, RefuseAction
<1>2. CASE TakeFlag
  BY <1>2 DEF TakeFlag, WellTyped, TypeOK
<1>3. CASE TakeValue
  <2>1. line[pos + 1] \in Tokens /\ (line[pos] = "--mode" => line[pos + 1] \in ValidModes)
    BY <1>3 DEF TakeValue, HasValue, WellTyped, TypeOK
  <2>2. chosen' = [chosen EXCEPT ![line[pos]] = line[pos + 1]] /\ line[pos] \in OwnValued
    BY <1>3 DEF TakeValue
  <2>3. chosen' \in [OwnValued -> Tokens \cup {Unset}]
    BY <2>1, <2>2 DEF WellTyped, TypeOK
  <2>4. chosen'["--mode"] \in ValidModes \cup {Unset}
    BY <2>1, <2>2 DEF WellTyped, TypeOK, OwnValued
  <2>5. pos' \in Nat \ {0}
    BY <1>3 DEF TakeValue, WellTyped, TypeOK
  <2> QED BY <1>3, <2>3, <2>4, <2>5 DEF TakeValue, WellTyped, TypeOK
<1>4. CASE TakeUnknown
  <2>1. extras' \in Seq(Others)
    BY <1>4 DEF TakeUnknown, AtOption, More, WellTyped, TypeOK
  <2> QED BY <1>4, <2>1 DEF TakeUnknown, WellTyped, TypeOK
<1>5. CASE TakeDashes
  BY <1>5 DEF TakeDashes, WellTyped, TypeOK
<1>6. CASE TakeAction
  <2>1. SubSeq(line, pos + 1, Len(line)) \in Seq(Tokens)
    BY SubSeqProperties DEF WellTyped, TypeOK
  <2>2. Rest \in Seq(Tokens)
    BY <2>1 DEF Rest
  <2> QED BY <1>6, <2>2 DEF TakeAction, WellTyped, TypeOK
<1> QED BY <1>1, <1>2, <1>3, <1>4, <1>5, <1>6 DEF Parse

LEMMA TypesHold == Spec => []WellTyped
<1>1. Init => WellTyped
  <2> SUFFICES ASSUME Init
               PROVE  WellTyped
    OBVIOUS
  <2>1. ran \in [op : Actions \cup {None}, what : Effects, engine : Engines \cup {None},
                 words : Seq(RanWords), probes : SUBSET Engines]
    BY KnownEffects DEF Init, Nothing
  <2>2. /\ chosen \in [OwnValued -> Tokens \cup {Unset}]
        /\ chosen["--mode"] \in ValidModes \cup {Unset}
    BY DEF Init, OwnValued
  <2>3. line \in Seq(Tokens) /\ extras \in Seq(Others) /\ args \in Seq(Tokens)
    BY EmptySeq DEF Init
  <2>4. dashed \in BOOLEAN
    BY Zenon DEF Init
  <2>5. pos \in Nat \ {0}
    <3>1. pos = 1
      BY DEF Init
    <3> QED BY <3>1
  <2>6. /\ file \in Files /\ path \in Paths /\ pc = "typing" /\ flags \subseteq OwnFlags
        /\ action \in Actions \cup {None} /\ exit = None
    BY Zenon DEF Init
  <2> QED BY <2>1, <2>2, <2>3, <2>4, <2>5, <2>6 DEF WellTyped, TypeOK, RanWords
<1>2. WellTyped /\ [Next]_vars => WellTyped'
  <2> SUFFICES ASSUME WellTyped, [Next]_vars
               PROVE  WellTyped'
    OBVIOUS
  <2>1. CASE \E t \in Typeable[file] : Type(t)
    <3>1. PICK t \in Typeable[file] : Type(t)
      BY <2>1
    <3>2. t \in Tokens
      BY TokensAssumption DEF WellTyped, TypeOK
    <3> QED BY <3>1, <3>2 DEF Type, parsed, WellTyped, TypeOK
  <2>2. CASE Enter
    BY <2>2 DEF Enter, parsed, WellTyped, TypeOK
  <2>3. CASE \E t \in Tasks : RunTask(t)
    <3>1. line' \in Seq(Tokens)
      BY <2>3, TaskTokens DEF RunTask
    <3> QED BY <2>3, <3>1 DEF RunTask, parsed, WellTyped, TypeOK
  <2>4. CASE UNCHANGED vars
    BY <2>4 DEF vars, parsed, WellTyped, TypeOK
  <2> QED BY <2>1, <2>2, <2>3, <2>4, ParseTyped, RunTyped DEF Next
<1> QED BY <1>1, <1>2, PTL DEF Spec

(* The types hold for lines of any length and any file: a command is handed *)
(* tokens that were typed or a default, and a known engine.                 *)
THEOREM TypeCorrect == Spec => []TypeOK
BY TypesHold, PTL DEF WellTyped

-----------------------------------------------------------------------------
(* How far the parser has read: no word was passed over, the flags, the     *)
(* values and the unknown options are those of the tokens behind it.        *)
IsWord(k) == line[k] \notin Options \cup {Dashes} /\ ~IsValue(k)

(* The option o has the value that follows its last occurrence among the    *)
(* first n tokens, if there is one.                                         *)
At(o, n) == {k \in 1..(n - 1) : line[k] = o}
HasLast(o, n, value) ==
    value = IF At(o, n) = {} THEN Unset ELSE line[LastOf(At(o, n)) + 1]

Looked ==
    /\ pos <= Len(line) + 1
    /\ \A k \in 1..(pos - 1) : ~IsWord(k)
    /\ pos > 1 => line[pos - 1] \notin OwnValued
    /\ flags = {line[k] : k \in 1..(pos - 1)} \cap OwnFlags
    /\ extras = Kept(SubSeq(line, 1, pos - 1), Others)
    /\ \A o \in OwnValued : HasLast(o, pos - 1, chosen[o])

AtAction ==
    /\ pos <= Len(line)
    /\ line[pos] \in Actions
    /\ action = line[pos]
    /\ args = Rest

(* The inductive invariant of the parser.                                   *)
Parsed ==
    /\ pc = "typing" => pos = 1 /\ flags = {} /\ extras = <<>>
                        /\ chosen = [o \in OwnValued |-> Unset]
    /\ pc \in {"options", "run"} => Looked
    /\ pc = "run" => AtAction
    /\ pc # "done" => exit = None /\ ran = Nothing
    /\ HandedOver

LEMMA FirstLooked ==
  ASSUME WellTyped', pos' = 1, flags' = {}, extras' = <<>>,
         chosen' = [o \in OwnValued |-> Unset]
  PROVE  Looked'
<1>1. pos' - 1 = 0 /\ 1..(pos' - 1) = {} /\ 1..((pos' - 1) - 1) = {}
  OBVIOUS
<1>2. line' \in Seq(Tokens)
  BY DEF WellTyped, TypeOK
<1>3. SubSeq(line', 1, pos' - 1) = <<>>
  BY <1>1, <1>2, SubSeqEmpty
<1>4. extras' = Kept(SubSeq(line', 1, pos' - 1), Others)
  BY <1>3, KeptOfNothing
<1>5. ASSUME NEW o \in OwnValued
      PROVE  HasLast(o, pos - 1, chosen[o])'
  <2>1. At(o, pos - 1)' = {}
    BY <1>1 DEF At
  <2>2. chosen'[o] = Unset
    OBVIOUS
  <2> QED BY <2>1, <2>2 DEF HasLast
<1>6. flags' = {line'[k] : k \in 1..(pos' - 1)} \cap OwnFlags
  BY <1>1
<1>7. pos' <= Len(line') + 1
  BY <1>2
<1> QED BY <1>1, <1>4, <1>5, <1>6, <1>7 DEF Looked

(* One token more, which is neither a word nor an option with a value.      *)
LEMMA LooksOn ==
  ASSUME WellTyped, Looked, pos <= Len(line), line' = line, pos' = pos + 1,
         line[pos] \in Options \cup {Dashes}, line[pos] \notin OwnValued,
         flags' = flags \cup ({line[pos]} \cap OwnFlags),
         extras' = IF line[pos] \in Others THEN Append(extras, line[pos]) ELSE extras,
         chosen' = chosen
  PROVE  Looked'
<1>1. /\ line \in Seq(Tokens) /\ pos \in 1..Len(line) /\ Len(line) \in Nat
      /\ pos - 1 \in Nat /\ pos' - 1 = pos /\ 1..pos = 1..(pos - 1) \cup {pos}
  BY DEF WellTyped, TypeOK
<1>2. SubSeq(line, 1, pos) = Append(SubSeq(line, 1, pos - 1), line[pos])
  BY <1>1, SubSeqRecursiveSecond
<1>3. SubSeq(line, 1, pos - 1) \in Seq(Tokens) /\ line[pos] \in Tokens
  BY <1>1
<1>4. Kept(SubSeq(line, 1, pos), Others) =
        IF line[pos] \in Others THEN Append(extras, line[pos]) ELSE extras
  <2> DEFINE s == SubSeq(line, 1, pos - 1)
             e == line[pos]
  <2> HIDE DEF s, e
  <2>1. s \in Seq(Tokens) /\ e \in Tokens
    BY <1>3 DEF s, e
  <2>2. Kept(Append(s, e), Others) = IF e \in Others THEN Append(Kept(s, Others), e) ELSE Kept(s, Others)
    BY <2>1, KeptOfAppend
  <2>3. extras = Kept(s, Others)
    BY DEF Looked, s
  <2> QED BY <1>2, <2>2, <2>3, Zenon DEF s, e
<1>5. ASSUME NEW k \in 1..(pos' - 1)
      PROVE  ~IsWord(k)'
  BY <1>1, <1>5 DEF Looked, IsWord, IsValue
<1>6. flags' = {line[k] : k \in 1..pos} \cap OwnFlags
  BY <1>1 DEF Looked
<1>7. ASSUME NEW o \in OwnValued
      PROVE  HasLast(o, pos - 1, chosen[o])'
  <2>1. At(o, pos) = At(o, pos - 1)
    <3>1. ASSUME NEW k \in 1..(pos - 1), line[k] = o
          PROVE  k \in 1..(pos - 2)
      <4>1. k = pos - 1 => pos > 1 /\ line[pos - 1] = o
        BY <3>1, <1>1
      <4> QED BY <3>1, <4>1, <1>1 DEF Looked
    <3>2. (pos - 1) - 1 = pos - 2 /\ 1..(pos - 2) \subseteq 1..(pos - 1)
      BY <1>1
    <3> QED BY <3>1, <3>2 DEF At
  <2>2. HasLast(o, pos, chosen[o])
    BY <2>1 DEF Looked, HasLast
  <2>3. At(o, pos - 1)' = At(o, pos)
    BY <1>1 DEF At
  <2> QED BY <2>2, <2>3 DEF HasLast
<1>8. pos' <= Len(line') + 1
  BY <1>1
<1>9. pos' > 1 => line'[pos' - 1] \notin OwnValued
  BY <1>1
<1> QED BY <1>1, <1>4, <1>5, <1>6, <1>7, <1>8, <1>9 DEF Looked

(* An option and its value.                                                 *)
LEMMA LooksOnTwo ==
  ASSUME WellTyped, Looked, pos < Len(line), line' = line, pos' = pos + 2,
         line[pos] \in OwnValued, line[pos + 1] \notin Options \cup {Dashes},
         flags' = flags, extras' = extras,
         chosen' = [chosen EXCEPT ![line[pos]] = line[pos + 1]]
  PROVE  Looked'
<1>1. /\ line \in Seq(Tokens) /\ pos \in 1..Len(line) /\ pos + 1 \in 1..Len(line)
      /\ Len(line) \in Nat /\ pos - 1 \in Nat /\ pos' - 1 = pos + 1
      /\ (pos + 1) - 1 = pos /\ 1..pos = 1..(pos - 1) \cup {pos}
      /\ 1..(pos + 1) = 1..(pos - 1) \cup {pos, pos + 1}
  <2>1. line \in Seq(Tokens) /\ pos \in Nat \ {0}
    BY DEF WellTyped, TypeOK
  <2>2. Len(line) \in Nat
    BY <2>1
  <2>3. ASSUME NEW n \in Nat \ {0}
        PROVE  1..n = 1..(n - 1) \cup {n} /\ 1..(n + 1) = 1..(n - 1) \cup {n, n + 1}
    OBVIOUS
  <2> QED BY <2>1, <2>2, <2>3
<1>2. SubSeq(line, 1, pos + 1) = Append(Append(SubSeq(line, 1, pos - 1), line[pos]), line[pos + 1])
  <2>1. SubSeq(line, 1, pos) = Append(SubSeq(line, 1, pos - 1), line[pos])
    BY <1>1, SubSeqRecursiveSecond
  <2>2. SubSeq(line, 1, pos + 1) = Append(SubSeq(line, 1, pos), line[pos + 1])
    BY <1>1, SubSeqRecursiveSecond
  <2> QED BY <2>1, <2>2
<1>3. /\ SubSeq(line, 1, pos - 1) \in Seq(Tokens)
      /\ Append(SubSeq(line, 1, pos - 1), line[pos]) \in Seq(Tokens)
      /\ line[pos] \in Tokens /\ line[pos + 1] \in Tokens
  BY <1>1
<1>4. line[pos] \notin Others /\ line[pos + 1] \notin Others
  BY TokensAssumption DEF Options
<1>5. Kept(SubSeq(line, 1, pos + 1), Others) = extras
  <2> DEFINE s == SubSeq(line, 1, pos - 1)
             t == Append(s, line[pos])
  <2> HIDE DEF s, t
  <2>1. s \in Seq(Tokens) /\ t \in Seq(Tokens)
    BY <1>3 DEF s, t
  <2>2. Kept(t, Others) = Kept(s, Others)
    BY <1>3, <1>4, <2>1, KeptOfAppend DEF t
  <2>3. Kept(Append(t, line[pos + 1]), Others) = Kept(t, Others)
    BY <1>3, <1>4, <2>1, KeptOfAppend
  <2>4. extras = Kept(s, Others)
    BY DEF Looked, s
  <2> QED BY <1>2, <2>2, <2>3, <2>4, Zenon DEF s, t
<1>6. ASSUME NEW k \in 1..(pos' - 1)
      PROVE  ~IsWord(k)'
  <2>1. line[pos] \in Options
    BY DEF Options
  <2>2. CASE k = pos + 1
    BY <1>1, <2>2 DEF IsWord, IsValue
  <2>3. CASE k = pos
    BY <2>1, <2>3 DEF IsWord
  <2>4. CASE k \in 1..(pos - 1)
    BY <2>4 DEF Looked, IsWord, IsValue
  <2> QED BY <1>1, <2>2, <2>3, <2>4
<1>7. flags' = {line[k] : k \in 1..(pos + 1)} \cap OwnFlags
  <2>1. line[pos] \notin OwnFlags /\ line[pos + 1] \notin OwnFlags
    BY DEF Options, OwnValued, OwnFlags
  <2> QED BY <1>1, <2>1 DEF Looked
<1>8. ASSUME NEW o \in OwnValued
      PROVE  HasLast(o, pos + 1, chosen'[o])
  <2>1. At(o, pos - 1) \subseteq At(o, pos + 1) /\ At(o, pos + 1) \subseteq At(o, pos - 1) \cup {pos}
    <3>1. ASSUME NEW k \in 1..pos, line[k] = o
          PROVE  k \in 1..((pos - 1) - 1) \cup {pos}
      <4>1. k = pos - 1 => pos > 1 /\ line[pos - 1] = o
        BY <3>1, <1>1
      <4> QED BY <3>1, <4>1, <1>1 DEF Looked
    <3>2. 1..((pos - 1) - 1) \subseteq 1..pos
      BY <1>1
    <3> QED BY <3>1, <3>2, <1>1 DEF At
  <2>2. CASE line[pos] = o
    <3>1. pos \in At(o, pos + 1)
      BY <1>1, <2>2 DEF At
    <3>2. At(o, pos + 1) \in SUBSET (1..pos)
      BY <1>1 DEF At
    <3>3. \A j \in At(o, pos + 1) : j <= pos
      BY <3>2, <1>1
    <3>4. LastOf(At(o, pos + 1)) = pos
      <4> DEFINE at == At(o, pos + 1)
      <4> HIDE DEF at
      <4>1. pos \in Nat /\ at \in SUBSET (1..pos) /\ pos \in at /\ \A j \in at : j <= pos
        BY <1>1, <3>1, <3>2, <3>3 DEF at
      <4>2. LastOf(at) = pos
        BY <4>1, LastOfUnique
      <4> QED BY <4>2 DEF at
    <3>5. chosen'[o] = line[pos + 1]
      BY <2>2 DEF WellTyped, TypeOK
    <3> QED BY <3>1, <3>4, <3>5 DEF HasLast
  <2>3. CASE line[pos] # o
    <3>1. pos \notin At(o, pos + 1)
      BY <2>3 DEF At
    <3>2. At(o, pos + 1) = At(o, pos - 1)
      BY <2>1, <3>1
    <3>3. chosen'[o] = chosen[o]
      BY <2>3 DEF WellTyped, TypeOK
    <3> QED BY <3>2, <3>3 DEF Looked, HasLast
  <2> QED BY <2>2, <2>3
<1>9. ASSUME NEW o \in OwnValued
      PROVE  HasLast(o, pos - 1, chosen[o])'
  <2>1. At(o, pos - 1)' = At(o, pos + 1)
    BY <1>1 DEF At
  <2> QED BY <1>8, <2>1 DEF HasLast
<1>10. pos' <= Len(line') + 1
  BY <1>1
<1>11. pos' > 1 => line'[pos' - 1] \notin OwnValued
  BY <1>1 DEF Options
<1> QED BY <1>1, <1>5, <1>6, <1>7, <1>9, <1>10, <1>11 DEF Looked

-----------------------------------------------------------------------------
(* The action that the parser has come to is the one the reference finds.   *)
LEMMA ActionFound ==
  ASSUME WellTyped, Looked, AtAction
  PROVE  /\ ActionAt = pos
         /\ Before = SubSeq(line, 1, pos - 1)
         /\ After = SubSeq(line, pos + 1, Len(line))
<1>1. pos \in 1..Len(line)
  BY DEF WellTyped, TypeOK, AtAction
<1>2. line[pos] \notin Options \cup {Dashes}
  BY TokensAssumption DEF AtAction, Options, Actions, OwnFlags, OwnValued, Help, Dashes
<1>3. IsWord(pos)
  BY <1>1, <1>2 DEF IsWord, IsValue, Looked
<1>4. \A k \in 1..(pos - 1) : ~IsWord(k)
  BY DEF Looked
<1>5. ASSUME NEW k \in 1..Len(line), IsWord(k), \A i \in 1..(k - 1) : ~IsWord(i)
      PROVE  k = pos
  <2>1. ~(k < pos)
    BY <1>1, <1>4, <1>5
  <2>2. ~(pos < k)
    BY <1>1, <1>3, <1>5
  <2> QED BY <1>1, <2>1, <2>2
<1>6. ActionAt = CHOOSE k \in 1..Len(line) : IsWord(k) /\ \A i \in 1..(k - 1) : ~IsWord(i)
  BY DEF ActionAt, IsWord
<1>7. ActionAt = pos
  BY <1>1, <1>3, <1>4, <1>5, <1>6
<1> QED BY <1>7 DEF Before, After

(* The parser's flags and values, when it has found the action, are those of*)
(* the reference.                                                           *)
LEMMA OptionsFound ==
  ASSUME WellTyped, Looked, AtAction
  PROVE  OptionsAsTyped
<1>1. ActionAt = pos /\ Before = SubSeq(line, 1, pos - 1)
  BY ActionFound
<1>2. line \in Seq(Tokens) /\ pos \in 1..Len(line) /\ Len(line) \in Nat
  BY DEF WellTyped, TypeOK, AtAction
<1>3. Len(Before) = pos - 1 /\ \A k \in 1..(pos - 1) : Before[k] = line[k]
  BY <1>1, <1>2, SubSeqProperties
<1>4. flags = {Before[k] : k \in 1..Len(Before)} \cap OwnFlags
  BY <1>3 DEF Looked
<1>5. ASSUME NEW o \in OwnValued
      PROVE  LET at == {k \in 1..(Len(Before) - 1) : Before[k] = o}
             IN  chosen[o] = IF at = {} THEN Unset ELSE Before[LastOf(at) + 1]
  <2> DEFINE at == {k \in 1..(Len(Before) - 1) : Before[k] = o}
  <2>1. at = At(o, pos - 1)
    BY <1>2, <1>3 DEF At
  <2>2. chosen[o] = IF at = {} THEN Unset ELSE line[LastOf(at) + 1]
    BY <2>1 DEF Looked, HasLast
  <2>3. ASSUME at # {}
        PROVE  LastOf(at) + 1 \in 1..(pos - 1)
    <3>1. at \in SUBSET (1..(pos - 1))
      BY <1>2, <1>3
    <3>2. pos - 1 \in Nat
      BY <1>2
    <3>3. LastOf(at) \in at
      BY <2>3, <3>1, <3>2, LastOfIsLast
    <3>4. LastOf(at) \in 1..((pos - 1) - 1)
      BY <3>3, <1>3
    <3> QED BY <3>4, <1>2
  <2>4. at # {} => Before[LastOf(at) + 1] = line[LastOf(at) + 1]
    BY <2>3, <1>3
  <2> QED BY <2>2, <2>4
<1> QED BY <1>1, <1>4, <1>5 DEF OptionsAsTyped, AtAction

(* What is handed to west build is what was typed, but for "--".            *)
LEMMA HandsOver ==
  ASSUME WellTyped, Looked, AtAction
  PROVE  Kept(Passthrough, NotDashes) = Kept(Handed, NotDashes)
<1>1. Before = SubSeq(line, 1, pos - 1) /\ After = SubSeq(line, pos + 1, Len(line))
  BY ActionFound
<1>2. After \in Seq(Tokens) /\ extras \in Seq(Others) /\ args \in Seq(Tokens)
  BY <1>1, SubSeqProperties DEF WellTyped, TypeOK
<1>3. extras = Kept(Before, Others)
  BY <1>1 DEF Looked
<1>4. Kept(extras, NotContainer) = extras
  <2>1. Others \subseteq NotContainer
    BY TokensAssumption DEF NotContainer, Tokens, Options, OwnFlags
  <2>2. extras \in Seq(NotContainer)
    BY <1>2, <2>1, SeqMonotonic
  <2> QED BY <2>2, KeptOfAll
<1>5. ASSUME NEW t \in Seq(Tokens)
      PROVE  Kept(Kept(t, NotContainer) \o extras, NotDashes)
                = Kept(Kept(t, NotContainer), NotDashes) \o Kept(extras, NotDashes)
  <2>1. Kept(t, NotContainer) \in Seq(Tokens)
    <3>1. Kept(t, NotContainer) \in Seq(Tokens \cap NotContainer)
      BY KeptType
    <3>2. Tokens \cap NotContainer \subseteq Tokens
      OBVIOUS
    <3> QED BY <3>1, <3>2, SeqMonotonic
  <2>2. extras \in Seq(Tokens)
    <3>1. Others \subseteq Tokens
      BY DEF Tokens, Options
    <3> QED BY <1>2, <3>1, SeqMonotonic
  <2> QED BY <2>1, <2>2, KeptOfConcat
<1>6. Kept(Kept(args, NotContainer), NotDashes) = Kept(Kept(After, NotContainer), NotDashes)
  <2>1. CASE args = After
    BY <2>1
  <2>2. CASE args # After
    <3> DEFINE d == <<Dashes>>
    <3> HIDE DEF d
    <3>1. After # <<>> /\ After[1] = Dashes /\ args = Tail(After)
      BY <1>1, <2>2 DEF AtAction, Rest
    <3>2. d \in Seq(Tokens)
      BY DEF Tokens, d
    <3>3. After = d \o args
      <4>1. After = <<Head(After)>> \o Tail(After)
        BY <1>2, <3>1, HeadTailAppend
      <4> QED BY <3>1, <4>1 DEF d
    <3>4. Kept(After, NotContainer) = Kept(d, NotContainer) \o Kept(args, NotContainer)
      BY <1>2, <3>2, <3>3, KeptOfConcat
    <3>5. Kept(d, NotContainer) = d
      <4>1. d \in Seq(NotContainer)
        BY DEF NotContainer, Tokens, Dashes, d
      <4> QED BY <4>1, KeptOfAll
    <3>6. Kept(args, NotContainer) \in Seq(Tokens)
      <4>1. Kept(args, NotContainer) \in Seq(Tokens \cap NotContainer)
        BY <1>2, KeptType
      <4>2. Tokens \cap NotContainer \subseteq Tokens
        OBVIOUS
      <4> QED BY <4>1, <4>2, SeqMonotonic
    <3>7. Kept(d \o Kept(args, NotContainer), NotDashes)
            = Kept(d, NotDashes) \o Kept(Kept(args, NotContainer), NotDashes)
      BY <3>2, <3>6, KeptOfConcat
    <3>8. Kept(d, NotDashes) = <<>>
      <4>1. d = Append(<<>>, Dashes) /\ <<>> \in Seq(Tokens)
        BY DEF d
      <4>2. Dashes \in Tokens /\ Dashes \notin NotDashes
        BY DEF Tokens, NotDashes
      <4>3. Kept(Append(<<>>, Dashes), NotDashes) = Kept(<<>>, NotDashes)
        BY <4>1, <4>2, KeptOfAppend
      <4> QED BY <4>1, <4>3, KeptOfNothing, Zenon
    <3>9. Kept(Kept(args, NotContainer), NotDashes) \in Seq(Tokens \cap NotDashes)
      BY <3>6, KeptType
    <3>10. <<>> \o Kept(Kept(args, NotContainer), NotDashes)
             = Kept(Kept(args, NotContainer), NotDashes)
      BY <3>9, ConcatEmptySeq
    <3> QED BY <3>4, <3>5, <3>7, <3>8, <3>10, Zenon
  <2> QED BY <2>1, <2>2
<1> QED BY <1>2, <1>3, <1>4, <1>5, <1>6, Zenon DEF Passthrough, Handed

-----------------------------------------------------------------------------
LEMMA ParsedStays ==
  ASSUME Parsed, UNCHANGED vars
  PROVE  Parsed'
<1>1. UNCHANGED <<line, pc, pos, dashed, flags, chosen, extras, action, args, exit, ran>>
  BY DEF vars, parsed
<1>2. Looked' = Looked
  <2>1. \A k : IsWord(k)' = IsWord(k)
    BY <1>1 DEF IsWord, IsValue
  <2>2. \A o : HasLast(o, pos - 1, chosen[o])' = HasLast(o, pos - 1, chosen[o])
    BY <1>1 DEF HasLast, At
  <2> QED BY <1>1, <2>1, <2>2 DEF Looked
<1>3. AtAction' = AtAction
  BY <1>1 DEF AtAction, Rest
<1>4. HandedOver' = HandedOver
  <2>1. ActionAt' = ActionAt
    BY <1>1 DEF ActionAt, IsValue
  <2>2. Handed' = Handed
    BY <1>1, <2>1 DEF Handed, After, Before
  <2> QED BY <1>1, <2>2 DEF HandedOver
<1> QED BY <1>1, <1>2, <1>3, <1>4 DEF Parsed

(* A command that ends with nothing started for west build.                 *)
LEMMA EndsParsed ==
  ASSUME pc' = "done", exit' = "ran" => ran'.op # "build"
  PROVE  Parsed'
BY DEF Parsed, HandedOver

LEMMA StopParsed ==
  ASSUME NEW how, Stop(how), Parsed, pc # "done"
  PROVE  Parsed'
<1>1. ran' = Nothing /\ pc' = "done"
  BY DEF Stop, Parsed
<1>2. ran'.op # "build"
  BY <1>1 DEF Nothing, None
<1> QED BY <1>1, <1>2, EndsParsed

LEMMA DoesParsed ==
  ASSUME NEW what, NEW engine, NEW words, Does(what, engine, words), action # "build"
  PROVE  Parsed'
<1>1. pc' = "done" /\ ran'.op = action
  BY DEF Does
<1> QED BY <1>1, EndsParsed

LEMMA BuildParsed ==
  ASSUME NEW what, NEW engine, Does(what, engine, CommandWords), WellTyped, Parsed, pc = "run"
  PROVE  Parsed'
<1>1. CASE action # "build"
  BY <1>1, DoesParsed
<1>2. CASE action = "build"
  <2>1. Kept(Passthrough, NotDashes) = Kept(Handed, NotDashes)
    BY HandsOver DEF Parsed
  <2>2. pc' = "done" /\ ran'.words = Passthrough /\ line' = line
    BY <1>2 DEF Does, CommandWords
  <2>3. Handed' = Handed
    BY <2>2 DEF Handed, After, Before, ActionAt, IsValue
  <2>4. HandedOver'
    BY <2>1, <2>2, <2>3 DEF HandedOver
  <2> QED BY <2>2, <2>4 DEF Parsed
<1> QED BY <1>1, <1>2

(* do_run leaves what was parsed alone; build alone hands words over.       *)
LEMMA RunParsed ==
  ASSUME WellTyped, Parsed, Run
  PROVE  Parsed'
<1>1. pc = "run"
  BY DEF Run, BadConfig, BuildInitShell, Doctor, Sync, Flash, Debug, Cache, Benchmark,
         TasksOrVersion, Running
<1>2. CASE BadConfig
  BY <1>1, <1>2, StopParsed DEF BadConfig
<1>3. CASE BuildInitShell
  <2>1. \/ Stop("error")
        \/ Does("container", DetectEngine, CommandWords)
        \/ Does("host", None, CommandWords)
    BY <1>3 DEF BuildInitShell, InContainer
  <2> QED BY <1>1, <2>1, StopParsed, BuildParsed
<1>4. CASE Doctor \/ Sync \/ Flash \/ Debug \/ Cache \/ Benchmark \/ TasksOrVersion
  <2>1. action # "build"
    BY <1>4 DEF Doctor, Sync, Flash, Debug, Cache, Benchmark, TasksOrVersion, Running
  <2>2. (\E how : Stop(how)) \/ \E what, engine, words : Does(what, engine, words)
    BY <1>4 DEF Doctor, Sync, Flash, Debug, Cache, Benchmark, TasksOrVersion
  <2> QED BY <1>1, <2>1, <2>2, StopParsed, DoesParsed
<1> QED BY <1>2, <1>3, <1>4 DEF Run

(* One token further the parser has read one token more.                    *)
LEMMA ParseParsed ==
  ASSUME WellTyped, Parsed, Parse
  PROVE  Parsed'
<1>1. pc = "options" /\ Looked /\ exit = None /\ ran = Nothing
  BY DEF Parsed, Parse, TakeHelp, TakeFlag, TakeValue, RefuseValue, TakeUnknown,
         TakeDashes, TakeAction, RefuseAction, AtOption
<1>2. ASSUME pc' = "options", Looked', exit' = exit, ran' = ran
      PROVE  Parsed'
  BY <1>1, <1>2 DEF Parsed, HandedOver, None
<1>3. CASE TakeHelp \/ RefuseValue \/ RefuseAction
  BY <1>1, <1>3, StopParsed DEF TakeHelp, RefuseValue, RefuseAction
<1>4. CASE TakeFlag
  <2>1. /\ line[pos] \in Options \ OwnValued /\ line[pos] \notin Others
        /\ {line[pos]} \cap OwnFlags = {line[pos]}
    BY <1>4, TokensAssumption DEF TakeFlag, OwnFlags, OwnValued, Options
  <2>2. Looked'
    BY <1>1, <1>4, <2>1, LooksOn DEF TakeFlag, AtOption, More
  <2> QED BY <1>1, <1>2, <1>4, <2>2 DEF TakeFlag
<1>5. CASE TakeValue
  <2>1. Looked'
    BY <1>1, <1>5, LooksOnTwo DEF TakeValue, HasValue
  <2> QED BY <1>1, <1>2, <1>5, <2>1 DEF TakeValue
<1>6. CASE TakeUnknown
  <2>1. /\ line[pos] \in Options \ OwnValued
        /\ {line[pos]} \cap OwnFlags = {}
    BY <1>6, TokensAssumption DEF TakeUnknown, Options
  <2>2. Looked'
    BY <1>1, <1>6, <2>1, LooksOn DEF TakeUnknown, AtOption, More
  <2> QED BY <1>1, <1>2, <1>6, <2>2 DEF TakeUnknown
<1>7. CASE TakeDashes
  <2>1. /\ line[pos] = Dashes /\ Dashes \notin Others
        /\ Dashes \notin OwnValued /\ {Dashes} \cap OwnFlags = {}
    BY <1>7, TokensAssumption DEF TakeDashes, OwnFlags, OwnValued, Dashes
  <2>2. Looked'
    BY <1>1, <1>7, <2>1, LooksOn DEF TakeDashes, More
  <2> QED BY <1>1, <1>2, <1>7, <2>2 DEF TakeDashes
<1>8. CASE TakeAction
  <2>1. /\ pc' = "run" /\ exit' = None /\ ran' = Nothing
        /\ UNCHANGED <<line, pos, dashed, flags, extras, chosen>>
        /\ line[pos] \in Actions /\ pos <= Len(line) /\ action' = line[pos] /\ args' = Rest
    BY <1>1, <1>8 DEF TakeAction, More
  <2>2. Looked'
    BY <1>1, <2>1 DEF Looked, HasLast, At, IsWord, IsValue
  <2>3. AtAction'
    BY <2>1 DEF AtAction, Rest
  <2> QED BY <2>1, <2>2, <2>3 DEF Parsed, HandedOver, None
<1> QED BY <1>3, <1>4, <1>5, <1>6, <1>7, <1>8 DEF Parse

(* The parser finds what is typed, at every step of every line.             *)
THEOREM ParserFollows == Spec => []Parsed
<1>1. Init => Parsed
  BY DEF Init, Parsed, HandedOver, None
<1>2. WellTyped /\ Parsed /\ [Next]_vars => Parsed'
  <2> SUFFICES ASSUME WellTyped, Parsed, [Next]_vars
               PROVE  Parsed'
    OBVIOUS
  <2>1. CASE \E t \in Typeable[file] : Type(t)
    BY <2>1 DEF Type, parsed, Parsed, HandedOver, None
  <2>2. CASE Enter \/ \E t \in Tasks : RunTask(t)
    <3>1. /\ pc = "typing" /\ pc' = "options"
          /\ UNCHANGED <<pos, flags, chosen, extras, exit, ran>>
      BY <2>2 DEF Enter, RunTask, parsed
    <3>2. WellTyped'
      <4>1. line' \in Seq(Tokens)
        BY <2>2, TaskTokens DEF Enter, RunTask, WellTyped, TypeOK
      <4> QED BY <2>2, <4>1 DEF Enter, RunTask, parsed, WellTyped, TypeOK
    <3>3. /\ pos' = 1 /\ flags' = {} /\ extras' = <<>>
          /\ chosen' = [o \in OwnValued |-> Unset] /\ exit' = None /\ ran' = Nothing
      BY <3>1 DEF Parsed
    <3>4. Looked'
      BY <3>2, <3>3, FirstLooked
    <3> QED BY <3>1, <3>3, <3>4 DEF Parsed, HandedOver, None
  <2> QED BY <2>1, <2>2, ParsedStays, ParseParsed, RunParsed DEF Next
<1> QED BY <1>1, <1>2, TypesHold, PTL DEF Spec

(* When do_run starts, the flags in force and the values of --backend and   *)
(* --mode are those typed before the action: argparse's loop agrees with a  *)
(* reading of the whole line at once.                                       *)
THEOREM OptionsTaken == Spec => []OptionsAsTyped
<1>1. WellTyped /\ Parsed => OptionsAsTyped
  <2>1. CASE pc = "run"
    BY <2>1, OptionsFound DEF Parsed
  <2>2. CASE pc # "run"
    BY <2>2 DEF OptionsAsTyped
  <2> QED BY <2>1, <2>2
<1> QED BY <1>1, TypesHold, ParserFollows, PTL

(* west build is handed every argument that was typed and every unknown     *)
(* option, once and in order, whatever surrounds them (the two list         *)
(* comprehensions of do_run).                                               *)
THEOREM ArgumentsHandedOver == Spec => []HandedOver
BY ParserFollows, PTL DEF Parsed
=============================================================================
