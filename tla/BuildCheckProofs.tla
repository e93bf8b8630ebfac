-------------------------- MODULE BuildCheckProofs --------------------------
(***************************************************************************)
(* Proofs about BuildCheck, for every set of invocations, files, actions    *)
(* and directories.                                                         *)
(***************************************************************************)
EXTENDS BuildCheck, TLAPS

Statuses == {"none", "ok", "error", "stale", "killed"}

(* The two ways in which a step changes the control state keep its type.    *)
LEMMA GoesType ==
  ASSUME TypeOK, NEW p \in Invocations, NEW step \in PcValues, Goes(p, step)
  PROVE  /\ pc' \in [Invocations -> PcValues]
         /\ job' \in [Invocations -> Job]
         /\ exit' \in [Invocations -> Statuses]
BY DEF TypeOK, Goes, Statuses

LEMMA NoJobType == NoJob \in Job
BY DirsAssumption DEF NoJob, Job

LEMMA EndsType ==
  ASSUME TypeOK, NEW p \in Invocations, NEW status \in Statuses, Ends(p, status)
  PROVE  /\ pc' \in [Invocations -> PcValues]
         /\ job' \in [Invocations -> Job]
         /\ exit' \in [Invocations -> Statuses]
BY NoJobType DEF TypeOK, Ends, Statuses, PcValues

LEMMA FailsType ==
  ASSUME TypeOK, NEW p \in Invocations, Fails(p)
  PROVE  /\ pc' \in [Invocations -> PcValues]
         /\ job' \in [Invocations -> Job]
         /\ exit' \in [Invocations -> Statuses]
<1>1. PICK status \in Statuses : Ends(p, status)
  BY DEF Fails, Statuses
<1> QED BY <1>1, EndsType

LEMMA OwnType ==
  ASSUME NEW p \in Invocations
  PROVE  Own(p) \in Sources
BY DEF Own, Sources

(* Every outcome of a build, and every remainder of an rmtree, is something *)
(* a directory can hold.                                                    *)
LEMMA OutcomesType ==
  ASSUME NEW held \in {NoDir, NoCache} \cup Sources, NEW own \in Sources
  PROVE  /\ BuildOutcomes(held, own) \subseteq {NoDir, NoCache} \cup Sources
         /\ Leftovers(held) \subseteq {NoDir, NoCache} \cup Sources
BY DEF BuildOutcomes, Leftovers

LEMMA StartType ==
  ASSUME TypeOK, NEW p \in Invocations, NEW a \in Actions,
         NEW force \in BOOLEAN, NEW clean \in BOOLEAN, NEW d \in Dirs,
         Start(p, a, force, clean, d)
  PROVE  TypeOK'
<1> DEFINE cfg == Settings(file)
           container == WantsContainer(cfg) \/ (force /\ a # "benchmark")
<1>1. a \in {"init", "shell", "build", "benchmark"}
  BY ActionsAssumption
<1>2. container \in BOOLEAN
  BY DEF WantsContainer
<1>3. FirstStep(a, container) \in PcValues
  BY <1>1 DEF FirstStep, PcValues
<1>4. HasImage(cfg) \in BOOLEAN
  BY DEF HasImage
<1>5. [action |-> a, container |-> container, clean |-> clean /\ a = "build",
       image |-> HasImage(cfg), dir |-> d] \in Job
  BY <1>1, <1>2, <1>4 DEF Job
<1>6. /\ job' = [job EXCEPT ![p] =
                   [action |-> a, container |-> container,
                    clean |-> clean /\ a = "build",
                    image |-> HasImage(cfg), dir |-> d]]
      /\ pc' = [pc EXCEPT ![p] = FirstStep(a, container)]
      /\ UNCHANGED <<file, layout, engine, build, exit>>
  BY DEF Start
<1> QED BY <1>3, <1>5, <1>6 DEF TypeOK

LEMMA StepType ==
  ASSUME TypeOK, NEW p \in Invocations, Step(p)
  PROVE  TypeOK'
<1> DEFINE Held == {NoDir, NoCache} \cup Sources
<1> USE DEF Statuses
<1>1. CASE Finish(p)
  BY <1>1, EndsType DEF Finish, TypeOK
<1>2. CASE CheckPasses(p) \/ CheckUnreadable(p)
  <2>1. AfterCheck(p) \in PcValues
    BY DEF AfterCheck, PcValues
  <2> QED BY <1>2, <2>1, GoesType DEF CheckPasses, CheckUnreadable, TypeOK
<1>3. CASE CheckRefuses(p)
  BY <1>3, EndsType DEF CheckRefuses, TypeOK
<1>4. CASE CheckCleans(p)
  BY <1>4, GoesType DEF CheckCleans, TypeOK, PcValues
<1>5. CASE Clean(p)
  <2>1. AfterCheck(p) \in PcValues
    BY DEF AfterCheck, PcValues
  <2> QED BY <1>5, <2>1, GoesType DEF Clean, TypeOK
<1>6. CASE CleanFails(p)
  <2>1. build[TopBuild] \in Held
    BY DirsAssumption DEF TypeOK
  <2>2. Leftovers(build[TopBuild]) \subseteq Held
    BY <2>1 DEF Leftovers
  <2>3. build' \in [Dirs -> Held]
    BY <1>6, <2>2, DirsAssumption DEF CleanFails, TypeOK
  <2> QED BY <1>6, <2>3, FailsType DEF CleanFails, TypeOK
<1>7. CASE Validate(p)
  BY <1>7, GoesType, FailsType DEF Validate, TypeOK, PcValues
<1>8. CASE Launch(p)
  BY <1>8, GoesType DEF Launch, TypeOK, PcValues
<1>9. CASE LaunchFails(p)
  BY <1>9, FailsType DEF LaunchFails, TypeOK
<1>10. CASE RunEnds(p)
  <2>1. job[p].dir \in Dirs
    BY DEF TypeOK, Job
  <2>2. BuildOutcomes(build[job[p].dir], Own(p)) \subseteq Held
    BY <2>1, OutcomesType, OwnType DEF TypeOK
  <2>3. build' \in [Dirs -> Held]
    BY <1>10, <2>1, <2>2 DEF RunEnds, TypeOK
  <2>4. Ends(p, "ok") \/ Fails(p)
    BY <1>10 DEF RunEnds
  <2> QED BY <1>10, <2>3, <2>4, EndsType, FailsType DEF RunEnds, TypeOK
<1> QED BY <1>1, <1>2, <1>3, <1>4, <1>5, <1>6, <1>7, <1>8, <1>9, <1>10 DEF Step

LEMMA InterruptType ==
  ASSUME TypeOK, NEW p \in Invocations, Interrupt(p)
  PROVE  TypeOK'
<1> DEFINE Held == {NoDir, NoCache} \cup Sources
<1>1. build[TopBuild] \in Held /\ job[p].dir \in Dirs
  BY DirsAssumption DEF TypeOK, Job
<1>2. Leftovers(build[TopBuild]) \subseteq Held
  BY <1>1 DEF Leftovers
<1>3. BuildOutcomes(build[job[p].dir], Own(p)) \subseteq Held
  BY <1>1, OutcomesType, OwnType DEF TypeOK
<1>4. build' \in [Dirs -> Held]
  BY <1>1, <1>2, <1>3, DirsAssumption DEF Interrupt, TypeOK
<1> QED BY <1>4, EndsType DEF Interrupt, TypeOK, Statuses

LEMMA AroundType ==
  ASSUME TypeOK,
         \/ EditFile \/ EngineToggles \/ LayoutChanges
         \/ \E d \in Dirs : UserRemoves(d) \/ UserBuilds(d)
  PROVE  TypeOK'
<1>1. CASE EditFile \/ EngineToggles \/ LayoutChanges
  BY <1>1 DEF EditFile, EngineToggles, LayoutChanges, TypeOK
<1>2. ASSUME NEW d \in Dirs, UserRemoves(d)
      PROVE  TypeOK'
  BY <1>2 DEF UserRemoves, TypeOK
<1>3. ASSUME NEW d \in Dirs, UserBuilds(d)
      PROVE  TypeOK'
  <2>1. HostSource \in Sources
    BY DEF Sources
  <2>2. BuildOutcomes(build[d], HostSource) \subseteq {NoDir, NoCache} \cup Sources
    BY <2>1, OutcomesType DEF TypeOK
  <2> QED BY <1>3, <2>2 DEF UserBuilds, TypeOK
<1> QED BY <1>1, <1>2, <1>3

(* Every variable keeps its type, whatever the user does, at whatever       *)
(* concurrency (BuildCheck: do_run, _benchmark, buildcheck.py).             *)
THEOREM TypeCorrect == Spec => []TypeOK
<1>1. Init => TypeOK
  BY NoJobType DEF Init, TypeOK, PcValues
<1>2. TypeOK /\ [Next]_vars => TypeOK'
  <2> SUFFICES ASSUME TypeOK, [Next]_vars PROVE TypeOK'
    OBVIOUS
  <2>1. CASE UNCHANGED vars
    BY <2>1 DEF vars, TypeOK
  <2>2. ASSUME NEW p \in Invocations, StartRejected(p)
        PROVE  TypeOK'
    BY <2>2, EndsType DEF StartRejected, TypeOK, Statuses
  <2> QED BY <2>1, <2>2, StartType, StepType, InterruptType, AroundType DEF Next
<1> QED BY <1>1, <1>2, PTL DEF Spec

-----------------------------------------------------------------------------
(* The guarded case: one thing at a time, every build a `west env build' in *)
(* the directory that is checked, host paths that do not start with /work.  *)

(* The check tells the two modes apart: it passes what the invocation would *)
(* have configured itself, and refuses only what the other mode configured. *)
LEMMA VerdictIsMode ==
  ASSUME HostSource \notin WorkPrefixed, NEW p \in Invocations,
         job[p].container \in BOOLEAN,
         NEW held \in {NoDir, NoCache} \cup Sources
  PROVE  Stale(held, job[p].container) <=> held \in Sources \ {Own(p)}
BY SourcesAssumption DEF Stale, Own, Sources

(* While nothing else runs, a step of p leaves the other invocations idle.  *)
LEMMA OthersIdle ==
  ASSUME TypeOK, OneAtATime, NEW p \in Invocations, ~Idle(p) \/ UserFree,
         Guarded,
         NEW step, pc' = [pc EXCEPT ![p] = step]
  PROVE  \A q \in Invocations : q # p => pc[q] = "idle" /\ pc'[q] = "idle"
BY DEF TypeOK, OneAtATime, Idle, UserFree, Guarded

(* Whatever a step of p does, it writes one entry of pc, and one of job or  *)
(* none.                                                                    *)
LEMMA StepFrame ==
  ASSUME TypeOK, NEW p \in Invocations, Step(p)
  PROVE  /\ ~Idle(p)
         /\ file' = file /\ layout' = layout /\ engine' = engine
         /\ \/ \E step \in PcValues : Goes(p, step)
            \/ \E status \in Statuses : Ends(p, status)
<1>1. AfterCheck(p) \in PcValues
  BY DEF AfterCheck, PcValues
<1>2. Fails(p) => \E status \in Statuses : Ends(p, status)
  BY DEF Fails, Statuses
<1>3. ~Idle(p)
  BY DEF Step, Finish, CheckPasses, CheckUnreadable, CheckRefuses, CheckCleans,
         Clean, CleanFails, Validate, Launch, LaunchFails, RunEnds, Idle
<1>4. file' = file /\ layout' = layout /\ engine' = engine
  BY DEF Step, Finish, CheckPasses, CheckUnreadable, CheckRefuses, CheckCleans,
         Clean, CleanFails, Validate, Launch, LaunchFails, RunEnds
<1>5. \/ \E step \in PcValues : Goes(p, step)
      \/ \E status \in Statuses : Ends(p, status)
  BY <1>1, <1>2 DEF Step, Finish, CheckPasses, CheckUnreadable, CheckRefuses,
         CheckCleans, Clean, CleanFails, Validate, Launch, LaunchFails, RunEnds,
         PcValues, Statuses
<1> QED BY <1>3, <1>4, <1>5

(* An invocation that ends leaves an idle slot behind, for which GuardInv   *)
(* asks nothing.                                                            *)
LEMMA EndsKeeps ==
  ASSUME GuardInv, Guarded, NEW p \in Invocations, ~Idle(p) \/ UserFree,
         NEW status, Ends(p, status)
  PROVE  /\ OneAtATime'
         /\ VerdictHolds'
         /\ LayoutHolds'
<1>1. \A q \in Invocations : pc'[q] = "idle"
  <2>1. pc'[p] = "idle"
    BY DEF Ends, GuardInv, TypeOK
  <2> QED BY <2>1, OthersIdle DEF Ends, GuardInv
<1> QED BY <1>1 DEF OneAtATime, VerdictHolds, LayoutHolds, Idle

(* An invocation that goes on is the only one, so that the three conjuncts  *)
(* hold when they hold for it.                                              *)
LEMMA GoesKeeps ==
  ASSUME GuardInv, Guarded, NEW p \in Invocations, ~Idle(p) \/ UserFree,
         NEW step \in PcValues, pc' = [pc EXCEPT ![p] = step],
         step = "clean" =>
            job'[p].clean /\ build'[TopBuild] \in Sources \ {Own(p)'},
         step \in {"validate", "launch", "running"} /\ Builds(p)' =>
            build'[TopBuild] \in {NoDir, NoCache, Own(p)'},
         step \in {"launch", "running"} /\ job'[p].container => layout'
  PROVE  /\ OneAtATime'
         /\ VerdictHolds'
         /\ LayoutHolds'
<1>1. \A q \in Invocations : q # p => pc'[q] = "idle"
  BY OthersIdle DEF GuardInv
<1>2. pc'[p] = step
  BY DEF GuardInv, TypeOK
<1> QED BY <1>1, <1>2 DEF OneAtATime, VerdictHolds, LayoutHolds, Idle

LEMMA StartGuard ==
  ASSUME GuardInv, Guarded, NEW p \in Invocations, NEW a \in Actions,
         NEW force \in BOOLEAN, NEW clean \in BOOLEAN, NEW d \in Dirs,
         Start(p, a, force, clean, d)
  PROVE  OneAtATime' /\ VerdictHolds' /\ LayoutHolds'
<1> DEFINE container == job'[p].container
<1>1. a \in {"init", "shell", "build"}
  BY ActionsAssumption DEF Guarded
<1>2. UserFree
  BY DEF Start
<1>3. job'[p].action = a
  BY DEF Start, GuardInv, TypeOK
<1>4. pc' = [pc EXCEPT ![p] = FirstStep(a, container)]
  BY DEF Start, GuardInv, TypeOK
<1>5. /\ FirstStep(a, container) \in {"check", "validate", "finish", "launch"}
      /\ FirstStep(a, container) \in {"validate", "launch"} => a # "build"
      /\ FirstStep(a, container) = "launch" => ~container
  BY <1>1 DEF FirstStep
<1>6. Builds(p)' => a = "build"
  BY <1>1, <1>3 DEF Builds
<1> HIDE DEF container
<1>7. FirstStep(a, container) \in PcValues
  BY <1>5 DEF PcValues
<1> QED BY <1>2, <1>4, <1>5, <1>6, <1>7, GoesKeeps DEF container

(* An invocation that passed its check, or cleaned, goes on to validate or  *)
(* to launch with the directory as its verdict said.                        *)
LEMMA StepGuard ==
  ASSUME GuardInv, Guarded, NEW p \in Invocations, Step(p)
  PROVE  OneAtATime' /\ VerdictHolds' /\ LayoutHolds'
<1>1. ~Idle(p)
  BY StepFrame DEF GuardInv
<1>2. CASE \E status \in Statuses : Ends(p, status)
  BY <1>1, <1>2, EndsKeeps
<1>3. CASE \E step \in PcValues : Goes(p, step)
  <2>1. PICK step \in PcValues : Goes(p, step)
    BY <1>3
  <2>2. pc' = [pc EXCEPT ![p] = step] /\ job' = job
    BY <2>1 DEF Goes
  <2>3. pc'[p] = step
    BY <2>2 DEF GuardInv, TypeOK
  <2>4. /\ build[TopBuild] \in {NoDir, NoCache} \cup Sources
        /\ build \in [Dirs -> {NoDir, NoCache} \cup Sources]
        /\ job[p].container \in BOOLEAN
        /\ job[p].action \in {"none", "init", "shell", "build", "benchmark"}
    BY DirsAssumption DEF GuardInv, TypeOK, Job
  <2>5. Own(p)' = Own(p) /\ Own(p) \in Sources /\ (Builds(p)' <=> Builds(p))
    BY <2>2, OwnType DEF Own, Builds
  <2>6. CASE step = "clean"
    <3>1. Ends(p, "ok") \/ Fails(p) => pc'[p] = "idle"
      BY DEF Ends, Fails, GuardInv, TypeOK
    <3>2. AfterCheck(p) # "clean"
      BY DEF AfterCheck
    <3>3. CheckCleans(p)
      BY <2>3, <2>6, <3>1, <3>2
      DEF Step, Finish, CheckPasses, CheckUnreadable, CheckRefuses, Clean,
          CleanFails, Validate, Launch, LaunchFails, RunEnds, Goes, Ends, Fails,
          GuardInv, TypeOK
    <3>4. job[p].clean /\ build' = build /\ Stale(build[TopBuild], job[p].container)
      BY <3>3 DEF CheckCleans
    <3>5. build[TopBuild] \in Sources \ {Own(p)}
      BY <2>4, <3>4, VerdictIsMode DEF Guarded
    <3> QED BY <1>1, <2>2, <2>5, <2>6, <3>4, <3>5, GoesKeeps
  <2>7. CASE step \in {"validate", "launch", "running"}
    <3>1. Builds(p) => build'[TopBuild] \in {NoDir, NoCache, Own(p)}
      <4>1. CASE CheckPasses(p)
        BY <2>4, <4>1, VerdictIsMode DEF CheckPasses, Guarded
      <4>2. CASE Clean(p)
        BY <2>4, <4>2, DirsAssumption DEF Clean
      <4>3. CASE Validate(p) \/ Launch(p)
        BY <4>3 DEF Validate, Launch, GuardInv, VerdictHolds
      <4>4. ~CheckUnreadable(p)
        BY DEF CheckUnreadable, Guarded
      <4>5. CheckPasses(p) \/ Clean(p) \/ Validate(p) \/ Launch(p)
        BY <2>3, <2>7, <4>4
        DEF Step, Finish, CheckRefuses, CheckCleans, CleanFails, LaunchFails,
            RunEnds, Goes, Ends, Fails, GuardInv, TypeOK
      <4> QED BY <4>1, <4>2, <4>3, <4>5
    <3>2. step \in {"launch", "running"} /\ job'[p].container => layout'
      <4>1. CASE Validate(p)
        BY <2>3, <2>7, <4>1
        DEF Validate, Fails, Ends, GuardInv, TypeOK
      <4>2. CASE Launch(p)
        BY <2>2, <4>2 DEF Launch, GuardInv, LayoutHolds
      <4>3. CASE CheckPasses(p) \/ CheckUnreadable(p) \/ Clean(p)
        <5>1. step = AfterCheck(p)
          BY <2>3, <4>3 DEF CheckPasses, CheckUnreadable, Clean, Goes, GuardInv, TypeOK
        <5> QED BY <2>2, <5>1 DEF AfterCheck
      <4>4. \/ CheckPasses(p) \/ CheckUnreadable(p) \/ Clean(p)
            \/ Validate(p) \/ Launch(p)
        BY <2>3, <2>7
        DEF Step, Finish, CheckRefuses, CheckCleans, CleanFails, LaunchFails,
            RunEnds, Goes, Ends, Fails, GuardInv, TypeOK
      <4> QED BY <4>1, <4>2, <4>3, <4>4
    <3> QED BY <1>1, <2>2, <2>5, <2>7, <3>1, <3>2, GoesKeeps
  <2>8. CASE step \in {"idle", "finish", "check"}
    BY <1>1, <2>2, <2>8, GoesKeeps
  <2> QED BY <2>6, <2>7, <2>8 DEF PcValues
<1> QED BY <1>2, <1>3, StepFrame DEF GuardInv

(* What happens around the program finds every invocation idle, or leaves   *)
(* the build directories and the layout alone.                              *)
LEMMA AroundGuard ==
  ASSUME GuardInv, Guarded,
         \/ EditFile \/ EngineToggles \/ LayoutChanges
         \/ \E d \in Dirs : UserRemoves(d) \/ UserBuilds(d)
  PROVE  OneAtATime' /\ VerdictHolds' /\ LayoutHolds'
<1>1. CASE EditFile \/ EngineToggles
  BY <1>1 DEF EditFile, EngineToggles, GuardInv, OneAtATime, VerdictHolds,
              LayoutHolds, Own, Builds, Idle
<1>2. CASE LayoutChanges \/ \E d \in Dirs : UserRemoves(d) \/ UserBuilds(d)
  <2>1. \A p \in Invocations : pc'[p] = "idle"
    BY <1>2 DEF LayoutChanges, UserRemoves, UserBuilds, UserFree, Idle, Guarded
  <2> QED BY <2>1 DEF OneAtATime, VerdictHolds, LayoutHolds, Idle
<1> QED BY <1>1, <1>2

(* GuardInv is an inductive invariant of the guarded case.                  *)
THEOREM GuardInvariant ==
  ASSUME Guarded
  PROVE  Spec => []GuardInv
<1>1. Init => GuardInv
  <2>1. Init => TypeOK
    BY NoJobType DEF Init, TypeOK, PcValues
  <2> QED BY <2>1 DEF Init, GuardInv, OneAtATime, VerdictHolds, LayoutHolds, Idle
<1>2. GuardInv /\ TypeOK' /\ [Next]_vars => GuardInv'
  <2> SUFFICES ASSUME GuardInv, TypeOK', [Next]_vars
               PROVE  OneAtATime' /\ VerdictHolds' /\ LayoutHolds'
    BY DEF GuardInv
  <2>1. CASE UNCHANGED vars
    BY <2>1 DEF vars, GuardInv, OneAtATime, VerdictHolds, LayoutHolds, Own, Builds, Idle
  <2>2. ASSUME NEW p \in Invocations, StartRejected(p)
        PROVE  OneAtATime' /\ VerdictHolds' /\ LayoutHolds'
    BY <2>2, EndsKeeps DEF StartRejected
  <2>3. ASSUME NEW p \in Invocations, Interrupt(p)
        PROVE  OneAtATime' /\ VerdictHolds' /\ LayoutHolds'
    BY <2>3, EndsKeeps DEF Interrupt
  <2> QED BY <2>1, <2>2, <2>3, StartGuard, StepGuard, AroundGuard DEF Next
<1> QED BY <1>1, <1>2, TypeCorrect, PTL DEF Spec

(* In the guarded case no build that west-env launches works in a directory *)
(* of the other mode (env.py, the build action; buildcheck.py).             *)
THEOREM BuildsInOwnMode ==
  ASSUME Guarded
  PROVE  Spec => []NoStaleBuild
<1>1. GuardInv => NoStaleBuild
  <2> SUFFICES ASSUME GuardInv, NEW p \in Invocations,
                      pc[p] = "running", Builds(p)
               PROVE  build[job[p].dir] \in {NoDir, NoCache, Own(p)}
    BY DEF NoStaleBuild
  <2>1. job[p].dir = TopBuild
    BY DEF GuardInv, TypeOK, Job, Guarded
  <2> QED BY <2>1 DEF GuardInv, VerdictHolds
<1> QED BY <1>1, GuardInvariant, PTL

(* In the guarded case a container command runs only in a valid workspace   *)
(* (env.py, validate_workspace_layout before _run_container).               *)
THEOREM ContainersSeeLayout ==
  ASSUME Guarded
  PROVE  Spec => []ContainerNeedsLayout
<1>1. GuardInv => ContainerNeedsLayout
  BY DEF GuardInv, LayoutHolds, ContainerNeedsLayout
<1> QED BY <1>1, GuardInvariant, PTL

-----------------------------------------------------------------------------
(* What west-env may destroy and what it may refuse.                        *)

(* The only step that takes a cache away from a directory is the cleaning   *)
(* of <topdir>/build: a build leaves a configured directory as it is.       *)
LEMMA LossIsCleaning ==
  ASSUME TypeOK, NEW p \in Invocations, Step(p) \/ Interrupt(p),
         NEW d \in Dirs, build[d] \in Sources, build'[d] \notin Sources
  PROVE  pc[p] = "clean" /\ d = TopBuild
<1>1. job[p].dir \in Dirs
  BY DEF TypeOK, Job
<1>2. build' # build
  OBVIOUS
<1>3. \A held \in BuildOutcomes(build[d], Own(p)) : held = build[d]
  BY SourcesAssumption DEF BuildOutcomes
<1>4. CASE Clean(p) \/ CleanFails(p)
  BY <1>4, DirsAssumption DEF Clean, CleanFails, TypeOK
<1>5. CASE RunEnds(p)
  BY <1>1, <1>3, <1>5 DEF RunEnds, TypeOK
<1>6. CASE Interrupt(p)
  BY <1>1, <1>2, <1>3, <1>6, DirsAssumption DEF Interrupt, TypeOK
<1> QED BY <1>2, <1>4, <1>5, <1>6
        DEF Step, Finish, CheckPasses, CheckUnreadable, CheckRefuses,
            CheckCleans, Validate, Launch, LaunchFails

(* A step that moves p is a step of p.                                      *)
LEMMA MoverIsActor ==
  ASSUME TypeOK, [Next]_vars, NEW p \in Invocations, Moves(p)
  PROVE  \/ /\ Idle(p)
            /\ build' = build
         \/ ~Idle(p) /\ (Step(p) \/ Interrupt(p))
<1>1. ~UNCHANGED vars
  BY DEF vars, Moves
<1>2. PICK q \in Invocations :
         \/ \E a \in Actions, force, clean \in BOOLEAN, d \in Dirs :
               Start(q, a, force, clean, d)
         \/ StartRejected(q)
         \/ Step(q)
         \/ Interrupt(q)
  BY <1>1 DEF Next, Moves, EditFile, EngineToggles, LayoutChanges, UserRemoves,
              UserBuilds
<1>3. CASE \E a \in Actions, force, clean \in BOOLEAN, d \in Dirs :
              Start(q, a, force, clean, d)
  <2>1. Idle(q) /\ build' = build /\ \E step : pc' = [pc EXCEPT ![q] = step]
    BY <1>3 DEF Start
  <2> QED BY <2>1 DEF Moves, TypeOK
<1>4. CASE StartRejected(q)
  BY <1>4 DEF StartRejected, Ends, Moves, TypeOK
<1>5. CASE Step(q) \/ Interrupt(q)
  <2>1. ~Idle(q)
    BY <1>5, StepFrame DEF Interrupt
  <2>2. \E step : pc' = [pc EXCEPT ![q] = step]
    BY <1>5, StepFrame DEF Interrupt, Goes, Ends
  <2> QED BY <1>5, <2>1, <2>2 DEF Moves, TypeOK
<1> QED BY <1>2, <1>3, <1>4, <1>5

(* An invocation is cleaning only when it was given --clean.                *)
THEOREM CleaningIsAsked == Spec => []CleanIsAsked
<1>1. Init => CleanIsAsked
  BY DEF Init, CleanIsAsked
<1>2. TypeOK /\ CleanIsAsked /\ [Next]_vars => CleanIsAsked'
  <2> SUFFICES ASSUME TypeOK, CleanIsAsked, [Next]_vars,
                      NEW p \in Invocations, pc'[p] = "clean"
               PROVE  job'[p].clean
    BY DEF CleanIsAsked
  <2>1. CASE UNCHANGED vars
    BY <2>1 DEF vars, CleanIsAsked
  <2>2. ASSUME NEW q \in Invocations, NEW a \in Actions,
               NEW force \in BOOLEAN, NEW clean \in BOOLEAN, NEW d \in Dirs,
               Start(q, a, force, clean, d)
        PROVE  job'[p].clean
    <3>1. \A c \in BOOLEAN : FirstStep(a, c) # "clean"
      BY ActionsAssumption DEF FirstStep
    <3>2. PICK c \in BOOLEAN : pc' = [pc EXCEPT ![q] = FirstStep(a, c)]
      BY <2>2 DEF Start, WantsContainer
    <3>3. p # q
      BY <3>1, <3>2 DEF TypeOK
    <3>4. pc'[p] = pc[p] /\ job'[p] = job[p]
      BY <2>2, <3>2, <3>3 DEF Start, TypeOK
    <3> QED BY <3>4 DEF CleanIsAsked
  <2>3. ASSUME NEW q \in Invocations, NEW status, Ends(q, status)
        PROVE  job'[p].clean
    <3>1. p # q
      BY <2>3 DEF Ends, TypeOK
    <3> QED BY <2>3, <3>1 DEF Ends, CleanIsAsked, TypeOK
  <2>4. ASSUME NEW q \in Invocations, Step(q)
        PROVE  job'[p].clean
    <3>1. CASE CheckCleans(q)
      BY <3>1 DEF CheckCleans, Goes, CleanIsAsked, TypeOK
    <3>2. CASE \E status \in Statuses : Ends(q, status)
      BY <2>3, <3>2
    <3>3. CASE CheckPasses(q) \/ CheckUnreadable(q) \/ Clean(q)
      BY <3>3 DEF CheckPasses, CheckUnreadable, Clean, Goes, AfterCheck,
                  CleanIsAsked, TypeOK
    <3>4. CASE Validate(q) \/ Launch(q)
      <4>1. CASE Goes(q, "launch") \/ Goes(q, "running")
        BY <4>1 DEF Goes, CleanIsAsked, TypeOK
      <4>2. CASE Fails(q)
        BY <2>3, <4>2 DEF Fails
      <4> QED BY <3>4, <4>1, <4>2 DEF Validate, Launch
    <3>5. Fails(q) => \E status \in Statuses : Ends(q, status)
      BY DEF Fails, Statuses
    <3> QED BY <2>4, <3>1, <3>2, <3>3, <3>4, <3>5
            DEF Step, Finish, CheckRefuses, CleanFails, LaunchFails, RunEnds, Statuses
  <2>5. CASE \/ EditFile \/ EngineToggles \/ LayoutChanges
             \/ \E d \in Dirs : UserRemoves(d) \/ UserBuilds(d)
    BY <2>5 DEF EditFile, EngineToggles, LayoutChanges, UserRemoves, UserBuilds,
                CleanIsAsked
  <2> QED BY <2>1, <2>2, <2>3, <2>4, <2>5 DEF Next, StartRejected, Interrupt
<1> QED BY <1>1, <1>2, TypeCorrect, PTL DEF Spec

(* However invocations overlap, what west-env destroys lies in              *)
(* <topdir>/build and the invocation was given --clean (env.py, build).     *)
THEOREM DestroysOnlyWhenAsked == Spec => RemovesOnlyWhenAsked
<1> DEFINE Asked(p, d) ==
      Moves(p) /\ build[d] \in Sources /\ build'[d] \notin Sources
          => d = TopBuild /\ job[p].clean
<1>1. TypeOK /\ CleanIsAsked /\ [Next]_vars
         => \A p \in Invocations, d \in Dirs : Asked(p, d)
  BY MoverIsActor, LossIsCleaning DEF CleanIsAsked
<1>2. TypeOK /\ CleanIsAsked /\ [Next]_vars
         => [\A p \in Invocations, d \in Dirs : Asked(p, d)]_vars
  BY <1>1
<1> QED BY <1>2, TypeCorrect, CleaningIsAsked, PTL DEF Spec, RemovesOnlyWhenAsked

(* In the guarded case it was, besides, configured in the other mode.       *)
THEOREM DestroysOnlyStale ==
  ASSUME Guarded
  PROVE  Spec => RemovesOnlyStale
<1> DEFINE Stales(p, d) ==
      Moves(p) /\ build[d] \in Sources /\ build'[d] \notin Sources
          => d = TopBuild /\ job[p].clean /\ build[d] # Own(p)
<1>1. GuardInv /\ [Next]_vars
         => \A p \in Invocations, d \in Dirs : Stales(p, d)
  BY MoverIsActor, LossIsCleaning DEF GuardInv, VerdictHolds
<1>2. GuardInv /\ [Next]_vars
         => [\A p \in Invocations, d \in Dirs : Stales(p, d)]_vars
  BY <1>1
<1> QED BY <1>2, GuardInvariant, PTL DEF Spec, RemovesOnlyStale

-----------------------------------------------------------------------------
(* In the guarded case BuildCheck implements OwnedDirectory.                *)

(* The owners before and after a step of an invocation that is not idle.    *)
LEMMA OwnersOfActor ==
  ASSUME GuardInv, Guarded, NEW p \in Invocations, ~Idle(p),
         NEW to, pc' = [pc EXCEPT ![p] = to]
  PROVE  /\ Owners = IF Working(p) THEN {Own(p)} ELSE {}
         /\ Owners' = IF Working(p)' THEN {Own(p)'} ELSE {}
<1>1. \A q \in Invocations : q # p => pc[q] = "idle" /\ pc'[q] = "idle"
  BY DEF GuardInv, OneAtATime, Idle, TypeOK
<1> QED BY <1>1 DEF Owners, Working

LEMMA NobodyWorks ==
  ASSUME \A q \in Invocations : pc[q] # "running"
  PROVE  Owners = {}
BY DEF Owners, Working

(* Nobody works when the user is free and does one thing at a time.         *)
LEMMA FreeOwners ==
  ASSUME GuardInv, Guarded, UserFree
  PROVE  Owners = {}
BY NobodyWorks DEF Guarded, UserFree, Idle

LEMMA StartOwns ==
  ASSUME GuardInv, Guarded, NEW p \in Invocations, NEW to, to # "running",
         UserFree, pc' = [pc EXCEPT ![p] = to], build' = build
  PROVE  UNCHANGED <<build[TopBuild], Owners>>
<1>1. \A q \in Invocations : pc'[q] # "running"
  BY DEF GuardInv, TypeOK, Guarded, UserFree, Idle
<1>2. Owners' = {}
  BY <1>1 DEF Owners, Working
<1> QED BY <1>2, FreeOwners

(* Every step of an invocation takes, releases or empties the directory, or *)
(* leaves it and its owner alone.                                           *)
LEMMA ActorOwns ==
  ASSUME GuardInv, Guarded, NEW p \in Invocations, Step(p) \/ Interrupt(p)
  PROVE  Owned!Next \/ UNCHANGED <<build[TopBuild], Owners>>
<1> DEFINE held == build[TopBuild]
<1>1. ~Idle(p) /\ \E to \in PcValues : pc' = [pc EXCEPT ![p] = to]
  BY StepFrame DEF GuardInv, Interrupt, Goes, Ends, PcValues
<1>2. PICK to \in PcValues : pc' = [pc EXCEPT ![p] = to]
  BY <1>1
<1>3. /\ Owners = IF Working(p) THEN {Own(p)} ELSE {}
      /\ Owners' = IF Working(p)' THEN {Own(p)'} ELSE {}
  BY <1>1, <1>2, OwnersOfActor
<1>4. pc'[p] = to /\ Own(p) \in Sources /\ job[p].dir = TopBuild
      /\ build \in [Dirs -> {NoDir, NoCache} \cup Sources] /\ TopBuild \in Dirs
  BY <1>2, OwnType, DirsAssumption DEF GuardInv, TypeOK, Job, Guarded
<1>5. CASE Launch(p)
  <2>1. pc[p] = "launch" /\ job' = job /\ build' = build /\ pc'[p] = "running"
    BY <1>5 DEF Launch, Goes, GuardInv, TypeOK
  <2>2. ~Working(p) /\ (Working(p)' <=> Builds(p)) /\ Own(p)' = Own(p)
    BY <2>1 DEF Working, Builds, Own
  <2>3. CASE Builds(p)
    <3>1. held \in {NoDir, NoCache, Own(p)}
      BY <2>1, <2>3 DEF GuardInv, VerdictHolds
    <3>2. Owned!Take(Own(p))
      BY <1>3, <2>1, <2>2, <2>3, <3>1 DEF Owned!Take
    <3> QED BY <1>4, <3>2 DEF Owned!Next
  <2> QED BY <1>3, <2>1, <2>2, <2>3
<1>6. CASE Clean(p) \/ CleanFails(p) \/ (Interrupt(p) /\ pc[p] # "running")
  <2>1. pc[p] # "running" /\ pc'[p] # "running"
    BY <1>6 DEF Clean, CleanFails, Interrupt, AfterCheck, Goes, Fails, Ends, GuardInv, TypeOK
  <2>2. Owners = {} /\ Owners' = {}
    BY <1>3, <2>1 DEF Working
  <2>3. held' = held \/ held' \in {NoDir, NoCache}
    BY <1>4, <1>6 DEF Clean, CleanFails, Interrupt, Leftovers
  <2> QED BY <2>2, <2>3 DEF Owned!Next, Owned!Empty
<1>7. CASE RunEnds(p) \/ (Interrupt(p) /\ pc[p] = "running")
  <2>1. pc[p] = "running" /\ pc'[p] = "idle"
    BY <1>7 DEF RunEnds, Interrupt, Fails, Ends, GuardInv, TypeOK
  <2>2. Owners' = {} /\ Owners = IF Builds(p) THEN {Own(p)} ELSE {}
    BY <1>3, <2>1 DEF Working
  <2>3. CASE Builds(p)
    <3>1. held' = held \/ held' \in BuildOutcomes(held, Own(p))
      BY <1>4, <1>7, <2>1, <2>3 DEF RunEnds, Interrupt
    <3>2. Owned!Release(Own(p))
      BY <2>2, <2>3, <3>1 DEF Owned!Release, BuildOutcomes
    <3> QED BY <1>4, <3>2 DEF Owned!Next
  <2>4. CASE ~Builds(p)
    BY <1>7, <2>1, <2>2, <2>4 DEF RunEnds, Interrupt
  <2> QED BY <2>3, <2>4
<1>8. CASE Step(p) /\ ~Launch(p) /\ ~Clean(p) /\ ~CleanFails(p) /\ ~RunEnds(p)
  <2>1. build' = build /\ pc[p] # "running" /\ pc'[p] # "running"
    BY <1>8 DEF Step, Finish, CheckPasses, CheckUnreadable, CheckRefuses, CheckCleans,
       Validate, LaunchFails, AfterCheck, Goes, Ends, Fails, GuardInv, TypeOK
  <2> QED BY <1>3, <2>1 DEF Working
<1> QED BY <1>5, <1>6, <1>7, <1>8

LEMMA AroundOwns ==
  ASSUME GuardInv, Guarded,
         \/ EditFile \/ EngineToggles \/ LayoutChanges
         \/ \E d \in Dirs : UserRemoves(d) \/ UserBuilds(d)
  PROVE  Owned!Next \/ UNCHANGED <<build[TopBuild], Owners>>
<1>1. UNCHANGED Owners
  <2>1. UNCHANGED <<pc, job>>
    BY DEF EditFile, EngineToggles, LayoutChanges, UserRemoves, UserBuilds
  <2> QED BY <2>1 DEF Owners, Working, Own, Builds
<1>2. CASE EditFile \/ EngineToggles \/ LayoutChanges
  BY <1>1, <1>2 DEF EditFile, EngineToggles, LayoutChanges
<1>3. CASE \E d \in Dirs : UserRemoves(d) \/ UserBuilds(d)
  <2>1. Owners = {}
    BY <1>3, FreeOwners DEF UserRemoves, UserBuilds
  <2>2. \/ build'[TopBuild] = NoDir
        \/ build'[TopBuild] \in BuildOutcomes(build[TopBuild], HostSource)
    BY <1>3 DEF UserRemoves, UserBuilds, Guarded, GuardInv, TypeOK
  <2>3. \/ build'[TopBuild] \in {NoDir, NoCache}
        \/ build'[TopBuild] = build[TopBuild]
        \/ build[TopBuild] \in {NoDir, NoCache} /\ build'[TopBuild] = HostSource
    BY <2>2 DEF BuildOutcomes
  <2> QED BY <1>1, <2>1, <2>3 DEF Owned!Next, Owned!Empty, Owned!OthersBuild, Sources
<1> QED BY <1>2, <1>3

(* Used as west-env is meant to be used, a build directory has one owner at *)
(* a time and changes hands only when it is empty (buildcheck.py 8-12).     *)
THEOREM HasOneOwner ==
  ASSUME Guarded
  PROVE  Spec => OneOwner
<1>1. Init => Owned!Init
  BY NobodyWorks, DirsAssumption DEF Init, Owned!Init
<1>2. GuardInv /\ [Next]_vars => [Owned!Next]_<<build[TopBuild], Owners>>
  <2> SUFFICES ASSUME GuardInv, [Next]_vars
               PROVE  Owned!Next \/ UNCHANGED <<build[TopBuild], Owners>>
    OBVIOUS
  <2>1. CASE UNCHANGED vars
    BY <2>1 DEF vars, Owners, Working, Own, Builds
  <2>2. ASSUME NEW p \in Invocations, NEW a \in Actions, NEW force \in BOOLEAN,
               NEW clean \in BOOLEAN, NEW d \in Dirs, Start(p, a, force, clean, d)
        PROVE  UNCHANGED <<build[TopBuild], Owners>>
    <3>1. \E to : to # "running" /\ pc' = [pc EXCEPT ![p] = to]
      <4>1. a \in {"init", "shell", "build"}
        BY ActionsAssumption DEF Guarded
      <4> QED BY <2>2, <4>1 DEF Start, FirstStep
    <3> QED BY <2>2, <3>1, StartOwns DEF Start
  <2>3. ASSUME NEW p \in Invocations, StartRejected(p)
        PROVE  UNCHANGED <<build[TopBuild], Owners>>
    BY <2>3, StartOwns DEF StartRejected, Ends
  <2> QED BY <2>1, <2>2, <2>3, ActorOwns, AroundOwns DEF Next
<1> QED BY <1>1, <1>2, GuardInvariant, PTL DEF Spec, OneOwner, Owned!Spec
=============================================================================
