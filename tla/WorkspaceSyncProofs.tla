------------------------- MODULE WorkspaceSyncProofs -------------------------
(***************************************************************************)
(* Proofs about WorkspaceSync, for every set of workspaces, files, volumes  *)
(* and sync processes.                                                      *)
(***************************************************************************)
EXTENDS WorkspaceSync, TLAPS

Lines == {"nothing", "ok", "no sync needed", "fatal", "killed"}
Steps == {"idle", "probe", "tar", "create", "cp", "copy", "back"}

LEMMA NoJobType == NoJob \in Job
<1>1. \E w \in Workspaces, m \in Modes : TRUE
  BY ModesAssumption, SwitchesAssumption
<1>2. \E j \in Job : TRUE
  <2>1. PICK w \in Workspaces, m \in Modes : TRUE
    BY <1>1
  <2>2. [ws |-> w, back |-> FALSE, mode |-> m] \in Job
    BY DEF Job
  <2> QED BY <2>2
<1> QED BY <1>2 DEF NoJob

LEMMA SourceAssumption == Source \subseteq Files /\ Elf \notin Source
BY MapsAssumption DEF Source

(* A file that is there is packed as a copy of the workspace.               *)
LEMMA CopyType ==
  ASSUME TypeOK, NEW p \in Procs, NEW f \in Files, Tree(p)[f] # Gone
  PROVE  /\ CopyOf(p, f) \in Copy
         /\ CopyOf(p, f).file = f
         /\ CopyOf(p, f).deep = Deep(p, f)
         /\ CopyOf(p, f).from = job[p].ws
         /\ CopyOf(p, f).holds = Tree(p)[f]
<1>1. job[p].ws \in Workspaces
  BY DEF TypeOK, Job
<1>2. host[job[p].ws] \in [Files -> Contents \cup {Gone}]
  BY <1>1 DEF TypeOK
<1>3. Tree(p)[f] \in Contents
  BY <1>2 DEF Tree
<1>4. Deep(p, f) \in BOOLEAN
  BY DEF Deep
<1> QED BY <1>1, <1>3, <1>4 DEF Copy, CopyOf

LEMMA VolumeType ==
  ASSUME TypeOK, NEW p \in Procs
  PROVE  job[p].ws \in Workspaces /\ Volume(p) \in Volumes
BY MapsAssumption DEF TypeOK, Job, Volume

(* Writing a copy into a volume replaces what lay at its path.              *)
LEMMA WrittenType ==
  ASSUME NEW old \in SUBSET Copy, NEW c \in Copy
  PROVE  /\ Written(old, c) \in SUBSET Copy
         /\ c \in Written(old, c)
         /\ Written(old, c) \subseteq old \cup {c}
         /\ \A x \in old : c.file # x.file \/ c.deep # x.deep => x \in Written(old, c)
BY DEF Written, SamePath

(* The history variable follows the host, whatever the step was.            *)
LEMMA ObservesType ==
  ASSUME TypeOK, Observes,
         host' \in [Workspaces -> [Files -> Contents \cup {Gone}]],
         job' \in [Procs -> Job]
  PROVE  recent' \in [Procs -> [Files -> SUBSET (Contents \cup {Gone})]]
<1>1. \A p \in Procs, f \in Files : host'[job'[p].ws][f] \in Contents \cup {Gone}
  BY DEF Job
<1>2. \A p \in Procs, f \in Files :
         recent[p][f] \in SUBSET (Contents \cup {Gone})
  <2>1. recent \in [Procs -> [Files -> SUBSET (Contents \cup {Gone})]]
    BY DEF TypeOK
  <2> QED BY <2>1
<1>3. \A p \in Procs, f \in Files :
         (IF pc'[p] = "idle" THEN {} ELSE recent[p][f] \cup {host'[job'[p].ws][f]})
            \in SUBSET (Contents \cup {Gone})
  BY <1>1, <1>2
<1> QED BY <1>3, Zenon DEF Observes

(* Giving one argument of a function another value of its range.            *)
LEMMA UpdateType ==
  ASSUME NEW S, NEW T, NEW g \in [S -> T], NEW s \in S, NEW t \in T
  PROVE  [g EXCEPT ![s] = t] \in [S -> T]
OBVIOUS

(* The types of what only syncs change.                                     *)
ControlOK ==
    /\ pc \in [Procs -> Steps]
    /\ job \in [Procs -> Job]
    /\ todo \in [Procs -> SUBSET Files]
    /\ items \in [Procs -> SUBSET Items]
    /\ entry \in [Procs -> SUBSET Items]
    /\ found \in [Procs -> SUBSET Items]
    /\ dirs \in [Volumes -> SUBSET Items]
    /\ said \in [Procs -> Lines]

LEMMA TypeParts ==
  ASSUME TypeOK, Observes, ControlOK',
         host' \in [Workspaces -> [Files -> Contents \cup {Gone}]],
         vol' \in [Volumes -> SUBSET Copy],
         pipe' \in [Procs -> SUBSET Copy],
         engine' \in BOOLEAN
  PROVE  TypeOK'
<1>1. recent' \in [Procs -> [Files -> SUBSET (Contents \cup {Gone})]]
  BY ObservesType DEF ControlOK
<1> QED BY <1>1 DEF TypeOK, ControlOK, Steps, Lines

LEMMA ControlType ==
  ASSUME TypeOK
  PROVE  ControlOK
BY DEF TypeOK, ControlOK, Steps, Lines

LEMMA EndsParts ==
  ASSUME TypeOK, Observes, NEW p \in Procs, NEW line \in Lines, Ends(p, line),
         host' \in [Workspaces -> [Files -> Contents \cup {Gone}]],
         vol' = vol, engine' = engine
  PROVE  TypeOK'
<1>1. ControlOK'
  BY NoJobType, ControlType DEF ControlOK, Ends, Steps
<1>2. pipe' \in [Procs -> SUBSET Copy]
  BY DEF Ends, TypeOK
<1> QED BY <1>1, <1>2, TypeParts DEF TypeOK

LEMMA StepType ==
  ASSUME TypeOK, NEW p \in Procs, Step(p) \/ Interrupt(p)
  PROVE  TypeOK'
<1>0. ControlOK /\ Volume(p) \in Volumes /\ Source \subseteq Files
  BY ControlType, VolumeType, SourceAssumption
<1>1. CASE \/ ProbeFails(p) \/ ProbeBind(p) \/ TarEnds(p) \/ CpFails(p) \/ CpEnds(p)
           \/ Interrupt(p)
  <2>1. \E line \in Lines : Ends(p, line)
    BY <1>1 DEF ProbeFails, ProbeBind, TarEnds, CpFails, CpEnds, Interrupt, Lines
  <2>2. UNCHANGED <<host, vol, engine>> /\ Observes
    BY <1>1 DEF ProbeFails, ProbeBind, TarEnds, CpFails, CpEnds, Interrupt
  <2> QED BY <2>1, <2>2, EndsParts DEF TypeOK
<1>2. CASE ProbeBack(p)
  <2>1. ControlOK'
    BY <1>0, <1>2 DEF ProbeBack, cp, ControlOK, Steps
  <2> QED BY <1>2, <2>1, TypeParts DEF ProbeBack, TypeOK
<1>3. CASE ProbeForward(p)
  <2>1. ControlOK'
    BY <1>0, <1>3 DEF ProbeForward, cp, ControlOK, Steps
  <2> QED BY <1>3, <2>1, TypeParts DEF ProbeForward, TypeOK
<1>4. CASE Pack(p)
  <2>1. PICK f \in todo[p] :
           /\ todo' = [todo EXCEPT ![p] = @ \ {f}]
           /\ pipe' = IF Tree(p)[f] = Gone THEN pipe
                      ELSE [pipe EXCEPT ![p] = @ \cup {CopyOf(p, f)}]
    BY <1>4 DEF Pack
  <2>2. UNCHANGED <<host, vol, engine, pc, job, cp, said>> /\ Observes
    BY <1>4 DEF Pack
  <2>3. ControlOK'
    BY <1>0, <2>1, <2>2 DEF cp, ControlOK
  <2>4. f \in Files /\ pipe \in [Procs -> SUBSET Copy]
    BY <2>1 DEF TypeOK
  <2>5. pipe' \in [Procs -> SUBSET Copy]
    <3>1. CASE Tree(p)[f] # Gone
      <4>1. pipe[p] \cup {CopyOf(p, f)} \in SUBSET Copy
        BY <2>4, <3>1, CopyType
      <4> QED BY <2>1, <2>4, <3>1, <4>1, UpdateType
    <3> QED BY <2>1, <2>4, <3>1
  <2> QED BY <2>2, <2>3, <2>5, TypeParts DEF TypeOK
<1>5. CASE Unpack(p)
  <2>1. PICK c \in pipe[p] :
           /\ pipe' = [pipe EXCEPT ![p] = @ \ {c}]
           /\ vol' = [vol EXCEPT ![Volume(p)] = Written(vol[Volume(p)], c)]
    BY <1>5 DEF Unpack
  <2>2. c \in Copy /\ vol \in [Volumes -> SUBSET Copy]
    BY DEF TypeOK
  <2>3. Written(vol[Volume(p)], c) \in SUBSET Copy
    BY <1>0, <2>2, WrittenType
  <2>4. vol' \in [Volumes -> SUBSET Copy] /\ pipe' \in [Procs -> SUBSET Copy]
    BY <1>0, <2>1, <2>2, <2>3, UpdateType DEF TypeOK
  <2>5. ControlOK'
    BY <1>0, <1>5 DEF Unpack, cp, ControlOK
  <2> QED BY <1>5, <2>4, <2>5, TypeParts DEF Unpack, TypeOK
<1>6. CASE CpCreates(p)
  <2>1. \A L \in Listings(p) : L \in SUBSET Items
    BY DEF Listings
  <2>2. ControlOK'
    BY <1>0, <1>6, <2>1 DEF CpCreates, ControlOK, Steps
  <2> QED BY <1>6, <2>2, TypeParts DEF CpCreates, TypeOK
<1>7. CASE CpLooks(p)
  <2>1. PICK i \in items[p] :
           /\ items' = [items EXCEPT ![p] = @ \ {i}]
           /\ entry' = [entry EXCEPT ![p] = {i}]
           /\ found' = [found EXCEPT ![p] = @ \cup ({i} \cap dirs[Volume(p)])]
           /\ todo' = [todo EXCEPT ![p] = {f \in Files : Item[f] = i}]
    BY <1>7 DEF CpLooks
  <2>2. i \in Items
    BY <1>0, <2>1 DEF ControlOK
  <2>3. ControlOK'
    BY <1>0, <1>7, <2>1, <2>2 DEF CpLooks, ControlOK, Steps
  <2> QED BY <1>7, <2>3, TypeParts DEF CpLooks, TypeOK
<1>8. CASE CpLands(p)
  <2>1. ControlOK'
    BY <1>0, <1>8 DEF CpLands, ControlOK
  <2> QED BY <1>8, <2>1, TypeParts DEF CpLands, TypeOK
<1>9. CASE CpCopied(p)
  <2>1. ControlOK'
    BY <1>0, <1>9 DEF CpCopied, ControlOK, Steps
  <2> QED BY <1>9, <2>1, TypeParts DEF CpCopied, TypeOK
<1>10. CASE Back(p)
  <2>1. job[p].ws \in Workspaces
    BY VolumeType
  <2>2. \A x \in InVolume(p, Elf) : x.holds \in Contents
    <3>1. vol[Volume(p)] \in SUBSET Copy
      BY <1>0 DEF TypeOK
    <3>2. InVolume(p, Elf) \subseteq Copy
      BY <3>1 DEF InVolume
    <3> QED BY <3>2 DEF Copy
  <2>3. host \in [Workspaces -> [Files -> Contents \cup {Gone}]]
    BY DEF TypeOK
  <2>4. host' \in [Workspaces -> [Files -> Contents \cup {Gone}]]
    <3>1. CASE host' = host
      BY <2>3, <3>1
    <3>2. CASE \E x \in InVolume(p, Elf) :
                 host' = [host EXCEPT ![job[p].ws][Artifact] = x.holds]
      BY <2>1, <2>2, <2>3, <3>2, MapsAssumption
    <3> QED BY <1>10, <3>1, <3>2 DEF Back
  <2>5. UNCHANGED <<vol, engine>> /\ Observes /\ Ends(p, "ok")
    BY <1>10 DEF Back
  <2> QED BY <2>4, <2>5, EndsParts DEF Lines
<1> QED BY <1>1, <1>2, <1>3, <1>4, <1>5, <1>6, <1>7, <1>8, <1>9, <1>10 DEF Step

LEMMA StartType ==
  ASSUME TypeOK, NEW p \in Procs, NEW w \in Workspaces, NEW back \in BOOLEAN,
         NEW mode \in Modes, Start(p, w, back, mode)
  PROVE  TypeOK'
<1>1. [ws |-> w, back |-> back, mode |-> mode] \in Job
  BY DEF Job
<1>2. ControlOK'
  BY <1>1, ControlType DEF Start, cp, ControlOK, Steps
<1> QED BY <1>2, TypeParts DEF Start, TypeOK

(* What happens around the program keeps the types too.                     *)
Around ==
    \/ \E w \in Workspaces : \/ \E f \in Files : UserEdits(w, f)
                             \/ ContainerBuilds(w) \/ VolumeBuilds(w)
    \/ EngineToggles

LEMMA AroundLeavesProcs ==
  ASSUME Around
  PROVE  UNCHANGED <<pc, job, todo, pipe, cp, said>> /\ Observes
BY DEF Around, UserEdits, ContainerBuilds, VolumeBuilds, EngineToggles, Changes

LEMMA AroundType ==
  ASSUME TypeOK, Around
  PROVE  TypeOK'
<1>0. ControlOK' /\ Observes /\ pipe' \in [Procs -> SUBSET Copy]
  BY AroundLeavesProcs, ControlType DEF cp, ControlOK, TypeOK
<1>1. ASSUME NEW w \in Workspaces, NEW f \in Files,
             NEW holds \in Contents \cup {Gone}, Changes(w, f, holds)
      PROVE  TypeOK'
  <2>1. host' \in [Workspaces -> [Files -> Contents \cup {Gone}]]
    BY <1>1 DEF Changes, TypeOK
  <2> QED BY <1>0, <1>1, <2>1, TypeParts DEF Changes, TypeOK
<1>2. ASSUME NEW w \in Workspaces, VolumeBuilds(w)
      PROVE  TypeOK'
  <2>1. PICK holds \in Contents :
           vol' = [vol EXCEPT ![Slug[w]] = Written(vol[Slug[w]],
                     [file |-> Elf, deep |-> FALSE, from |-> w, holds |-> holds])]
    BY <1>2 DEF VolumeBuilds
  <2>2. [file |-> Elf, deep |-> FALSE, from |-> w, holds |-> holds] \in Copy
    BY MapsAssumption DEF Copy
  <2>3. Slug[w] \in Volumes /\ vol \in [Volumes -> SUBSET Copy]
    BY MapsAssumption DEF TypeOK
  <2>4. Written(vol[Slug[w]], [file |-> Elf, deep |-> FALSE, from |-> w, holds |-> holds])
           \in SUBSET Copy
    BY <2>2, <2>3, WrittenType
  <2>5. vol' \in [Volumes -> SUBSET Copy]
    BY <2>1, <2>3, <2>4, UpdateType
  <2> QED BY <1>0, <1>2, <2>5, TypeParts DEF VolumeBuilds, TypeOK
<1>3. ASSUME EngineToggles
      PROVE  TypeOK'
  BY <1>0, <1>3, TypeParts DEF EngineToggles, TypeOK
<1> QED BY <1>1, <1>2, <1>3, MapsAssumption DEF Around, UserEdits, ContainerBuilds

LEMMA InitType ==
  ASSUME Init
  PROVE  TypeOK
BY NoJobType DEF Init, TypeOK

Acts(p) ==
    \/ \E w \in Workspaces, back \in BOOLEAN, mode \in Modes : Start(p, w, back, mode)
    \/ Step(p)
    \/ Interrupt(p)

LEMMA NextCases ==
  ASSUME [Next]_vars
  PROVE  (\E p \in Procs : Acts(p)) \/ Around \/ UNCHANGED vars
BY DEF Next, Acts, Around

LEMMA NextType ==
  ASSUME TypeOK, [Next]_vars
  PROVE  TypeOK'
<1>1. CASE \E p \in Procs : Acts(p)
  BY <1>1, StepType, StartType DEF Acts
<1>2. CASE UNCHANGED vars
  BY <1>2 DEF vars, TypeOK
<1> QED BY <1>1, <1>2, AroundType, NextCases

(* Every variable keeps its type: in particular a sync only ever names      *)
(* files and entries of the workspace, and only files that were there are   *)
(* copied (_sync_via_tar_pipe, _sync_via_docker_cp).                        *)
THEOREM TypeCorrect == Spec => []TypeOK
<1>1. Init => TypeOK
  BY InitType
<1>2. TypeOK /\ [Next]_vars => TypeOK'
  BY NextType
<1> QED BY <1>1, <1>2, PTL DEF Spec

-----------------------------------------------------------------------------
(* One step, seen from a sync and from a volume.                            *)

(* The steps of one sync leave another sync where it is.                    *)
LEMMA OthersStand ==
  ASSUME TypeOK, NEW p \in Procs, NEW q \in Procs, p # q, Acts(p)
  PROVE  /\ pc'[q] = pc[q] /\ job'[q] = job[q]
         /\ todo'[q] = todo[q] /\ pipe'[q] = pipe[q]
         /\ items'[q] = items[q] /\ found'[q] = found[q] /\ entry'[q] = entry[q]
<1>1. CASE \E line \in Lines : Ends(p, line)
  BY <1>1 DEF Ends, TypeOK
<1>2. CASE \E w \in Workspaces, back \in BOOLEAN, mode \in Modes : Start(p, w, back, mode)
  BY <1>2 DEF Start, cp, TypeOK
<1>3. CASE ProbeBack(p) \/ ProbeForward(p)
  BY <1>3 DEF ProbeBack, ProbeForward, cp, TypeOK
<1>4. CASE Pack(p) \/ Unpack(p)
  BY <1>4 DEF Pack, Unpack, cp, TypeOK
<1>5. CASE CpCreates(p) \/ CpLooks(p)
  BY <1>5 DEF CpCreates, CpLooks, TypeOK
<1>6. CASE CpLands(p) \/ CpCopied(p)
  BY <1>6 DEF CpLands, CpCopied, TypeOK
<1>7. CASE \/ ProbeFails(p) \/ ProbeBind(p) \/ TarEnds(p) \/ CpFails(p) \/ CpEnds(p)
           \/ Back(p) \/ Interrupt(p)
  BY <1>1, <1>7 DEF ProbeFails, ProbeBind, TarEnds, CpFails, CpEnds, Back, Interrupt, Lines
<1> QED BY <1>2, <1>3, <1>4, <1>5, <1>6, <1>7 DEF Acts, Step

(* A step of a sync ends it or is one of these.                             *)
LEMMA OwnStep ==
  ASSUME TypeOK, NEW p \in Procs, Acts(p)
  PROVE  \/ /\ \E line \in Lines : Ends(p, line)
            /\ vol' = vol
         \/ \E w \in Workspaces, back \in BOOLEAN, mode \in Modes :
               Start(p, w, back, mode)
         \/ ProbeBack(p) \/ ProbeForward(p) \/ Pack(p) \/ Unpack(p)
         \/ CpCreates(p) \/ CpLooks(p) \/ CpLands(p) \/ CpCopied(p)
BY DEF Acts, Step, ProbeFails, ProbeBind, TarEnds, CpFails, CpEnds, Back, Interrupt, Lines

(* Only two steps write into a volume, one copy each.                       *)
LEMMA VolumeChanges ==
  ASSUME [Next]_vars
  PROVE  \/ vol' = vol
         \/ \E p \in Procs : Unpack(p)
         \/ \E w \in Workspaces : VolumeBuilds(w)
<1>1. CASE \E p \in Procs : Acts(p)
  BY <1>1 DEF Acts, Start, Step, ProbeFails, ProbeBind, ProbeBack, ProbeForward, Pack,
              TarEnds, CpCreates, CpLooks, CpLands, CpCopied, CpFails, CpEnds, Back, Interrupt
<1>2. CASE Around
  BY <1>2 DEF Around, UserEdits, ContainerBuilds, EngineToggles, Changes
<1>3. CASE UNCHANGED vars
  BY <1>3 DEF vars
<1> QED BY <1>1, <1>2, <1>3, NextCases

(* A copy in a volume was there, came out of a pipe, or was built.          *)
LEMMA Arrives ==
  ASSUME TypeOK, [Next]_vars, NEW v \in Volumes, NEW x \in vol'[v]
  PROVE  \/ x \in vol[v]
         \/ \E p \in Procs : Unpack(p) /\ x \in pipe[p]
         \/ ByHand /\ x.file = Elf /\ x.deep = FALSE
<1>0. vol \in [Volumes -> SUBSET Copy]
  BY DEF TypeOK
<1>1. ASSUME NEW u \in Volumes, NEW c \in Copy,
             vol' = [vol EXCEPT ![u] = Written(vol[u], c)]
      PROVE  x \in vol[v] \/ x = c
  <2>1. CASE u = v
    <3>1. vol'[v] = Written(vol[v], c) /\ vol[v] \in SUBSET Copy
      BY <1>0, <1>1, <2>1
    <3> QED BY <3>1, WrittenType
  <2>2. CASE u # v
    BY <1>0, <1>1, <2>2
  <2> QED BY <2>1, <2>2
<1>2. CASE vol' = vol
  BY <1>2
<1>3. ASSUME NEW p \in Procs, Unpack(p)
      PROVE  x \in vol[v] \/ x \in pipe[p]
  <2>1. PICK c \in pipe[p] : vol' = [vol EXCEPT ![Volume(p)] = Written(vol[Volume(p)], c)]
    BY <1>3 DEF Unpack
  <2>2. c \in Copy /\ Volume(p) \in Volumes
    BY VolumeType DEF TypeOK
  <2> QED BY <1>1, <2>1, <2>2
<1>4. ASSUME NEW w \in Workspaces, VolumeBuilds(w)
      PROVE  x \in vol[v] \/ (ByHand /\ x.file = Elf /\ x.deep = FALSE)
  <2>1. PICK holds \in Contents :
           vol' = [vol EXCEPT ![Slug[w]] = Written(vol[Slug[w]],
                     [file |-> Elf, deep |-> FALSE, from |-> w, holds |-> holds])]
    BY <1>4 DEF VolumeBuilds
  <2>2. [file |-> Elf, deep |-> FALSE, from |-> w, holds |-> holds] \in Copy
        /\ Slug[w] \in Volumes
    BY MapsAssumption DEF Copy
  <2>3. x \in vol[v] \/ x = [file |-> Elf, deep |-> FALSE, from |-> w, holds |-> holds]
    BY <1>1, <2>1, <2>2
  <2> QED BY <1>4, <2>3 DEF VolumeBuilds
<1> QED BY <1>2, <1>3, <1>4, VolumeChanges

LEMMA NextObserves ==
  ASSUME [Next]_vars
  PROVE  Observes \/ UNCHANGED vars
BY DEF Next, Step, Start, Interrupt, ProbeFails, ProbeBind, ProbeBack, ProbeForward,
       Pack, Unpack, TarEnds, CpCreates, CpLooks, CpLands, CpCopied, CpFails, CpEnds, Back,
       UserEdits, ContainerBuilds, VolumeBuilds, EngineToggles, Changes

(* While a sync runs, its history only grows, and holds what is there.      *)
LEMMA RecentGrows ==
  ASSUME TypeOK, HistoryHolds, [Next]_vars, NEW q \in Procs, pc'[q] # "idle",
         NEW f \in Files
  PROVE  recent[q][f] \subseteq recent'[q][f] /\ Tree(q)'[f] \in recent'[q][f]
<1>1. CASE Observes
  BY <1>1 DEF Observes, Tree
<1>2. CASE UNCHANGED vars
  BY <1>2 DEF vars, HistoryHolds, Tree
<1> QED BY <1>1, <1>2, NextObserves

LEMMA HistoryHoldsStep ==
  ASSUME TypeOK, HistoryHolds, [Next]_vars
  PROVE  HistoryHolds'
<1> SUFFICES ASSUME NEW p \in Procs, NEW f \in Files
             PROVE  IF pc'[p] = "idle" THEN recent'[p][f] = {}
                                       ELSE Tree(p)'[f] \in recent'[p][f]
  BY DEF HistoryHolds
<1>1. CASE pc'[p] # "idle"
  BY <1>1, RecentGrows
<1>2. CASE pc'[p] = "idle"
  <2>1. CASE Observes
    BY <1>2, <2>1 DEF Observes
  <2>2. CASE UNCHANGED vars
    BY <1>2, <2>2 DEF vars, HistoryHolds
  <2> QED BY <2>1, <2>2, NextObserves
<1> QED BY <1>1, <1>2

LEMMA DirectedStep ==
  ASSUME TypeOK, Directed, [Next]_vars
  PROVE  Directed'
<1> SUFFICES ASSUME NEW p \in Procs
             PROVE  /\ pc'[p] = "tar" => ~job'[p].back /\ TarPipe
                    /\ pc'[p] \in {"create", "cp", "copy"} => ~job'[p].back /\ ~TarPipe
                    /\ pc'[p] = "back" => job'[p].back
                    /\ pc'[p] \notin {"tar", "copy"} => todo'[p] = {} /\ pipe'[p] = {}
                    /\ pc'[p] \notin {"cp", "copy"} => items'[p] = {} /\ found'[p] = {}
  BY DEF Directed
<1>1. CASE /\ pc'[p] = pc[p] /\ job'[p] = job[p] /\ todo'[p] = todo[p]
           /\ pipe'[p] = pipe[p] /\ items'[p] = items[p] /\ found'[p] = found[p]
  BY <1>1 DEF Directed
<1>2. CASE Acts(p)
  <2>1. CASE \E line \in Lines : Ends(p, line)
    BY <2>1 DEF Ends, TypeOK
  <2>2. CASE \E w \in Workspaces, back \in BOOLEAN, mode \in Modes :
                Start(p, w, back, mode)
    BY <2>2 DEF Start, cp, TypeOK, Directed
  <2>3. CASE ProbeBack(p) \/ ProbeForward(p)
    BY <2>3 DEF ProbeBack, ProbeForward, cp, TypeOK, Directed
  <2>4. CASE Pack(p) \/ Unpack(p)
    BY <2>4 DEF Pack, Unpack, cp, TypeOK, Directed
  <2>5. CASE CpCreates(p)
    BY <2>5 DEF CpCreates, TypeOK, Directed
  <2>6. CASE CpLooks(p)
    BY <2>6 DEF CpLooks, TypeOK, Directed
  <2>7. CASE CpLands(p) \/ CpCopied(p)
    BY <2>7 DEF CpLands, CpCopied, TypeOK, Directed
  <2> QED BY <1>2, <2>1, <2>2, <2>3, <2>4, <2>5, <2>6, <2>7, OwnStep
<1>3. CASE \E q \in Procs : q # p /\ Acts(q)
  BY <1>1, <1>3, OthersStand
<1>4. CASE Around \/ UNCHANGED vars
  BY <1>1, <1>4, AroundLeavesProcs DEF vars, cp
<1> QED BY <1>2, <1>3, <1>4, NextCases

-----------------------------------------------------------------------------
(* What a pipe carries.                                                     *)

(* What the invariants below share.                                         *)
Basic == TypeOK /\ HistoryHolds /\ Directed /\ PipesAreOwn

LEMMA PipesAreOwnStep ==
  ASSUME Basic, [Next]_vars
  PROVE  PipesAreOwn'
<1> SUFFICES ASSUME NEW p \in Procs, NEW c \in pipe'[p]
             PROVE  /\ c.from = job'[p].ws
                    /\ c.deep = Deep(p, c.file)'
                    /\ c.holds \in recent'[p][c.file]
  BY DEF PipesAreOwn
<1>0. TypeOK /\ TypeOK' /\ Directed'
  BY NextType, DirectedStep DEF Basic
<1>1. c.file \in Files /\ pc'[p] # "idle"
  <2>1. c \in Copy
    BY <1>0 DEF TypeOK
  <2> QED BY <1>0, <2>1 DEF Copy, Directed
<1>2. recent[p][c.file] \subseteq recent'[p][c.file]
  BY <1>1, RecentGrows DEF Basic
<1>3. CASE c \in pipe[p] /\ job'[p] = job[p] /\ found'[p] = found[p]
  BY <1>2, <1>3 DEF Basic, PipesAreOwn, Deep
<1>4. CASE Acts(p)
  <2>1. CASE \E line \in Lines : Ends(p, line)
    BY <1>0, <1>1, <2>1 DEF Ends, TypeOK
  <2>2. CASE \E w \in Workspaces, back \in BOOLEAN, mode \in Modes :
                Start(p, w, back, mode)
    BY <1>0, <1>1, <2>2 DEF Start, Basic, Directed
  <2>3. CASE ProbeBack(p) \/ ProbeForward(p)
    BY <1>3, <2>3 DEF ProbeBack, ProbeForward, cp
  <2>4. CASE Pack(p)
    <3>1. UNCHANGED <<job, found>> /\ pc[p] # "idle"
      BY <2>4 DEF Pack, cp
    <3>2. PICK f \in todo[p] :
             pipe' = IF Tree(p)[f] = Gone THEN pipe
                     ELSE [pipe EXCEPT ![p] = @ \cup {CopyOf(p, f)}]
      BY <2>4 DEF Pack
    <3>3. CASE c \in pipe[p]
      BY <1>3, <3>1, <3>3
    <3>4. CASE c \notin pipe[p]
      <4>1. Tree(p)[f] # Gone /\ c = CopyOf(p, f) /\ f \in Files
        BY <1>0, <3>2, <3>4 DEF TypeOK
      <4>2. c.file = f /\ c.deep = Deep(p, f) /\ c.from = job[p].ws /\ c.holds = Tree(p)[f]
        BY <1>0, <4>1, CopyType
      <4>3. Tree(p)[f] \in recent[p][f]
        BY <3>1, <4>1 DEF Basic, HistoryHolds
      <4> QED BY <1>2, <3>1, <4>2, <4>3 DEF Deep
    <3> QED BY <3>3, <3>4
  <2>5. CASE Unpack(p)
    <3>1. UNCHANGED <<job, found>> /\ \E d \in pipe[p] : pipe' = [pipe EXCEPT ![p] = @ \ {d}]
      BY <2>5 DEF Unpack, cp
    <3>2. c \in pipe[p]
      <4>1. pipe \in [Procs -> SUBSET Copy]
        BY <1>0 DEF TypeOK
      <4> QED BY <3>1, <4>1
    <3> QED BY <1>3, <3>1, <3>2
  <2>6. CASE CpCreates(p) \/ CpLands(p) \/ CpCopied(p)
    BY <1>3, <2>6 DEF CpCreates, CpLands, CpCopied
  <2>7. CASE CpLooks(p)
    BY <2>7 DEF CpLooks, Basic, Directed
  <2> QED BY <1>4, <2>1, <2>2, <2>3, <2>4, <2>5, <2>6, <2>7, OwnStep DEF Basic
<1>5. CASE \E q \in Procs : q # p /\ Acts(q)
  BY <1>0, <1>3, <1>5, OthersStand
<1>6. CASE Around \/ UNCHANGED vars
  BY <1>3, <1>6, AroundLeavesProcs DEF vars, cp
<1> QED BY <1>4, <1>5, <1>6, NextCases

LEMMA BasicAlways == Spec => []Basic
<1>1. Init => Basic
  BY InitType DEF Init, Basic, HistoryHolds, Directed, PipesAreOwn
<1>2. Basic /\ [Next]_vars => Basic'
  BY NextType, HistoryHoldsStep, DirectedStep, PipesAreOwnStep DEF Basic
<1> QED BY <1>1, <1>2, PTL DEF Spec

LEMMA TarCarriesSourceStep ==
  ASSUME TarPipe, Basic, TarCarriesSource, [Next]_vars
  PROVE  TarCarriesSource'
<1>0. TypeOK /\ TypeOK' /\ Source' = Source
  BY NextType DEF Basic, Source
<1>1. ASSUME NEW v \in Volumes, NEW x \in vol'[v]
      PROVE  (x.file \in Source \/ (ByHand /\ x.file = Elf)) /\ ~x.deep
  <2>1. CASE x \in vol[v]
    BY <2>1 DEF TarCarriesSource, NothingExcluded, PathsMirrored
  <2>2. ASSUME NEW p \in Procs, Unpack(p), x \in pipe[p]
        PROVE  x.file \in Source /\ ~x.deep
    <3>1. found[p] = {}
      BY <2>2, TarPipe DEF Basic, Directed
    <3>2. x.file \in Source /\ x.deep = Deep(p, x.file)
      BY <2>2 DEF TarCarriesSource, Basic, PipesAreOwn
    <3> QED BY <3>1, <3>2 DEF Deep
  <2> QED BY <1>0, <1>1, <2>1, <2>2, Arrives
<1>2. NothingExcluded' /\ PathsMirrored'
  BY <1>0, <1>1 DEF NothingExcluded, PathsMirrored
<1>3. ASSUME NEW p \in Procs
      PROVE  /\ todo'[p] \subseteq Source
             /\ \A c \in pipe'[p] : c.file \in Source
  <2>1. CASE pc'[p] = pc[p] /\ todo'[p] = todo[p] /\ pipe'[p] = pipe[p]
    BY <2>1 DEF TarCarriesSource
  <2>2. CASE Acts(p)
    <3>1. CASE \E line \in Lines : Ends(p, line)
      BY <1>0, <3>1 DEF Ends, TypeOK
    <3>2. CASE \E w \in Workspaces, back \in BOOLEAN, mode \in Modes :
                  Start(p, w, back, mode)
      BY <1>0, <3>2 DEF Start, TypeOK, TarCarriesSource
    <3>3. CASE ProbeBack(p) \/ ProbeForward(p)
      BY <1>0, <3>3, TarPipe DEF ProbeBack, ProbeForward, TypeOK, TarCarriesSource
    <3>4. CASE Pack(p)
      <4>1. PICK f \in todo[p] :
               /\ todo' = [todo EXCEPT ![p] = @ \ {f}]
               /\ pipe' = IF Tree(p)[f] = Gone THEN pipe
                          ELSE [pipe EXCEPT ![p] = @ \cup {CopyOf(p, f)}]
        BY <3>4 DEF Pack
      <4>2. pc' = pc /\ todo'[p] \subseteq todo[p] /\ f \in Source
        BY <1>0, <3>4, <4>1 DEF Pack, TypeOK, TarCarriesSource
      <4>3. pipe \in [Procs -> SUBSET Copy]
        BY <1>0 DEF TypeOK
      <4>4. \A c \in pipe'[p] : c \in pipe[p] \/ c = CopyOf(p, f)
        BY <4>1, <4>3
      <4>5. \A c \in pipe'[p] : c \in pipe[p] \/ c.file = f
        BY <4>4 DEF CopyOf
      <4> QED BY <4>2, <4>5 DEF TarCarriesSource
    <3>5. CASE Unpack(p)
      <4>1. UNCHANGED <<pc, todo>> /\ \E d \in pipe[p] : pipe' = [pipe EXCEPT ![p] = @ \ {d}]
        BY <3>5 DEF Unpack
      <4>2. pipe'[p] \subseteq pipe[p]
        <5>1. pipe \in [Procs -> SUBSET Copy]
          BY <1>0 DEF TypeOK
        <5> QED BY <4>1, <5>1
      <4> QED BY <4>1, <4>2 DEF TarCarriesSource
    <3>6. CASE CpCreates(p) \/ CpLooks(p) \/ CpLands(p) \/ CpCopied(p)
      BY <3>6, TarPipe DEF CpCreates, CpLooks, CpLands, CpCopied, Basic, Directed
    <3> QED BY <1>0, <2>2, <3>1, <3>2, <3>3, <3>4, <3>5, <3>6, OwnStep
  <2>3. CASE \E q \in Procs : q # p /\ Acts(q)
    BY <1>0, <2>1, <2>3, OthersStand
  <2>4. CASE Around \/ UNCHANGED vars
    BY <2>1, <2>4, AroundLeavesProcs DEF vars
  <2> QED BY <2>2, <2>3, <2>4, NextCases
<1> QED BY <1>0, <1>2, <1>3 DEF TarCarriesSource

(* What tar has to read, carries and has written is source                  *)
(* (_sync_via_tar_pipe), the invariant behind the two that follow.          *)
THEOREM TarCarries ==
  ASSUME TarPipe
  PROVE  Spec => []TarCarriesSource
<1>1. Init => TarCarriesSource
  BY DEF Init, TarCarriesSource, NothingExcluded, PathsMirrored
<1>2. Basic /\ TarCarriesSource /\ [Next]_vars => TarCarriesSource'
  BY TarCarriesSourceStep, TarPipe
<1> QED BY <1>1, <1>2, BasicAlways, PTL DEF Spec

(* With the tar pipe, no excluded directory of any depth reaches a volume:  *)
(* what lies in one was source when it was read, or was built there.        *)
THEOREM TarExcludes ==
  ASSUME TarPipe
  PROVE  Spec => []NothingExcluded
<1>1. TarCarriesSource => NothingExcluded
  BY DEF TarCarriesSource
<1> QED BY <1>1, TarCarries, TarPipe, PTL

(* With the tar pipe, a file always arrives at its own path, however often  *)
(* the workspace was synchronised before.                                   *)
THEOREM TarMirrorsPaths ==
  ASSUME TarPipe
  PROVE  Spec => []PathsMirrored
<1>1. TarCarriesSource => PathsMirrored
  BY DEF TarCarriesSource
<1> QED BY <1>1, TarCarries, TarPipe, PTL

-----------------------------------------------------------------------------
(* What "source synced" means, when no other sync fills the volume.         *)

(* The conjunct of NothingSkipped that speaks of one file.                  *)
Somewhere(p, f) ==
    \/ f \in todo[p] \/ Item[f] \in items[p]
    \/ \E c \in pipe[p] : c.file = f
    \/ Arrived(p, f)

(* What has arrived stays while the volume does.                            *)
LEMMA ArrivedStays ==
  ASSUME Basic, [Next]_vars, NEW p \in Procs, pc'[p] # "idle", NEW f \in Source,
         Arrived(p, f), job'[p] = job[p],
         Item[f] \in found'[p] <=> Item[f] \in found[p],
         \A x \in vol[Volume(p)] : x.file = f => x \in vol'[Volume(p)]
  PROVE  Arrived(p, f)'
<1>1. PICK x \in vol[Volume(p)] :
         /\ x.file = f /\ x.deep = Deep(p, f)
         /\ x.from = job[p].ws /\ x.holds \in recent[p][f]
  BY DEF Arrived
<1>2. x.holds \in recent'[p][f]
  BY <1>1, SourceAssumption, RecentGrows DEF Basic
<1>3. Volume(p)' = Volume(p) /\ (Deep(p, f)' <=> Deep(p, f))
  BY DEF Volume, Deep
<1>4. x.deep = Deep(p, f)'
  BY <1>1, <1>3 DEF Deep
<1> QED BY <1>1, <1>2, <1>3, <1>4 DEF Arrived

(* Nobody else writes a source file into the volume of a sync that is alone *)
(* there.                                                                   *)
LEMMA AloneInVolume ==
  ASSUME Basic, OneSyncPerVolume, [Next]_vars, NEW p \in Procs,
         Forward(p), ~Unpack(p), NEW f \in Source, NEW x \in vol[Volume(p)], x.file = f
  PROVE  x \in vol'[Volume(p)]
<1>0. vol \in [Volumes -> SUBSET Copy] /\ Volume(p) \in Volumes
  BY VolumeType DEF Basic, TypeOK
<1>1. CASE vol' = vol
  BY <1>1
<1>2. ASSUME NEW q \in Procs, Unpack(q)
      PROVE  x \in vol'[Volume(p)]
  <2>1. Forward(q) /\ q # p
    BY <1>2 DEF Unpack, Basic, Directed, Forward
  <2>2. Volume(q) # Volume(p)
    BY <2>1 DEF OneSyncPerVolume
  <2> QED BY <1>0, <1>2, <2>2 DEF Unpack
<1>3. ASSUME NEW w \in Workspaces, VolumeBuilds(w)
      PROVE  x \in vol'[Volume(p)]
  <2>1. PICK holds \in Contents :
           vol' = [vol EXCEPT ![Slug[w]] = Written(vol[Slug[w]],
                     [file |-> Elf, deep |-> FALSE, from |-> w, holds |-> holds])]
    BY <1>3 DEF VolumeBuilds
  <2> DEFINE c == [file |-> Elf, deep |-> FALSE, from |-> w, holds |-> holds]
  <2>2. c \in Copy /\ c.file # x.file
    BY MapsAssumption, SourceAssumption DEF Copy
  <2>3. vol' = [vol EXCEPT ![Slug[w]] = Written(vol[Slug[w]], c)]
    BY <2>1
  <2> HIDE DEF c
  <2>4. CASE Slug[w] = Volume(p)
    BY <1>0, <2>2, <2>3, <2>4, WrittenType
  <2>5. CASE Slug[w] # Volume(p)
    BY <1>0, <2>3, <2>5
  <2> QED BY <2>4, <2>5
<1> QED BY <1>1, <1>2, <1>3, VolumeChanges

LEMMA SomewhereStep ==
  ASSUME Basic, NothingSkipped, OneSyncPerVolume, [Next]_vars,
         NEW p \in Procs, pc'[p] \in {"tar", "cp", "copy"},
         NEW f \in Source, Gone \notin recent'[p][f]
  PROVE  Somewhere(p, f)'
<1>0. /\ TypeOK /\ TypeOK' /\ Directed' /\ f \in Files /\ Source' = Source
      /\ recent[p][f] \subseteq recent'[p][f]
  BY NextType, DirectedStep, SourceAssumption, RecentGrows DEF Basic, Source
<1>1. pc[p] \in {"tar", "cp", "copy"} => Forward(p) /\ Somewhere(p, f)
  BY <1>0 DEF Basic, Directed, Forward, NothingSkipped, Somewhere
<1>2. pc[p] # "idle" => Tree(p)[f] # Gone
  BY <1>0 DEF Basic, HistoryHolds
<1>3. CASE /\ pc[p] \in {"tar", "cp", "copy"} /\ job'[p] = job[p] /\ todo'[p] = todo[p]
           /\ pipe'[p] = pipe[p] /\ items'[p] = items[p] /\ found'[p] = found[p]
           /\ ~Unpack(p)
  <2>1. CASE Arrived(p, f)
    <3>1. \A x \in vol[Volume(p)] : x.file = f => x \in vol'[Volume(p)]
      BY <1>1, <1>3, AloneInVolume
    <3> QED BY <1>3, <2>1, <3>1, ArrivedStays DEF Somewhere
  <2>2. CASE ~Arrived(p, f)
    BY <1>1, <1>3, <2>2 DEF Somewhere
  <2> QED BY <2>1, <2>2
<1>4. CASE Acts(p)
  <2>1. CASE ProbeForward(p)
    <3>1. pc'[p] = "tar" /\ todo'[p] = Source
      BY <1>0, <2>1 DEF ProbeForward, TypeOK
    <3> QED BY <3>1 DEF Somewhere
  <2>2. CASE Pack(p)
    <3>1. PICK g \in todo[p] :
             /\ todo' = [todo EXCEPT ![p] = @ \ {g}]
             /\ pipe' = IF Tree(p)[g] = Gone THEN pipe
                        ELSE [pipe EXCEPT ![p] = @ \cup {CopyOf(p, g)}]
      BY <2>2 DEF Pack
    <3>2. UNCHANGED <<vol, job, items, found>> /\ pc[p] \in {"tar", "copy"}
      BY <2>2 DEF Pack, cp
    <3>3. CASE f \in todo[p] /\ f = g
      <4>1. CopyOf(p, f) \in pipe'[p]
        BY <1>0, <1>2, <3>1, <3>2, <3>3 DEF TypeOK
      <4> QED BY <4>1 DEF Somewhere, CopyOf
    <3>4. CASE f \in todo[p] /\ f # g
      BY <1>0, <3>1, <3>4 DEF TypeOK, Somewhere
    <3>5. CASE Item[f] \in items[p]
      BY <3>2, <3>5 DEF Somewhere
    <3>6. CASE \E c \in pipe[p] : c.file = f
      <4>1. pipe[p] \subseteq pipe'[p]
        BY <1>0, <3>1 DEF TypeOK
      <4> QED BY <3>6, <4>1 DEF Somewhere
    <3>7. CASE Arrived(p, f)
      BY <3>2, <3>7, ArrivedStays DEF Somewhere
    <3> QED BY <1>1, <3>2, <3>3, <3>4, <3>5, <3>6, <3>7 DEF Somewhere
  <2>3. CASE Unpack(p)
    <3>1. PICK c \in pipe[p] :
             /\ pipe' = [pipe EXCEPT ![p] = @ \ {c}]
             /\ vol' = [vol EXCEPT ![Volume(p)] = Written(vol[Volume(p)], c)]
      BY <2>3 DEF Unpack
    <3>2. UNCHANGED <<job, todo, items, found>> /\ pc[p] \in {"tar", "copy"}
      BY <2>3 DEF Unpack, cp
    <3>3. /\ vol \in [Volumes -> SUBSET Copy] /\ Volume(p) \in Volumes
          /\ pipe \in [Procs -> SUBSET Copy] /\ c \in Copy
      BY <1>0, VolumeType DEF TypeOK
    <3>4. /\ c \in vol'[Volume(p)]
          /\ \A x \in vol[Volume(p)] : x.file = f /\ c.file # f => x \in vol'[Volume(p)]
      BY <3>1, <3>3, WrittenType
    <3>5. CASE c.file = f
      <4>1. /\ c.from = job[p].ws /\ c.deep = Deep(p, f) /\ c.holds \in recent'[p][f]
        BY <1>0, <3>5 DEF Basic, PipesAreOwn
      <4>2. Volume(p)' = Volume(p) /\ Deep(p, f)' = Deep(p, f)
        BY <3>2 DEF Volume, Deep
      <4> QED BY <3>2, <3>4, <3>5, <4>1, <4>2 DEF Somewhere, Arrived
    <3>6. CASE c.file # f
      <4>1. CASE \E d \in pipe[p] : d.file = f
        BY <3>1, <3>3, <3>6, <4>1 DEF Somewhere
      <4>2. CASE Arrived(p, f)
        BY <3>2, <3>4, <3>6, <4>2, ArrivedStays DEF Somewhere
      <4> QED BY <1>1, <3>2, <4>1, <4>2 DEF Somewhere
    <3> QED BY <3>5, <3>6
  <2>4. CASE CpCreates(p)
    <3>1. PICK L \in Listings(p) : items' = [items EXCEPT ![p] = L]
      BY <2>4 DEF CpCreates
    <3>2. f \in Content(p, Item[f])
      BY <1>0, <1>2, <2>4 DEF CpCreates, Content
    <3>3. Item[f] \in L
      BY <1>0, <3>2 DEF Listings, Items, Source
    <3> QED BY <1>0, <3>1, <3>3 DEF TypeOK, Somewhere
  <2>5. CASE CpLooks(p)
    <3>1. PICK i \in items[p] :
             /\ items' = [items EXCEPT ![p] = @ \ {i}]
             /\ found' = [found EXCEPT ![p] = @ \cup ({i} \cap dirs[Volume(p)])]
             /\ todo' = [todo EXCEPT ![p] = {g \in Files : Item[g] = i}]
      BY <2>5 DEF CpLooks
    <3>2. UNCHANGED <<vol, job>> /\ pc[p] = "cp" /\ todo[p] = {} /\ pipe[p] = {}
      BY <2>5 DEF CpLooks, Basic, Directed
    <3>3. CASE Item[f] = i
      BY <1>0, <3>1, <3>3 DEF TypeOK, Somewhere
    <3>4. CASE Item[f] # i
      <4>1. CASE Item[f] \in items[p]
        BY <1>0, <3>1, <3>4, <4>1 DEF TypeOK, Somewhere
      <4>2. CASE Arrived(p, f)
        <5>1. Item[f] \in found'[p] <=> Item[f] \in found[p]
          BY <1>0, <3>1, <3>4 DEF TypeOK
        <5> QED BY <3>2, <4>2, <5>1, ArrivedStays DEF Somewhere
      <4> QED BY <1>1, <3>2, <4>1, <4>2 DEF Somewhere
    <3> QED BY <3>3, <3>4
  <2>6. CASE CpLands(p) \/ CpCopied(p)
    <3>1. ~Unpack(p) \/ vol' = vol
      BY <2>6 DEF CpLands, CpCopied
    <3>2. UNCHANGED <<vol, job, todo, pipe, items, found>> /\ pc[p] = "copy"
      BY <2>6 DEF CpLands, CpCopied
    <3>3. CASE Arrived(p, f)
      BY <3>2, <3>3, ArrivedStays DEF Somewhere
    <3> QED BY <1>1, <3>2, <3>3 DEF Somewhere
  <2>7. CASE \E line \in Lines : Ends(p, line)
    BY <1>0, <2>7 DEF Ends, TypeOK
  <2>8. CASE \E w \in Workspaces, back \in BOOLEAN, mode \in Modes :
                Start(p, w, back, mode)
    BY <1>0, <2>8 DEF Start, TypeOK
  <2>9. CASE ProbeBack(p)
    BY <1>0, <2>9 DEF ProbeBack, TypeOK
  <2> QED BY <1>0, <1>4, <2>1, <2>2, <2>3, <2>4, <2>5, <2>6, <2>7, <2>8, <2>9, OwnStep
<1>5. CASE ~Acts(p)
  <2>1. ~Unpack(p)
    BY <1>5 DEF Acts, Step
  <2>2. /\ pc'[p] = pc[p] /\ job'[p] = job[p] /\ todo'[p] = todo[p]
        /\ pipe'[p] = pipe[p] /\ items'[p] = items[p] /\ found'[p] = found[p]
    BY <1>0, <1>5, NextCases, OthersStand, AroundLeavesProcs DEF vars, cp
  <2> QED BY <1>3, <2>1, <2>2
<1> QED BY <1>4, <1>5

(* The invariant of both transports: a file that was there all along is     *)
(* somewhere between the host and its place in the volume.                  *)
THEOREM SkipsNothing == Spec /\ []OneSyncPerVolume => []NothingSkipped
<1>1. Init => NothingSkipped
  BY DEF Init, NothingSkipped
<1>2. Basic /\ NothingSkipped /\ OneSyncPerVolume /\ [Next]_vars => NothingSkipped'
  <2> SUFFICES ASSUME Basic, NothingSkipped, OneSyncPerVolume, [Next]_vars,
                      NEW p \in Procs, pc'[p] \in {"tar", "cp", "copy"},
                      NEW f \in Source, Gone \notin recent'[p][f]
               PROVE  Somewhere(p, f)'
    BY DEF NothingSkipped, Somewhere, Source
  <2> QED BY SomewhereStep
<1> QED BY <1>1, <1>2, BasicAlways, PTL DEF Spec

(* Who says "source synced" has nothing left to carry.                      *)
LEMMA SaysWhenDone ==
  ASSUME TarPipe => Reliable, Basic, [Next]_vars, NEW p \in Procs, SaysSynced(p)
  PROVE  /\ vol' = vol /\ pc[p] \in {"tar", "cp"}
         /\ todo[p] = {} /\ pipe[p] = {} /\ items[p] = {}
<1>0. TypeOK /\ pc[p] # "idle" /\ ~job[p].back /\ pc'[p] = "idle" /\ said'[p] = "ok"
  BY DEF SaysSynced, Forward, Basic
<1>1. Acts(p)
  BY <1>0, NextCases, OthersStand, AroundLeavesProcs DEF vars
<1>2. ~Interrupt(p) /\ ~CpFails(p) /\ ~ProbeFails(p) /\ ~ProbeBind(p)
  BY <1>0 DEF Interrupt, CpFails, ProbeFails, ProbeBind, Ends, TypeOK
<1>3. ~(\E w \in Workspaces, back \in BOOLEAN, mode \in Modes : Start(p, w, back, mode))
  BY <1>0 DEF Start
<1>4. /\ ~ProbeBack(p) /\ ~ProbeForward(p) /\ ~Pack(p) /\ ~Unpack(p)
      /\ ~CpCreates(p) /\ ~CpLooks(p) /\ ~CpLands(p) /\ ~CpCopied(p)
  BY <1>0 DEF ProbeBack, ProbeForward, Pack, Unpack, CpCreates, CpLooks, CpLands, CpCopied,
              TypeOK
<1>5. ~Back(p)
  BY <1>0 DEF Back, Basic, Directed
<1>6. CASE CpEnds(p)
  BY <1>6 DEF CpEnds, Basic, Directed
<1>7. CASE TarEnds(p)
  BY <1>7 DEF TarEnds, Basic, Directed
<1> QED BY <1>1, <1>2, <1>3, <1>4, <1>5, <1>6, <1>7 DEF Acts, Step

(* When no other sync fills the volume meanwhile, "source synced" is true of*)
(* what the transport has to answer for: every source file that was there   *)
(* all along has been copied.  docker cp needs nothing more, whatever fails *)
(* (check_call reads every exit code); the tar pipe needs an engine that    *)
(* runs it to its end (nobody reads its exit codes).                        *)
THEOREM CopiedWhenSynced ==
  ASSUME TarPipe => Reliable
  PROVE  Spec /\ []OneSyncPerVolume => OkMeansCopied
<1>1. ASSUME Basic, NothingSkipped, [Next]_vars, NEW p \in Procs, SaysSynced(p),
             NEW f \in Source, Gone \notin recent[p][f]
      PROVE  \E x \in vol'[Volume(p)] :
                /\ x.file = f /\ x.deep = Deep(p, f)
                /\ x.from = job[p].ws /\ x.holds \in recent[p][f]
  <2>1. /\ vol' = vol /\ pc[p] \in {"tar", "cp"}
        /\ todo[p] = {} /\ pipe[p] = {} /\ items[p] = {}
    BY <1>1, TarPipe => Reliable, SaysWhenDone
  <2>2. Arrived(p, f)
    BY <1>1, <2>1 DEF NothingSkipped
  <2> QED BY <2>1, <2>2 DEF Arrived
<1>2. Basic /\ NothingSkipped /\ [Next]_vars
         => [\A p \in Procs : SaysSynced(p) =>
                \A f \in Source : Gone \notin recent[p][f] =>
                   \E x \in vol'[Volume(p)] :
                      /\ x.file = f /\ x.deep = Deep(p, f)
                      /\ x.from = job[p].ws /\ x.holds \in recent[p][f]]_vars
  BY <1>1
<1> QED BY <1>2, BasicAlways, SkipsNothing, PTL DEF Spec, OkMeansCopied

(* With the tar pipe in such an engine it is true without reservation: the  *)
(* files lie at their own paths, however often the source was synchronised. *)
THEOREM SyncedWhenReliable ==
  ASSUME TarPipe, Reliable
  PROVE  Spec /\ []OneSyncPerVolume => OkMeansSynced
<1>1. ASSUME Basic, NothingSkipped, [Next]_vars, NEW p \in Procs, SaysSynced(p),
             NEW f \in Source, Gone \notin recent[p][f]
      PROVE  \E x \in vol'[Volume(p)] :
                /\ x.file = f /\ ~x.deep
                /\ x.from = job[p].ws /\ x.holds \in recent[p][f]
  <2>1. /\ vol' = vol /\ pc[p] \in {"tar", "cp"}
        /\ todo[p] = {} /\ pipe[p] = {} /\ items[p] = {}
    BY <1>1, Reliable, SaysWhenDone
  <2>2. Arrived(p, f)
    BY <1>1, <2>1 DEF NothingSkipped
  <2>3. found[p] = {}
    BY <1>1, <2>1, TarPipe DEF Basic, Directed
  <2> QED BY <2>1, <2>2, <2>3 DEF Arrived, Deep
<1>2. Basic /\ NothingSkipped /\ [Next]_vars
         => [\A p \in Procs : SaysSynced(p) =>
                \A f \in Source : Gone \notin recent[p][f] =>
                   \E x \in vol'[Volume(p)] :
                      /\ x.file = f /\ ~x.deep
                      /\ x.from = job[p].ws /\ x.holds \in recent[p][f]]_vars
  BY <1>1
<1> QED BY <1>2, BasicAlways, SkipsNothing, PTL DEF Spec, OkMeansSynced

-----------------------------------------------------------------------------
(* The tar pipe implements MirroredVolume.                                  *)

(* All that the refinement needs of a state.                                *)
Sound == Basic /\ TarCarriesSource /\ NothingSkipped

(* The job of a sync is fixed while it runs.                                *)
LEMMA KeepsJob ==
  ASSUME TypeOK, [Next]_vars, NEW p \in Procs, pc[p] # "idle", pc'[p] # "idle"
  PROVE  job'[p] = job[p]
<1>1. CASE Acts(p)
  <2>1. ~(\E line \in Lines : Ends(p, line))
    BY DEF Ends, TypeOK
  <2> QED BY <1>1, <2>1, OwnStep DEF Start, ProbeBack, ProbeForward, Pack, Unpack,
             CpCreates, CpLooks, CpLands, CpCopied
<1>2. CASE \E q \in Procs : q # p /\ Acts(q)
  BY <1>2, OthersStand
<1>3. CASE Around \/ UNCHANGED vars
  BY <1>3, AroundLeavesProcs DEF vars
<1> QED BY <1>1, <1>2, <1>3, NextCases

LEMMA SameTable ==
  ASSUME NEW S, NEW T, NEW V, NEW g \in [S -> [T -> V]], NEW h \in [S -> [T -> V]],
         \A x \in S, y \in T : g[x][y] = h[x][y]
  PROVE  g = h
<1>1. ASSUME NEW x \in S
      PROVE  g[x] = h[x]
  BY <1>1
<1> QED BY <1>1

LEMMA SeenType ==
  ASSUME TypeOK'
  PROVE  Seen' \in [Procs -> [Source -> SUBSET (Contents \cup {Gone})]]
<1>1. Source' = Source /\ Source \subseteq Files
  BY DEF Source
<1>2. recent' \in [Procs -> [Files -> SUBSET (Contents \cup {Gone})]]
  BY DEF TypeOK
<1>3. \A p \in Procs, f \in Files : recent'[p][f] \in SUBSET (Contents \cup {Gone})
  BY <1>2
<1> QED BY <1>1, <1>3 DEF Seen

(* What is seen follows what is on the host and who is busy.                *)
LEMMA MirrorSees ==
  ASSUME Sound, [Next]_vars
  PROVE  Mirror!Sees
<1> DEFINE after == [s \in Procs |-> [f \in Source |->
                       IF Busy'[s] = {} THEN {}
                       ELSE Seen[s][f] \cup {SourceTree'[w][f] : w \in Busy'[s]}]]
<1> SUFFICES ASSUME NEW p \in Procs, NEW f \in Source
             PROVE  Seen'[p][f] = IF Busy'[p] = {} THEN {}
                                  ELSE Seen[p][f] \cup {SourceTree'[w][f] : w \in Busy'[p]}
  <2>1. \A p \in Procs, f \in Source : Seen'[p][f] = after[p][f]
    OBVIOUS
  <2>2. Seen' \in [Procs -> [Source -> SUBSET (Contents \cup {Gone})]]
    BY NextType, SeenType DEF Sound, Basic
  <2>3. \A p \in Procs, f \in Source : Seen'[p][f] \in SUBSET (Contents \cup {Gone})
    BY <2>2
  <2>4. after \in [Procs -> [Source -> SUBSET (Contents \cup {Gone})]]
    <3>1. after = [s \in Procs |-> [f \in Source |-> after[s][f]]]
      OBVIOUS
    <3> HIDE DEF after
    <3>2. \A p \in Procs, f \in Source : after[p][f] \in SUBSET (Contents \cup {Gone})
      BY <2>1, <2>3
    <3>3. [s \in Procs |-> [f \in Source |-> after[s][f]]]
             \in [Procs -> [Source -> SUBSET (Contents \cup {Gone})]]
      BY <3>2
    <3> QED BY <3>1, <3>3, Zenon
  <2>5. Seen' = after
    <3> HIDE DEF after
    <3> QED BY <2>1, <2>2, <2>4, SameTable
  <2> QED BY <2>5 DEF Mirror!Sees
<1>0. f \in Files /\ Source' = Source
  BY SourceAssumption DEF Source
<1>1. TypeOK'
  BY NextType DEF Sound, Basic
<1>2. job'[p].ws \in Workspaces
  BY <1>1 DEF TypeOK, Job
<1>9. Seen'[p][f] = IF Forward(p)' THEN recent'[p][f] ELSE {}
  BY <1>0 DEF Seen
<1>3. CASE ~Forward(p)'
  BY <1>3, <1>9 DEF Busy
<1>4. CASE Forward(p)'
  <2>1. Busy'[p] = {job'[p].ws} /\ pc'[p] # "idle"
    BY <1>4 DEF Busy, Forward
  <2>2. SourceTree'[job'[p].ws][f] = Tree(p)'[f]
    BY <1>0, <1>2 DEF SourceTree, Tree
  <2>3. Seen[p][f] = recent[p][f]
    <3>1. CASE Forward(p)
      BY <3>1 DEF Seen
    <3>2. CASE pc[p] = "idle"
      BY <1>0, <3>2 DEF Seen, Forward, Sound, Basic, HistoryHolds
    <3>3. CASE pc[p] # "idle" /\ job[p].back
      BY <1>4, <3>3, KeepsJob DEF Forward, Sound, Basic
    <3> QED BY <3>1, <3>2, <3>3 DEF Forward
  <2>4. recent'[p][f] = recent[p][f] \cup {Tree(p)'[f]}
    <3>1. CASE Observes
      BY <1>0, <2>1, <3>1 DEF Observes, Tree
    <3>2. CASE UNCHANGED vars
      BY <1>0, <2>1, <3>2 DEF vars, Sound, Basic, HistoryHolds, Tree
    <3> QED BY <3>1, <3>2, NextObserves
  <2> QED BY <1>4, <1>9, <2>1, <2>2, <2>3, <2>4
<1> QED BY <1>3, <1>4

LEMMA SeesNothingNew ==
  ASSUME Sound, [Next]_vars, UNCHANGED <<SourceTree, Busy>>
  PROVE  UNCHANGED Seen
<1> SUFFICES ASSUME NEW p \in Procs, NEW f \in Source
             PROVE  Seen'[p][f] = Seen[p][f]
  <2>1. Source' = Source
    BY DEF Source
  <2> QED BY <2>1, Zenon DEF Seen
<1>0. f \in Files /\ job[p].ws \in Workspaces
  BY SourceAssumption DEF Sound, Basic, TypeOK, Job
<1>1. Seen'[p][f] = IF Busy[p] = {} THEN {}
                    ELSE Seen[p][f] \cup {SourceTree[w][f] : w \in Busy[p]}
  <2>1. Mirror!Sees
    BY MirrorSees
  <2>2. Seen'[p][f] = IF Busy'[p] = {} THEN {}
                      ELSE Seen[p][f] \cup {SourceTree'[w][f] : w \in Busy'[p]}
    BY <2>1, Zenon DEF Mirror!Sees
  <2> QED BY <2>2
<1>2. CASE ~Forward(p)
  BY <1>1, <1>2 DEF Busy, Seen
<1>3. CASE Forward(p)
  <2>1. Busy[p] = {job[p].ws} /\ Seen[p][f] = recent[p][f]
    BY <1>3 DEF Busy, Seen
  <2>2. SourceTree[job[p].ws][f] \in recent[p][f]
    BY <1>0, <1>3 DEF SourceTree, Tree, Forward, Sound, Basic, HistoryHolds
  <2> QED BY <1>1, <2>1, <2>2
<1> QED BY <1>2, <1>3

LEMMA MirrorType ==
  ASSUME TypeOK'
  PROVE  Mirrored' \in [Volumes -> [Source -> SUBSET Contents]]
<1>1. Source' = Source
  BY DEF Source
<1>2. ASSUME NEW v \in Volumes, NEW f \in Source
      PROVE  {x.holds : x \in {y \in vol'[v] : y.file = f /\ ~y.deep}} \in SUBSET Contents
  <2>1. vol'[v] \in SUBSET Copy
    BY DEF TypeOK
  <2> QED BY <2>1 DEF Copy
<1> QED BY <1>1, <1>2 DEF Mirrored

(* What one write into one volume is to its mirror.                         *)
LEMMA MirrorWrites ==
  ASSUME Sound, NEW q \in Procs, Forward(q), NEW c \in Copy, ~c.deep,
         vol' = [vol EXCEPT ![Volume(q)] = Written(vol[Volume(q)], c)],
         c.file \in Source => c.holds \in recent[q][c.file]
  PROVE  Mirror!Arrive(q)
<1> SUFFICES ASSUME NEW v \in Volumes, NEW f \in Source
             PROVE  \/ Mirrored'[v][f] = Mirrored[v][f]
                    \/ /\ v \in {Slug[w] : w \in Busy[q]}
                       /\ \E h \in Seen[q][f] \ {Gone} :
                             /\ h \in Mirrored'[v][f]
                             /\ Mirrored'[v][f] \subseteq Mirrored[v][f] \cup {h}
  BY DEF Mirror!Arrive
<1>0. /\ vol \in [Volumes -> SUBSET Copy] /\ Volume(q) \in Volumes /\ Source' = Source
  BY VolumeType DEF Sound, Basic, TypeOK, Source
<1>1. /\ Mirrored[v][f] = {x.holds : x \in {y \in vol[v] : y.file = f /\ ~y.deep}}
      /\ Mirrored'[v][f] = {x.holds : x \in {y \in vol'[v] : y.file = f /\ ~y.deep}}
  BY <1>0 DEF Mirrored
<1>2. CASE v # Volume(q)
  BY <1>0, <1>1, <1>2
<1>3. CASE v = Volume(q)
  <2>1. v \in {Slug[w] : w \in Busy[q]} /\ Seen[q][f] = recent[q][f]
    BY <1>3 DEF Volume, Busy, Seen
  <2>2. vol'[v] = Written(vol[v], c)
    BY <1>0, <1>3
  <2>3. /\ vol'[v] \subseteq vol[v] \cup {c} /\ c \in vol'[v]
        /\ \A x \in vol[v] : c.file # x.file => x \in vol'[v]
    BY <1>0, <2>2, WrittenType
  <2>4. CASE c.file # f
    <3>1. \A y : y \in vol'[v] /\ y.file = f <=> y \in vol[v] /\ y.file = f
      BY <2>3, <2>4
    <3>2. {y \in vol'[v] : y.file = f /\ ~y.deep} = {y \in vol[v] : y.file = f /\ ~y.deep}
      BY <3>1
    <3> QED BY <1>1, <3>2
  <2>5. CASE c.file = f
    <3>1. c.holds # Gone
      BY MapsAssumption DEF Copy
    <3>2. c.holds \in Mirrored'[v][f]
      BY <1>1, <2>3, <2>5
    <3>3. \A y \in vol'[v] : y \in vol[v] \/ y.holds = c.holds
      BY <2>3
    <3>4. Mirrored'[v][f] \subseteq Mirrored[v][f] \cup {c.holds}
      BY <1>1, <3>3
    <3>5. c.holds \in Seen[q][f] \ {Gone}
      BY <2>1, <2>5, <3>1
    <3> QED BY <2>1, <3>2, <3>4, <3>5
  <2> QED BY <2>4, <2>5
<1> QED BY <1>2, <1>3

LEMMA MirrorStands ==
  ASSUME vol' = vol
  PROVE  UNCHANGED Mirrored /\ \A q \in Procs : Mirror!Arrive(q)
<1>1. UNCHANGED Mirrored
  BY DEF Mirrored, Source
<1> QED BY <1>1 DEF Mirror!Arrive

LEMMA EndsMirror ==
  ASSUME TypeOK, NEW p \in Procs, NEW line, Ends(p, line)
  PROVE  /\ Busy' = [Busy EXCEPT ![p] = {}]
         /\ Synced' = [Synced EXCEPT ![p] = (line = "ok")]
<1>1. \A q \in Procs : Busy'[q] = IF q = p THEN {} ELSE Busy[q]
  BY DEF Ends, TypeOK, Busy, Forward
<1>2. \A q \in Procs : Synced'[q] = IF q = p THEN line = "ok" ELSE Synced[q]
  BY DEF Ends, TypeOK, Synced
<1> QED BY <1>1, <1>2 DEF Busy, Synced

LEMMA BusyStays ==
  ASSUME \A q \in Procs : /\ Forward(q)' <=> Forward(q)
                          /\ Forward(q) => job'[q] = job[q]
  PROVE  UNCHANGED Busy
BY DEF Busy

(* Who changes one file on the host, edits a source file or nothing of it.  *)
LEMMA HostChanges ==
  ASSUME TypeOK, NEW w \in Workspaces, NEW f \in Files, NEW holds \in Contents \cup {Gone},
         host' = [host EXCEPT ![w][f] = holds]
  PROVE  UNCHANGED SourceTree \/ Mirror!Edited
<1>1. Source' = Source /\ Source \subseteq Files
  BY DEF Source
<1>2. /\ host \in [Workspaces -> [Files -> Contents \cup {Gone}]]
      /\ \A u \in Workspaces, g \in Files :
            host'[u][g] = IF u = w /\ g = f THEN holds ELSE host[u][g]
  BY DEF TypeOK
<1>3. CASE f \in Source
  <2>1. SourceTree' = [SourceTree EXCEPT ![w][f] = holds]
    <3> DEFINE after == [SourceTree EXCEPT ![w][f] = holds]
    <3>1. \A u \in Workspaces, g \in Source :
             /\ SourceTree'[u][g] = IF u = w /\ g = f THEN holds ELSE host[u][g]
             /\ after[u][g] = IF u = w /\ g = f THEN holds ELSE host[u][g]
      BY <1>1, <1>2, <1>3 DEF SourceTree
    <3>2. /\ SourceTree' \in [Workspaces -> [Source -> Contents \cup {Gone}]]
          /\ after \in [Workspaces -> [Source -> Contents \cup {Gone}]]
      BY <1>1, <1>2, <1>3 DEF SourceTree
    <3> HIDE DEF after
    <3>3. SourceTree' = after
      BY <3>1, <3>2, SameTable
    <3> QED BY <3>3 DEF after
  <2> QED BY <1>3, <2>1 DEF Mirror!Edited
<1>4. CASE f \notin Source
  <2>1. \A u \in Workspaces, g \in Source : SourceTree'[u][g] = SourceTree[u][g]
    BY <1>1, <1>2, <1>4 DEF SourceTree
  <2>2. /\ SourceTree' \in [Workspaces -> [Source -> Contents \cup {Gone}]]
        /\ SourceTree \in [Workspaces -> [Source -> Contents \cup {Gone}]]
    BY <1>1, <1>2 DEF SourceTree
  <2>3. SourceTree' = SourceTree
    BY <2>1, <2>2, SameTable
  <2> QED BY <2>3
<1> QED BY <1>3, <1>4

(* What a build leaves is no source.                                        *)
LEMMA BuildNotMirrored ==
  ASSUME TypeOK, NEW w \in Workspaces, VolumeBuilds(w)
  PROVE  UNCHANGED Mirrored
<1>1. PICK holds \in Contents :
         vol' = [vol EXCEPT ![Slug[w]] = Written(vol[Slug[w]],
                   [file |-> Elf, deep |-> FALSE, from |-> w, holds |-> holds])]
  BY DEF VolumeBuilds
<1> DEFINE c == [file |-> Elf, deep |-> FALSE, from |-> w, holds |-> holds]
<1>2. /\ c \in Copy /\ c.file \notin Source
      /\ Slug[w] \in Volumes /\ vol \in [Volumes -> SUBSET Copy]
  BY MapsAssumption, SourceAssumption DEF Copy, TypeOK
<1>3. vol' = [vol EXCEPT ![Slug[w]] = Written(vol[Slug[w]], c)]
  BY <1>1
<1> HIDE DEF c
<1>4. ASSUME NEW v \in Volumes, NEW f \in Source
      PROVE  {y \in vol'[v] : y.file = f /\ ~y.deep} = {y \in vol[v] : y.file = f /\ ~y.deep}
  <2>1. CASE v # Slug[w]
    BY <1>2, <1>3, <2>1
  <2>2. CASE v = Slug[w]
    <3>1. vol'[v] = Written(vol[v], c)
      BY <1>2, <1>3, <2>2
    <3>2. /\ vol'[v] \subseteq vol[v] \cup {c}
          /\ \A x \in vol[v] : c.file # x.file => x \in vol'[v]
      BY <1>2, <3>1, WrittenType
    <3>3. \A y : y \in vol'[v] /\ y.file = f <=> y \in vol[v] /\ y.file = f
      BY <1>2, <1>4, <3>2
    <3> QED BY <3>3
  <2> QED BY <2>1, <2>2
<1>5. Source' = Source
  BY DEF Source
<1> QED BY <1>4, <1>5 DEF Mirrored

LEMMA InitRefines ==
  ASSUME Init
  PROVE  Mirror!Init
<1>1. Source \subseteq Files
  BY DEF Source
<1>2. SourceTree \in [Workspaces -> [Source -> Contents \cup {Gone}]]
  BY <1>1 DEF Init, SourceTree
<1>3. Mirrored = [v \in Volumes |-> [f \in Source |-> {}]]
  <2>1. \A v \in Volumes : vol[v] = {}
    BY DEF Init
  <2> QED BY <2>1 DEF Mirrored
<1>4. Busy = [s \in Procs |-> {}] /\ Seen = [s \in Procs |-> [f \in Source |-> {}]]
  <2>1. \A p \in Procs : ~Forward(p)
    BY DEF Init, Forward
  <2> QED BY <2>1 DEF Busy, Seen
<1>5. Synced = [s \in Procs |-> FALSE]
  BY DEF Init, Synced
<1> QED BY <1>2, <1>3, <1>4, <1>5 DEF Mirror!Init

LEMMA TreeStands ==
  ASSUME host' = host
  PROVE  UNCHANGED SourceTree
BY DEF SourceTree, Source

(* A run that ends with another line than success.                          *)
LEMMA QuitRefines ==
  ASSUME Sound, [Next]_vars, NEW p \in Procs, NEW line \in Lines \ {"ok"},
         Ends(p, line), pc[p] # "idle", UNCHANGED <<host, vol>>
  PROVE  Mirror!Next
<1>1. /\ Busy' = [Busy EXCEPT ![p] = {}]
      /\ Synced' = [Synced EXCEPT ![p] = FALSE]
  <2>1. (line = "ok") = FALSE
    OBVIOUS
  <2> QED BY <2>1, EndsMirror DEF Sound, Basic
<1>2. UNCHANGED <<SourceTree, Mirrored>> /\ Mirror!Sees
  BY TreeStands, MirrorStands, MirrorSees
<1>3. CASE Forward(p)
  <2>1. Busy[p] # {}
    BY <1>3 DEF Busy
  <2>2. Mirror!GiveUp(p)
    BY <1>1, <1>2, <2>1 DEF Mirror!GiveUp
  <2> QED BY <2>2 DEF Mirror!Next
<1>4. CASE ~Forward(p)
  <2>1. Busy[p] = {} /\ UNCHANGED Busy
    <3>1. Busy[p] = {} /\ Busy \in [Procs -> {Busy[q] : q \in Procs}]
      BY <1>4 DEF Busy
    <3> QED BY <1>1, <3>1
  <2>2. Mirror!Otherwise(p)
    BY <1>1, <1>2, <2>1 DEF Mirror!Otherwise
  <2> QED BY <2>2 DEF Mirror!Next
<1> QED BY <1>3, <1>4

(* A run that ends with success: a sync has to be complete.                 *)
LEMMA OkRefines ==
  ASSUME Sound, [Next]_vars, NEW p \in Procs, Ends(p, "ok"), pc[p] # "idle",
         vol' = vol, UNCHANGED SourceTree \/ Mirror!Edited,
         Forward(p) => UNCHANGED SourceTree /\ Mirror!Complete(p)
  PROVE  Mirror!Next
<1>1. /\ Busy' = [Busy EXCEPT ![p] = {}]
      /\ Synced' = [Synced EXCEPT ![p] = TRUE]
  <2>1. ("ok" = "ok") = TRUE
    OBVIOUS
  <2> QED BY <2>1, EndsMirror DEF Sound, Basic
<1>2. UNCHANGED Mirrored /\ Mirror!Sees
  BY MirrorStands, MirrorSees
<1>3. CASE Forward(p)
  <2>1. Busy[p] # {}
    BY <1>3 DEF Busy
  <2>2. Mirror!Finish(p)
    BY <1>1, <1>2, <1>3, <2>1 DEF Mirror!Finish
  <2> QED BY <2>2 DEF Mirror!Next
<1>4. CASE ~Forward(p)
  <2>1. Busy[p] = {} /\ UNCHANGED Busy
    <3>1. Busy[p] = {} /\ Busy \in [Procs -> {Busy[q] : q \in Procs}]
      BY <1>4 DEF Busy
    <3> QED BY <1>1, <3>1
  <2>2. Mirror!Otherwise(p)
    BY <1>1, <1>2, <2>1 DEF Mirror!Otherwise
  <2> QED BY <2>2 DEF Mirror!Next
<1> QED BY <1>3, <1>4

LEMMA CompleteWhenArrived ==
  ASSUME Sound, NEW p \in Procs, Forward(p),
         \A f \in Source : Gone \notin recent[p][f] => Arrived(p, f)
  PROVE  Mirror!Complete(p)
<1> SUFFICES ASSUME NEW f \in Source, Gone \notin Seen[p][f]
             PROVE  Mirrored[Slug[job[p].ws]][f] \cap Seen[p][f] # {}
  BY DEF Mirror!Complete, Busy
<1>1. Volume(p) \in Volumes
  BY VolumeType DEF Sound, Basic
<1>2. Seen[p][f] = recent[p][f]
  BY DEF Seen
<1>3. PICK x \in vol[Volume(p)] :
         x.file = f /\ x.deep = Deep(p, f) /\ x.holds \in recent[p][f]
  BY <1>2 DEF Arrived
<1>4. ~x.deep
  BY <1>1, <1>3 DEF Sound, TarCarriesSource, PathsMirrored
<1>5. x.holds \in Mirrored[Volume(p)][f]
  BY <1>1, <1>3, <1>4 DEF Mirrored
<1> QED BY <1>2, <1>3, <1>5 DEF Volume

(* A step of a sync that goes on.                                           *)
LEMMA CarryRefines ==
  ASSUME Sound, [Next]_vars, NEW p \in Procs, Forward(p), Mirror!Arrive(p),
         UNCHANGED <<host, job, said>>, \E to \in Steps \ {"idle"} : pc' = [pc EXCEPT ![p] = to]
  PROVE  Mirror!Next
<1>1. Busy[p] # {} /\ UNCHANGED Busy
  <2>1. \A q \in Procs : Forward(q)' <=> Forward(q)
    BY DEF Forward, Sound, Basic, TypeOK
  <2> QED BY <2>1, BusyStays DEF Busy
<1>2. UNCHANGED <<SourceTree, Synced>> /\ Mirror!Sees
  BY TreeStands, MirrorSees DEF Synced
<1>3. Mirrored' \in [Volumes -> [Source -> SUBSET Contents]]
  <2>1. TypeOK'
    BY NextType DEF Sound, Basic
  <2> QED BY <2>1, MirrorType
<1>4. Mirror!Carry(p)
  BY <1>1, <1>2, <1>3 DEF Mirror!Carry
<1> QED BY <1>4 DEF Mirror!Next

LEMMA StartRefines ==
  ASSUME Sound, [Next]_vars, NEW p \in Procs, NEW w \in Workspaces,
         NEW back \in BOOLEAN, NEW mode \in Modes, Start(p, w, back, mode)
  PROVE  Mirror!Next
<1>1. Busy[p] = {} /\ Busy' = [Busy EXCEPT ![p] = IF back THEN {} ELSE {w}]
  <2>1. \A q \in Procs : Busy'[q] = IF q = p THEN IF back THEN {} ELSE {w} ELSE Busy[q]
    BY DEF Start, Busy, Forward, Sound, Basic, TypeOK
  <2>2. Busy[p] = {}
    BY DEF Start, Busy, Forward
  <2> QED BY <2>1, <2>2 DEF Busy
<1>2. UNCHANGED <<SourceTree, Mirrored, Synced>> /\ Mirror!Sees
  BY TreeStands, MirrorStands, MirrorSees DEF Start, Synced
<1>3. CASE back
  <2>1. Synced[p] \in BOOLEAN /\ Synced = [Synced EXCEPT ![p] = Synced[p]]
    BY DEF Synced
  <2>2. UNCHANGED Busy
    <3>1. Busy = [Busy EXCEPT ![p] = Busy[p]]
      BY DEF Busy
    <3> QED BY <1>1, <1>3, <3>1
  <2>3. Mirror!Otherwise(p)
    BY <1>1, <1>2, <2>1, <2>2 DEF Mirror!Otherwise
  <2> QED BY <2>3 DEF Mirror!Next
<1>4. CASE ~back
  <2>1. Mirror!Begin(p, w)
    BY <1>1, <1>2, <1>4 DEF Mirror!Begin
  <2> QED BY <2>1 DEF Mirror!Next
<1> QED BY <1>3, <1>4

(* What the pipe writes is what the sync has seen.                          *)
LEMMA UnpackArrives ==
  ASSUME TarPipe, Sound, NEW p \in Procs, Unpack(p)
  PROVE  Mirror!Arrive(p)
<1>1. PICK c \in pipe[p] : vol' = [vol EXCEPT ![Volume(p)] = Written(vol[Volume(p)], c)]
  BY DEF Unpack
<1>2. c \in Copy /\ Forward(p)
  BY DEF Sound, Basic, TypeOK, Directed, Forward, Unpack
<1>3. c.holds \in recent[p][c.file] /\ c.deep = Deep(p, c.file)
  BY DEF Sound, Basic, PipesAreOwn
<1>4. ~c.deep
  BY <1>3, TarPipe DEF Deep, Unpack, Sound, Basic, Directed
<1> QED BY <1>1, <1>2, <1>3, <1>4, MirrorWrites

LEMMA ActorRefines ==
  ASSUME TarPipe, Reliable, Sound, [Next]_vars, NEW p \in Procs, Step(p) \/ Interrupt(p)
  PROVE  Mirror!Next
<1>1. CASE ProbeFails(p) \/ ProbeBind(p) \/ CpFails(p) \/ Interrupt(p)
  <2>1. /\ pc[p] # "idle" /\ UNCHANGED <<host, vol>>
        /\ \E line \in Lines \ {"ok"} : Ends(p, line)
    BY <1>1 DEF ProbeFails, ProbeBind, CpFails, Interrupt, Lines
  <2> QED BY <2>1, QuitRefines
<1>2. CASE ProbeBack(p)
  <2>1. UNCHANGED <<host, vol, job, said>> /\ ~Forward(p)
    BY <1>2 DEF ProbeBack, Forward
  <2>2. UNCHANGED Busy /\ Busy[p] = {}
    <3>1. \A q \in Procs : Forward(q)' <=> Forward(q)
      BY <1>2 DEF ProbeBack, Forward, Sound, Basic, TypeOK
    <3> QED BY <2>1, <3>1, BusyStays DEF Busy
  <2>3. Synced[p] \in BOOLEAN /\ Synced = [Synced EXCEPT ![p] = Synced[p]]
    BY DEF Synced
  <2>4. UNCHANGED <<SourceTree, Mirrored, Synced>> /\ Mirror!Sees
    BY <2>1, TreeStands, MirrorStands, MirrorSees DEF Synced
  <2>5. Mirror!Otherwise(p)
    BY <2>2, <2>3, <2>4 DEF Mirror!Otherwise
  <2> QED BY <2>5 DEF Mirror!Next
<1>3. CASE ProbeForward(p)
  <2>1. /\ Forward(p) /\ UNCHANGED <<host, vol, job, said>>
        /\ \E to \in Steps \ {"idle"} : pc' = [pc EXCEPT ![p] = to]
    BY <1>3 DEF ProbeForward, Forward, Steps
  <2> QED BY <2>1, MirrorStands, CarryRefines
<1>4. CASE Pack(p) \/ Unpack(p)
  <2>1. Forward(p) /\ UNCHANGED <<host, job, said>> /\ pc[p] \in {"tar", "copy"} /\ pc' = pc
    BY <1>4 DEF Pack, Unpack, Sound, Basic, Directed, Forward
  <2>2. \E to \in Steps \ {"idle"} : pc' = [pc EXCEPT ![p] = to]
    <3>1. pc' = [pc EXCEPT ![p] = pc[p]] /\ pc[p] \in Steps \ {"idle"}
      BY <2>1 DEF Sound, Basic, TypeOK, Steps
    <3> QED BY <3>1
  <2>3. Mirror!Arrive(p)
    <3>1. CASE Pack(p)
      BY <3>1, MirrorStands DEF Pack
    <3> QED BY <1>4, <3>1, UnpackArrives
  <2> QED BY <2>1, <2>2, <2>3, CarryRefines
<1>5. CASE TarEnds(p) \/ CpEnds(p)
  <2>1. Ends(p, "ok") /\ pc[p] \in {"tar", "cp"} /\ UNCHANGED <<host, vol>>
    BY <1>5 DEF TarEnds, CpEnds
  <2>2. Forward(p)
    BY <2>1 DEF Sound, Basic, Directed, Forward
  <2>3. SaysSynced(p)
    BY <2>1, <2>2 DEF SaysSynced, Ends, Sound, Basic, TypeOK
  <2>4. todo[p] = {} /\ pipe[p] = {} /\ items[p] = {}
    BY <2>3, Reliable, SaysWhenDone DEF Sound
  <2>5. \A f \in Source : Gone \notin recent[p][f] => Arrived(p, f)
    BY <2>1, <2>4 DEF Sound, NothingSkipped
  <2>6. Mirror!Complete(p)
    BY <2>2, <2>5, CompleteWhenArrived
  <2> QED BY <2>1, <2>6, TreeStands, OkRefines
<1>6. CASE CpCreates(p) \/ CpLooks(p) \/ CpLands(p) \/ CpCopied(p)
  BY <1>6, TarPipe DEF CpCreates, CpLooks, CpLands, CpCopied, Sound, Basic, Directed
<1>7. CASE Back(p)
  <2>1. /\ ~Forward(p) /\ pc[p] # "idle" /\ vol' = vol /\ Ends(p, "ok")
    BY <1>7 DEF Back, Sound, Basic, Directed, Forward
  <2>2. UNCHANGED SourceTree \/ Mirror!Edited
    <3>1. CASE host' = host
      BY <3>1, TreeStands
    <3>2. ASSUME NEW x \in InVolume(p, Elf),
                 host' = [host EXCEPT ![job[p].ws][Artifact] = x.holds]
          PROVE  UNCHANGED SourceTree \/ Mirror!Edited
      <4>1. job[p].ws \in Workspaces /\ Volume(p) \in Volumes
        BY VolumeType DEF Sound, Basic
      <4>2. x.holds \in Contents
        <5>1. x \in vol[Volume(p)] /\ vol[Volume(p)] \in SUBSET Copy
          BY <3>2, <4>1 DEF InVolume, Sound, Basic, TypeOK
        <5> QED BY <5>1 DEF Copy
      <4> QED BY <3>2, <4>1, <4>2, MapsAssumption, HostChanges DEF Sound, Basic
    <3> QED BY <1>7, <3>1, <3>2 DEF Back
  <2> QED BY <2>1, <2>2, OkRefines
<1> QED BY <1>1, <1>2, <1>3, <1>4, <1>5, <1>6, <1>7 DEF Step

LEMMA AroundRefines ==
  ASSUME Sound, [Next]_vars, Around
  PROVE  Mirror!Next \/ UNCHANGED <<SourceTree, Mirrored, Busy, Seen, Synced>>
<1>1. UNCHANGED <<Busy, Synced>>
  <2>1. UNCHANGED <<pc, job, said>>
    BY AroundLeavesProcs
  <2> QED BY <2>1 DEF Busy, Forward, Synced
<1>2. UNCHANGED SourceTree \/ Mirror!Edited
  <2>1. CASE host' = host
    BY <2>1, TreeStands
  <2>2. ASSUME NEW w \in Workspaces, NEW f \in Files, NEW holds \in Contents \cup {Gone},
               Changes(w, f, holds)
        PROVE  UNCHANGED SourceTree \/ Mirror!Edited
    BY <2>2, HostChanges DEF Changes, Sound, Basic
  <2> QED BY <2>1, <2>2, MapsAssumption
          DEF Around, UserEdits, ContainerBuilds, VolumeBuilds, EngineToggles
<1>3. UNCHANGED Mirrored
  <2>1. CASE vol' = vol
    BY <2>1, MirrorStands
  <2>2. ASSUME NEW w \in Workspaces, VolumeBuilds(w)
        PROVE  UNCHANGED Mirrored
    BY <2>2, BuildNotMirrored DEF Sound, Basic
  <2> QED BY <2>1, <2>2 DEF Around, UserEdits, ContainerBuilds, EngineToggles, Changes
<1>4. CASE UNCHANGED SourceTree
  BY <1>1, <1>3, <1>4, SeesNothingNew
<1>5. CASE Mirror!Edited
  <2>1. Mirror!Edit
    BY <1>1, <1>3, <1>5, MirrorSees DEF Mirror!Edit
  <2> QED BY <2>1 DEF Mirror!Next
<1> QED BY <1>2, <1>4, <1>5

(* The tar pipe is the one operation that MirroredVolume describes, when it *)
(* fills a volume alone and runs to its end, also where two workspaces share*)
(* a volume (sync_to_volume).                                               *)
THEOREM SyncsMirrorSource ==
  ASSUME TarPipe, Reliable
  PROVE  Spec /\ []OneSyncPerVolume => SyncsMirror
<1>1. Init => Mirror!Init
  BY InitRefines
<1>2. Sound /\ [Next]_vars
         => [Mirror!Next]_<<SourceTree, Mirrored, Busy, Seen, Synced>>
  <2> SUFFICES ASSUME Sound, [Next]_vars
               PROVE  \/ Mirror!Next
                      \/ UNCHANGED <<SourceTree, Mirrored, Busy, Seen, Synced>>
    OBVIOUS
  <2>1. CASE UNCHANGED vars
    BY <2>1 DEF vars, SourceTree, Mirrored, Busy, Seen, Synced, Forward, Source
  <2>2. CASE Around
    BY <2>2, AroundRefines
  <2>3. CASE \E p \in Procs : Acts(p)
    BY <2>3, StartRefines, ActorRefines, TarPipe, Reliable DEF Acts
  <2> QED BY <2>1, <2>2, <2>3, NextCases
<1>3. Spec /\ []OneSyncPerVolume => []Sound
  <2>1. Basic /\ TarCarriesSource /\ NothingSkipped => Sound
    BY DEF Sound
  <2>2. Spec => []TarCarriesSource
    BY TarCarries, TarPipe
  <2> QED BY <2>1, <2>2, BasicAlways, SkipsNothing, PTL
<1> QED BY <1>1, <1>2, <1>3, PTL DEF Spec, SyncsMirror, Mirror!Spec
=============================================================================
