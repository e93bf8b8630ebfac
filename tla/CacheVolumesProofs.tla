------------------------- MODULE CacheVolumesProofs -------------------------
(***************************************************************************)
(* Proofs about CacheVolumes, for every number of cache commands, volumes   *)
(* and containers.                                                          *)
(***************************************************************************)
EXTENDS CacheVolumes, FiniteSetTheorems, TLAPS

PcValues == {"idle", "inspect", "remove", "size", "df", "run", "wait"}

(* All of TypeOK but the containers.                                        *)
ControlOK ==
    /\ exists \subseteq Volumes
    /\ engine \in BOOLEAN
    /\ pc \in [Procs -> PcValues]
    /\ todo \in [Procs -> Seq(Volumes)]
    /\ \A p \in Procs : pc[p] \in {"remove", "df"} => todo[p] # <<>>
    /\ told \in [Procs -> SUBSET Volumes]
    /\ there \in [Procs -> SUBSET Volumes]
    /\ gone \in [Procs -> SUBSET Volumes]
    /\ silent \subseteq Procs

LEMMA ObservesType ==
  ASSUME ControlOK, Observes, exists' \subseteq Volumes
  PROVE  /\ there' \in [Procs -> SUBSET Volumes]
         /\ gone' \in [Procs -> SUBSET Volumes]
         /\ silent' \subseteq Procs
BY DEF ControlOK, Observes

LEMMA Heads ==
  ASSUME NEW s \in Seq(Volumes), s # <<>>
  PROVE  Head(s) \in Volumes /\ Tail(s) \in Seq(Volumes)
OBVIOUS

LEMMA TargetsType ==
  ASSUME NEW which \in Volumes \cup {"all"}
  PROVE  Targets(which) \in Seq(Volumes)
BY OrderAssumption DEF Targets

(* What the steps of one command do to its control state.                   *)
LEMMA StepControl ==
  ASSUME ControlOK, NEW p \in Procs, Step(p) \/ HelperEnds(p) \/ Interrupt(p)
  PROVE  ControlOK'
<1> USE DEF ControlOK
<1>1. exists' \subseteq Volumes /\ engine' \in BOOLEAN /\ Observes
  BY OrderAssumption DEF Step, Inspect, Remove, RemoveFails, ResetEnds, Size, Df,
     AskCcache, RunHelper, RunFails, HelperEnds, RunTimesOut, Interrupt
<1>2. todo[p] # <<>> => /\ AtHand(p) \in Volumes
                        /\ [todo EXCEPT ![p] = Tail(@)] \in [Procs -> Seq(Volumes)]
  BY Heads DEF AtHand
<1>3. CASE Ends(p)
  BY <1>1, <1>3, ObservesType DEF Ends, PcValues
<1>4. CASE \E step \in PcValues : Goes(p, step) /\ (step \in {"remove", "df"} => todo[p] # <<>>)
  BY <1>1, <1>4, ObservesType DEF Goes
<1>5. CASE /\ todo[p] # <<>>
           /\ todo' = [todo EXCEPT ![p] = Tail(@)]
           /\ told' \in {told, [told EXCEPT ![p] = @ \cup {AtHand(p)}]}
           /\ \E step \in {"inspect", "size"} : pc' = [pc EXCEPT ![p] = step]
  <2>1. pc' \in [Procs -> PcValues] /\ \A q \in Procs : pc'[q] \in {"remove", "df"} => q # p
    BY <1>5 DEF PcValues
  <2>2. told' \in [Procs -> SUBSET Volumes] /\ todo' \in [Procs -> Seq(Volumes)]
    BY <1>2, <1>5
  <2>3. \A q \in Procs : pc'[q] \in {"remove", "df"} => todo'[q] # <<>>
    BY <1>5, <2>1
  <2> QED BY <1>1, <2>1, <2>2, <2>3, ObservesType
<1>6. CASE Inspect(p)
  <2>1. CASE Exists(AtHand(p))
    BY <1>4, <1>6, <2>1 DEF Inspect, PcValues
  <2>2. CASE ~Exists(AtHand(p))
    <3>1. pc' = [pc EXCEPT ![p] = "inspect"]
      BY <1>6, <2>2 DEF Inspect
    <3> QED BY <1>5, <1>6, <2>2, <3>1 DEF Inspect, Tells
  <2> QED BY <2>1, <2>2
<1>7. CASE Remove(p)
  BY <1>5, <1>7 DEF Remove, Tells
<1>8. CASE Size(p)
  <2>1. CASE Goes(p, "df")
    BY <1>4, <1>8, <2>1 DEF Size, PcValues
  <2>2. CASE ~Goes(p, "df")
    <3>1. pc' = [pc EXCEPT ![p] = "size"]
      BY <1>8, <2>2 DEF Size
    <3> QED BY <1>5, <1>8, <2>2, <3>1 DEF Size
  <2> QED BY <2>1, <2>2
<1>9. CASE Df(p)
  BY <1>5, <1>9 DEF Df, Tells
<1>10. CASE RemoveFails(p) \/ ResetEnds(p) \/ RunFails(p) \/ HelperEnds(p)
            \/ RunTimesOut(p) \/ Interrupt(p)
  BY <1>3, <1>10 DEF RemoveFails, ResetEnds, RunFails, HelperEnds, RunTimesOut, Interrupt
<1>11. CASE AskCcache(p) \/ RunHelper(p)
  BY <1>3, <1>4, <1>11 DEF AskCcache, RunHelper, PcValues
<1> QED BY <1>6, <1>7, <1>8, <1>9, <1>10, <1>11 DEF Step

LEMMA ControlStep ==
  ASSUME ControlOK, [Next]_vars
  PROVE  ControlOK'
<1>1. CASE UNCHANGED vars
  BY <1>1 DEF ControlOK, vars, seen
<1>2. ASSUME NEW p \in Procs,
             \/ \E which \in Volumes \cup {"all"} : StartReset(p, which)
             \/ StartStats(p)
      PROVE  ControlOK'
  <2>1. PICK step \in {"inspect", "size"}, volumes \in Seq(Volumes) : Start(p, step, volumes)
    BY <1>2, TargetsType, OrderAssumption DEF StartReset, StartStats
  <2> QED BY <2>1, ObservesType DEF Start, ControlOK, PcValues
<1>3. ASSUME NEW v \in Volumes,
             ContainerStarts(v) \/ ContainerEnds(v) \/ EngineToggles
      PROVE  ControlOK'
  BY <1>3, ObservesType DEF ContainerStarts, ContainerEnds, EngineToggles, ControlOK
<1>4. CASE EngineToggles
  BY <1>3, <1>4, OrderAssumption
<1> QED BY <1>1, <1>2, <1>3, <1>4, StepControl DEF Next

(* A command is always at a step it can be at, with volumes that are left to*)
(* it (cache.py, volume by volume).                                         *)
THEOREM ControlCorrect == Spec => []ControlOK
<1>1. Init => ControlOK
  BY DEF Init, ControlOK, PcValues
<1> QED BY <1>1, ControlStep, PTL DEF Spec

(* A command that waits for its helper container is one of the users of the *)
(* volume, so that the count of the others is never below zero.             *)
UsersOK ==
    /\ users \in [Volumes -> Nat]
    /\ \A v \in Volumes : users[v] >= Cardinality(Waiting(v))

LEMMA WaitingFinite ==
  ASSUME NEW v
  PROVE  IsFiniteSet(Waiting(v)) /\ Cardinality(Waiting(v)) \in Nat
<1>1. Waiting(v) \subseteq Procs
  BY DEF Waiting
<1> QED BY <1>1, ProcsAssumption, FS_Subset, FS_CardinalityType

LEMMA WaitingLess ==
  ASSUME ControlOK, NEW p \in Procs, NEW to \in PcValues \ {"wait"},
         pc' = [pc EXCEPT ![p] = to], NEW v
  PROVE  /\ Cardinality(Waiting(v)') <= Cardinality(Waiting(v))
         /\ p \in Waiting(v) => Cardinality(Waiting(v)') = Cardinality(Waiting(v)) - 1
<1>1. Waiting(v)' = Waiting(v) \ {p}
  BY DEF Waiting, ControlOK
<1>2. CASE p \in Waiting(v)
  <2>1. IsFiniteSet(Waiting(v)) /\ Cardinality(Waiting(v)) \in Nat
    BY WaitingFinite
  <2>2. Cardinality(Waiting(v) \ {p}) = Cardinality(Waiting(v)) - 1
    BY <1>2, <2>1, FS_RemoveElement
  <2> QED BY <1>1, <2>1, <2>2
<1>3. CASE p \notin Waiting(v)
  <2>1. Waiting(v)' = Waiting(v)
    BY <1>1, <1>3
  <2> QED BY <2>1, <1>3, WaitingFinite
<1> QED BY <1>2, <1>3

LEMMA UsersStep ==
  ASSUME ControlOK, UsersOK, [Next]_vars
  PROVE  UsersOK'
<1>1. ASSUME UNCHANGED pc, NEW n \in Nat, NEW v \in Volumes, n >= Cardinality(Waiting(v)),
             users' = users \/ users' = [users EXCEPT ![v] = n]
      PROVE  UsersOK'
  BY <1>1 DEF UsersOK, Waiting
<1>2. ASSUME UNCHANGED <<pc, users>>
      PROVE  UsersOK'
  BY <1>2 DEF UsersOK, Waiting
<1>3. ASSUME NEW p \in Procs, NEW to \in PcValues \ {"wait"}, pc' = [pc EXCEPT ![p] = to],
             \/ users' = users
             \/ pc[p] = "wait" /\ users' = [users EXCEPT ![Ccache] = @ - 1]
      PROVE  UsersOK'
  <2>1. \A v \in Volumes : /\ Cardinality(Waiting(v)') <= Cardinality(Waiting(v))
                           /\ Cardinality(Waiting(v)) \in Nat
                           /\ Cardinality(Waiting(v)') \in Nat
    <3>1. \A v : IsFiniteSet(Waiting(v)')
      <4> TAKE v
      <4>1. Waiting(v)' \subseteq Procs
        BY DEF Waiting
      <4> QED BY <4>1, ProcsAssumption, FS_Subset
    <3> QED BY <1>3, <3>1, WaitingLess, WaitingFinite, FS_CardinalityType
  <2>2. CASE users' = users
    BY <2>1, <2>2 DEF UsersOK
  <2>3. CASE pc[p] = "wait" /\ users' = [users EXCEPT ![Ccache] = @ - 1]
    <3>1. p \in Waiting(Ccache)
      BY <2>3 DEF Waiting
    <3>2. Cardinality(Waiting(Ccache)') = Cardinality(Waiting(Ccache)) - 1
      BY <1>3, <3>1, WaitingLess
    <3> QED BY <2>1, <2>3, <3>2, OrderAssumption DEF UsersOK
  <2> QED BY <1>3, <2>2, <2>3
<1>4. ASSUME NEW p \in Procs, RunHelper(p)
      PROVE  UsersOK'
  <2>1. /\ pc[p] = "run" /\ pc' = [pc EXCEPT ![p] = "wait"]
        /\ users' = [users EXCEPT ![Ccache] = @ + 1]
    BY <1>4 DEF RunHelper, Goes
  <2>2. Waiting(Ccache)' = Waiting(Ccache) \cup {p} /\ p \notin Waiting(Ccache)
    BY <2>1 DEF Waiting, ControlOK
  <2>3. Cardinality(Waiting(Ccache)') = Cardinality(Waiting(Ccache)) + 1
    BY <2>2, WaitingFinite, FS_AddElement
  <2>4. \A v \in Volumes : v # Ccache => Waiting(v)' = Waiting(v)
    BY DEF Waiting
  <2> QED BY <2>1, <2>3, <2>4, WaitingFinite, OrderAssumption DEF UsersOK
<1>5. ASSUME NEW v \in Volumes, ContainerStarts(v) \/ ContainerEnds(v)
      PROVE  UsersOK'
  <2>1. /\ Cardinality(Waiting(v)) \in Nat /\ users[v] \in Nat
        /\ users[v] >= Cardinality(Waiting(v))
    BY WaitingFinite DEF UsersOK
  <2>2. PICK n \in Nat : n >= Cardinality(Waiting(v)) /\ users' = [users EXCEPT ![v] = n]
    BY <1>5, <2>1 DEF ContainerStarts, ContainerEnds
  <2> QED BY <1>1, <1>5, <2>2 DEF ContainerStarts, ContainerEnds
<1>6. ASSUME NEW p \in Procs, Ends(p),
             \/ users' = users
             \/ pc[p] = "wait" /\ users' = [users EXCEPT ![Ccache] = @ - 1]
      PROVE  UsersOK'
  BY <1>3, <1>6 DEF Ends, PcValues
<1>7. ASSUME NEW p \in Procs, UNCHANGED users,
             \E to \in PcValues \ {"wait"} : pc' = [pc EXCEPT ![p] = to]
      PROVE  UsersOK'
  BY <1>3, <1>7
<1>8. ASSUME NEW p \in Procs, Step(p) \/ HelperEnds(p) \/ Interrupt(p), ~RunHelper(p)
      PROVE  UsersOK'
  <2>1. CASE Inspect(p)
    <3>1. pc' = [pc EXCEPT ![p] = "remove"] \/ pc' = pc
      BY <2>1 DEF Inspect, Goes
    <3> QED BY <1>2, <1>7, <2>1, <3>1 DEF Inspect, PcValues
  <2>2. CASE Remove(p) \/ Df(p)
    BY <1>7, <2>2 DEF Remove, Df, PcValues
  <2>3. CASE Size(p)
    BY <1>2, <1>7, <2>3 DEF Size, Goes, PcValues
  <2>4. CASE AskCcache(p)
    BY <1>6, <1>7, <2>4 DEF AskCcache, Goes, PcValues
  <2>5. CASE RemoveFails(p) \/ ResetEnds(p) \/ RunFails(p) \/ HelperEnds(p)
             \/ RunTimesOut(p) \/ Interrupt(p)
    BY <1>6, <2>5 DEF RemoveFails, ResetEnds, RunFails, HelperEnds, RunTimesOut, Interrupt
  <2> QED BY <1>8, <2>1, <2>2, <2>3, <2>4, <2>5 DEF Step
<1>9. ASSUME NEW p \in Procs,
             \/ \E which \in Volumes \cup {"all"} : StartReset(p, which)
             \/ StartStats(p)
      PROVE  UsersOK'
  BY <1>7, <1>9 DEF StartReset, StartStats, Start, PcValues
<1>10. CASE EngineToggles \/ UNCHANGED vars
  BY <1>2, <1>10 DEF EngineToggles, vars
<1> QED BY <1>4, <1>5, <1>8, <1>9, <1>10 DEF Next

(* The variables of the model keep their types, for any number of commands, *)
(* volumes and containers.                                                  *)
THEOREM TypeCorrect == Spec => []TypeOK
<1>1. Init => UsersOK
  <2> SUFFICES ASSUME Init, NEW v \in Volumes
               PROVE  users \in [Volumes -> Nat] /\ users[v] >= Cardinality(Waiting(v))
    BY DEF UsersOK, Init
  <2>1. Waiting(v) = {}
    BY DEF Init, Waiting
  <2> QED BY <2>1, FS_EmptySet DEF Init
<1>2. ControlOK /\ UsersOK => TypeOK
  BY DEF ControlOK, UsersOK, TypeOK, PcValues
<1> QED BY <1>1, <1>2, UsersStep, ControlCorrect, PTL DEF Spec

-----------------------------------------------------------------------------
(* A report is made of what the command sees, and what it sees is in its    *)
(* history.                                                                 *)

Truth == HasSeen /\ ReportsTrue

Resetting == {"inspect", "remove"}

(* Truth survives a step after which every report is an old one of the same *)
(* operation or one of what there is now.                                   *)
LEMMA TruthKept ==
  ASSUME ControlOK, ControlOK', Truth, Observes,
         \A q \in Procs : pc'[q] = "idle" => told'[q] = {},
         \A q \in Procs : pc'[q] = "run" => pc[q] = "run" \/ Ccache \in exists',
         \A q \in Procs : pc'[q] # "idle" => \A v \in told'[q] :
            \/ v \in told[q] /\ (pc[q] \in Resetting <=> pc'[q] \in Resetting)
            \/ pc'[q] \in Resetting /\ (v \notin exists' \/ ~engine')
            \/ pc'[q] \notin Resetting /\ v \in exists'
  PROVE  Truth'
<1>1. \A q \in Procs : pc'[q] # "idle" =>
         /\ there'[q] = there[q] \cup exists'
         /\ gone'[q] = gone[q] \cup (Volumes \ exists')
         /\ q \in silent' <=> (q \in silent \/ ~engine')
  BY DEF ControlOK, Observes
<1>2. HasSeen'
  BY <1>1, OrderAssumption DEF Truth, HasSeen, ControlOK
<1>3. ReportsTrue'
  <2> SUFFICES ASSUME NEW q \in Procs, NEW v \in told'[q], pc'[q] # "idle"
               PROVE  IF pc'[q] \in Resetting THEN v \in gone'[q] \/ q \in silent'
                      ELSE v \in there'[q]
    BY DEF ReportsTrue, Resetting
  <2>1. v \in Volumes
    BY DEF ControlOK
  <2>2. CASE v \in told[q] /\ (pc[q] \in Resetting <=> pc'[q] \in Resetting)
    BY <1>1, <2>1, <2>2 DEF Truth, ReportsTrue, Resetting
  <2>3. CASE pc'[q] \in Resetting /\ v \notin exists'
    BY <1>1, <2>1, <2>3
  <2>4. CASE pc'[q] \in Resetting /\ ~engine'
    BY <1>1, <2>4 DEF ControlOK
  <2>5. CASE pc'[q] \notin Resetting /\ v \in exists'
    BY <1>1, <2>1, <2>5
  <2> QED BY <2>2, <2>3, <2>4, <2>5
<1> QED BY <1>2, <1>3 DEF Truth

LEMMA TruthStep ==
  ASSUME ControlOK, ControlOK', Truth, [Next]_vars
  PROVE  Truth'
<1> USE DEF ControlOK
<1>1. CASE UNCHANGED vars
  BY <1>1 DEF vars, seen, Truth, HasSeen, ReportsTrue
<1>2. ASSUME Observes, UNCHANGED <<pc, told>>
      PROVE  Truth'
  BY <1>2, TruthKept DEF Truth, HasSeen
<1>3. CASE EngineToggles \/ \E v \in Volumes : ContainerStarts(v) \/ ContainerEnds(v)
  BY <1>2, <1>3 DEF EngineToggles, ContainerStarts, ContainerEnds
<1>4. ASSUME NEW p \in Procs, \E step, volumes : step \in {"inspect", "size"} /\ Start(p, step, volumes)
      PROVE  Truth'
  BY <1>4, TruthKept DEF Start, Truth, HasSeen
<1>5. ASSUME NEW p \in Procs, Ends(p), Observes
      PROVE  Truth'
  BY <1>5, TruthKept DEF Ends, Truth, HasSeen
<1>6. ASSUME NEW p \in Procs, NEW step \in PcValues \ {"idle"}, Goes(p, step), Observes,
             step = "run" => Ccache \in exists', pc[p] # "idle",
             pc[p] \in Resetting <=> step \in Resetting
      PROVE  Truth'
  BY <1>6, TruthKept DEF Goes, Truth, HasSeen
<1>7. ASSUME NEW p \in Procs, NEW step \in {"inspect", "size"},
             pc' = [pc EXCEPT ![p] = step], pc[p] # "idle", Observes,
             pc[p] \in Resetting <=> step \in Resetting,
             \/ told' = told
             \/ /\ told' = [told EXCEPT ![p] = @ \cup {AtHand(p)}]
                /\ IF step = "inspect" THEN AtHand(p) \notin exists' \/ ~engine'
                   ELSE AtHand(p) \in exists'
      PROVE  Truth'
  BY <1>7, TruthKept DEF Truth, HasSeen, Resetting
<1>8. ASSUME NEW p \in Procs, Step(p) \/ HelperEnds(p) \/ Interrupt(p)
      PROVE  Truth'
  <2>1. CASE Inspect(p)
    <3>1. CASE Exists(AtHand(p))
      BY <1>6, <2>1, <3>1 DEF Inspect, PcValues, Resetting
    <3>2. CASE ~Exists(AtHand(p))
      <4>1. pc' = [pc EXCEPT ![p] = "inspect"]
        BY <2>1, <3>2 DEF Inspect
      <4> QED BY <1>7, <2>1, <3>2, <4>1 DEF Inspect, Tells, Exists, Resetting
    <3> QED BY <3>1, <3>2
  <2>2. CASE Remove(p)
    BY <1>7, <2>2 DEF Remove, Tells, Resetting
  <2>3. CASE Size(p)
    <3>1. CASE Goes(p, "df")
      BY <1>6, <2>3, <3>1 DEF Size, PcValues, Resetting
    <3>2. CASE ~Goes(p, "df")
      BY <1>2, <2>3, <3>2 DEF Size
    <3> QED BY <3>1, <3>2
  <2>4. CASE Df(p)
    BY <1>7, <2>4 DEF Df, Tells, Exists, Resetting
  <2>5. CASE AskCcache(p)
    BY <1>5, <1>6, <2>5 DEF AskCcache, Exists, PcValues, Resetting
  <2>6. CASE RunHelper(p)
    BY <1>6, <2>6 DEF RunHelper, PcValues, Resetting
  <2>7. CASE RemoveFails(p) \/ ResetEnds(p) \/ RunFails(p) \/ HelperEnds(p)
             \/ RunTimesOut(p) \/ Interrupt(p)
    BY <1>5, <2>7 DEF RemoveFails, ResetEnds, RunFails, HelperEnds, RunTimesOut, Interrupt
  <2> QED BY <1>8, <2>1, <2>2, <2>3, <2>4, <2>5, <2>6, <2>7 DEF Step
<1>9. ASSUME NEW p \in Procs,
             \/ \E which \in Volumes \cup {"all"} : StartReset(p, which)
             \/ StartStats(p)
      PROVE  Truth'
  BY <1>4, <1>9 DEF StartReset, StartStats
<1> QED BY <1>1, <1>3, <1>8, <1>9 DEF Next

(* What a command has seen is tied to what there is at every step of it: the*)
(* invariant that the report of cache.py rests on.                          *)
THEOREM TruthInvariant == Spec => []Truth
<1>1. Init => Truth
  BY DEF Init, Truth, HasSeen, ReportsTrue
<1> QED BY <1>1, TruthStep, ControlCorrect, PTL DEF Spec

(* What reset and stats print is true, as long as the engine answers        *)
(* (cache.py, _volume_exists and reset).                                    *)
THEOREM ReportsAreTrue == Spec => []ReportsTrue
<1>1. Truth => ReportsTrue
  BY DEF Truth
<1> QED BY <1>1, TruthInvariant, PTL

(* The statistics of ccache create no volume but one that was removed since *)
(* the command began (cache.py, _ccache_stats).                             *)
THEOREM NothingNew == Spec => CreatesNothingNew
<1>1. ASSUME ControlOK, Truth, [Next]_vars, NEW p \in Procs, NEW v \in Volumes,
             pc'[p] # pc[p], v \in exists' \ exists
      PROVE  v \in there[p]
  <2>1. exists' # exists
    BY <1>1
  <2>2. PICK q \in Procs : RunHelper(q)
    BY <1>1, <2>1 DEF Next, vars, StartReset, StartStats, Start, Step, Inspect, Remove,
       RemoveFails, ResetEnds, Size, Df, AskCcache, RunFails, RunTimesOut, HelperEnds,
       Interrupt, ContainerStarts, ContainerEnds, EngineToggles
  <2>3. p = q /\ v = Ccache /\ pc[p] = "run"
    BY <1>1, <2>2 DEF RunHelper, Goes, ControlOK
  <2> QED BY <1>1, <2>3 DEF Truth, HasSeen
<1>2. ControlOK /\ Truth /\ [Next]_vars =>
         [\A p \in Procs, v \in Volumes :
             pc'[p] # pc[p] /\ v \in exists' \ exists => v \in there[p]]_vars
  BY <1>1
<1> QED BY <1>2, ControlCorrect, TruthInvariant, PTL DEF Spec, CreatesNothingNew
=============================================================================
