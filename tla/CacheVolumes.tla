---------------------------- MODULE CacheVolumes ----------------------------
(***************************************************************************)
(* `west env cache reset' and `west env cache stats': west_env/cache.py     *)
(* against the named volumes of an engine that may stop answering, while    *)
(* containers start and end that use the volumes, and while other cache     *)
(* commands run.                                                            *)
(***************************************************************************)
EXTENDS Integers, Sequences, FiniteSets

CONSTANTS
    Procs,          \* the cache commands that may run
    Order,          \* the volumes, in the order of _VOLUME_NAMES
    Ccache,         \* the one that ccache's own statistics are asked of
    MaxContainers   \* bound: containers that use one volume

Volumes == {Order[i] : i \in DOMAIN Order}

ASSUME OrderAssumption ==
    /\ Order \in Seq(Volumes)
    /\ Ccache \in Volumes
    /\ "all" \notin Volumes
ASSUME ProcsAssumption == IsFiniteSet(Procs)
ASSUME MaxContainersAssumption == MaxContainers \in Nat

VARIABLES
    exists,     \* the volumes there are
    users,      \* Volumes -> how many containers use it
    engine,     \* does the engine answer?
    pc,         \* Procs -> the next step of reset or print_stats
    todo,       \* Procs -> the volumes to come, the first one is at hand
    told,       \* Procs -> the volumes reported so far: as removed (reset),
                \* or with a size (stats)
    there,      \* Procs -> the volumes that existed at some moment since
    gone,       \* Procs -> those that did not, at some moment since
    silent      \* the commands that had a moment without an engine since

seen == <<there, gone, silent>>
vars == <<exists, users, engine, pc, todo, told, seen>>

Init ==
    /\ exists \in SUBSET Volumes
    /\ users = [v \in Volumes |-> 0]
    /\ engine \in BOOLEAN
    /\ pc = [p \in Procs |-> "idle"]
    /\ todo = [p \in Procs |-> <<>>]
    /\ told = [p \in Procs |-> {}]
    /\ there = [p \in Procs |-> {}]
    /\ gone = [p \in Procs |-> {}]
    /\ silent = {}

(* The history variables: what a command could have seen since it began.    *)
Observes ==
    LET running == {p \in Procs : pc'[p] # "idle"}
    IN  /\ there' = [p \in Procs |-> IF p \in running THEN there[p] \cup exists' ELSE {}]
        /\ gone' = [p \in Procs |->
                      IF p \in running THEN gone[p] \cup (Volumes \ exists') ELSE {}]
        /\ silent' = IF engine' THEN silent \cap running ELSE running

-----------------------------------------------------------------------------
Goes(p, step) == pc' = [pc EXCEPT ![p] = step] /\ UNCHANGED <<todo, told>>

Ends(p) ==
    /\ pc' = [pc EXCEPT ![p] = "idle"]
    /\ todo' = [todo EXCEPT ![p] = <<>>]
    /\ told' = [told EXCEPT ![p] = {}]

AtHand(p) == Head(todo[p])

(* _volume_exists: an engine that does not answer has no volume.            *)
Exists(v) == engine /\ v \in exists

Tells(p) ==
    /\ told' = [told EXCEPT ![p] = @ \cup {AtHand(p)}]
    /\ todo' = [todo EXCEPT ![p] = Tail(@)]

(* Slip: no case for "all".                                                 *)
TargetsAsNamed(which) == <<which>>

Targets(which) == IF which = "all" THEN Order ELSE <<which>>

Start(p, step, volumes) ==
    /\ pc[p] = "idle"
    /\ pc' = [pc EXCEPT ![p] = step]
    /\ todo' = [todo EXCEPT ![p] = volumes]
    /\ UNCHANGED <<exists, users, engine, told>> /\ Observes

StartReset(p, which) == Start(p, "inspect", Targets(which))
StartStats(p)        == Start(p, "size", Order)

-----------------------------------------------------------------------------
(* reset: inspect and remove, one volume after the other.                   *)

Inspect(p) ==
    /\ pc[p] = "inspect" /\ todo[p] # <<>>
    /\ IF Exists(AtHand(p)) THEN Goes(p, "remove") ELSE Tells(p) /\ pc' = pc
    /\ UNCHANGED <<exists, users, engine>> /\ Observes

Removable(v) == Exists(v) /\ users[v] = 0

Remove(p) ==
    /\ pc[p] = "remove" /\ Removable(AtHand(p))
    /\ exists' = exists \ {AtHand(p)}
    /\ Tells(p) /\ pc' = [pc EXCEPT ![p] = "inspect"]
    /\ UNCHANGED <<users, engine>> /\ Observes

(* Slip: `volume rm' without a look at its exit code.                       *)
RemoveFailsQuietly(p) ==
    /\ pc[p] = "remove" /\ ~Removable(AtHand(p))
    /\ Tells(p) /\ pc' = [pc EXCEPT ![p] = "inspect"]
    /\ UNCHANGED <<exists, users, engine>> /\ Observes

(* A volume in use, or one that is gone by now, is a RuntimeError: the      *)
(* volumes to come are not looked at.                                       *)
RemoveFails(p) ==
    /\ pc[p] = "remove" /\ ~Removable(AtHand(p))
    /\ Ends(p)
    /\ UNCHANGED <<exists, users, engine>> /\ Observes

ResetEnds(p) ==
    /\ pc[p] = "inspect" /\ todo[p] = <<>>
    /\ Ends(p)
    /\ UNCHANGED <<exists, users, engine>> /\ Observes

-----------------------------------------------------------------------------
(* print_stats: the sizes, then what ccache itself says.                    *)

(* _volume_size: `system df' may fail or not list the volume.               *)
Size(p) ==
    /\ pc[p] = "size" /\ todo[p] # <<>>
    /\ \/ Exists(AtHand(p)) /\ Goes(p, "df")
       \/ ~Exists(AtHand(p)) /\ todo' = [todo EXCEPT ![p] = Tail(@)]
          /\ UNCHANGED <<pc, told>>
    /\ UNCHANGED <<exists, users, engine>> /\ Observes

Df(p) ==
    /\ pc[p] = "df"
    /\ \/ Exists(AtHand(p)) /\ Tells(p)
       \/ todo' = [todo EXCEPT ![p] = Tail(@)] /\ told' = told
    /\ pc' = [pc EXCEPT ![p] = "size"]
    /\ UNCHANGED <<exists, users, engine>> /\ Observes

(* Slip: no inspection before the run.                                      *)
AskCcacheAlways(p) ==
    /\ pc[p] = "size" /\ todo[p] = <<>>
    /\ Goes(p, "run")
    /\ UNCHANGED <<exists, users, engine>> /\ Observes

AskCcache(p) ==
    /\ pc[p] = "size" /\ todo[p] = <<>>
    /\ IF Exists(Ccache) THEN Goes(p, "run") ELSE Ends(p)
    /\ UNCHANGED <<exists, users, engine>> /\ Observes

(* `run -v' creates a volume that is not there.                             *)
RunHelper(p) ==
    /\ pc[p] = "run" /\ engine /\ users[Ccache] < MaxContainers
    /\ exists' = exists \cup {Ccache}
    /\ users' = [users EXCEPT ![Ccache] = @ + 1]
    /\ Goes(p, "wait")
    /\ engine' = engine /\ Observes

(* No engine, no image, no network: every exception is swallowed.           *)
RunFails(p) ==
    /\ pc[p] = "run"
    /\ Ends(p)
    /\ UNCHANGED <<exists, users, engine>> /\ Observes

HelperEnds(p) ==
    /\ pc[p] = "wait"
    /\ users' = [users EXCEPT ![Ccache] = @ - 1]
    /\ Ends(p)
    /\ UNCHANGED <<exists, engine>> /\ Observes

(* Slip: `run' without a time limit.                                        *)
RunNeverTimesOut(p) == FALSE

(* After 30 s the client is killed; the container it started goes on.       *)
RunTimesOut(p) ==
    /\ pc[p] = "wait"
    /\ Ends(p)
    /\ UNCHANGED <<exists, users, engine>> /\ Observes

(* Ctrl-C: it reaches the client, which may or may not end the container.   *)
Interrupt(p) ==
    /\ pc[p] # "idle"
    /\ users' \in {users} \cup
          (IF pc[p] = "wait" THEN {[users EXCEPT ![Ccache] = @ - 1]} ELSE {})
    /\ Ends(p)
    /\ UNCHANGED <<exists, engine>> /\ Observes

-----------------------------------------------------------------------------
(* What happens around the program.                                         *)

Waiting(v) == {p \in Procs : v = Ccache /\ pc[p] = "wait"}

ContainerStarts(v) ==
    /\ engine /\ users[v] < MaxContainers
    /\ exists' = exists \cup {v}
    /\ users' = [users EXCEPT ![v] = @ + 1]
    /\ UNCHANGED <<engine, pc, todo, told>> /\ Observes

(* One that no cache command waits for.                                     *)
ContainerEnds(v) ==
    /\ users[v] > Cardinality(Waiting(v))
    /\ users' = [users EXCEPT ![v] = @ - 1]
    /\ UNCHANGED <<exists, engine, pc, todo, told>> /\ Observes

EngineToggles ==
    /\ engine' = ~engine
    /\ UNCHANGED <<exists, users, pc, todo, told>> /\ Observes

-----------------------------------------------------------------------------
Step(p) ==
    \/ Inspect(p) \/ Remove(p) \/ RemoveFails(p) \/ ResetEnds(p)
    \/ Size(p) \/ Df(p) \/ AskCcache(p)
    \/ RunHelper(p) \/ RunFails(p) \/ RunTimesOut(p)

Next ==
    \/ \E p \in Procs :
          \/ \E which \in Volumes \cup {"all"} : StartReset(p, which)
          \/ StartStats(p) \/ Step(p) \/ HelperEnds(p) \/ Interrupt(p)
    \/ \E v \in Volumes : ContainerStarts(v) \/ ContainerEnds(v)
    \/ EngineToggles

Spec == Init /\ [][Next]_vars

(* Fairness: a cache command goes on.  `run' has a time limit, the other    *)
(* calls of the engine are assumed to return; the helper container, the     *)
(* user's containers and the engine owe nothing.                            *)
LiveSpec == Spec /\ \A p \in Procs : WF_vars(Step(p))

-----------------------------------------------------------------------------
(* Properties.                                                              *)

(* The type of every variable of the model.                                 *)
TypeOK ==
    /\ exists \subseteq Volumes
    /\ users \in [Volumes -> Nat]
    /\ \A v \in Volumes : users[v] >= Cardinality(Waiting(v))
    /\ engine \in BOOLEAN
    /\ pc \in [Procs -> {"idle", "inspect", "remove", "size", "df", "run", "wait"}]
    /\ todo \in [Procs -> Seq(Volumes)]
    /\ \A p \in Procs : pc[p] \in {"remove", "df"} => todo[p] # <<>>
    /\ told \in [Procs -> SUBSET Volumes]
    /\ there \in [Procs -> SUBSET Volumes]
    /\ gone \in [Procs -> SUBSET Volumes]
    /\ silent \subseteq Procs

(* If the engine answered throughout, "[OK] removed" is true: the volume was*)
(* gone at some moment of the reset, whoever else removed or created it; and*)
(* a volume that stats prints a size of was there at some moment.           *)
ReportsTrue ==
    \A p \in Procs : \A v \in told[p] :
        IF pc[p] \in {"inspect", "remove"} THEN v \in gone[p] \/ p \in silent
        ELSE v \in there[p]

(* A cache command brings no volume into being that was not there when, or  *)
(* after, it began: asking for statistics can undo the reset of another     *)
(* command, and nothing worse.                                              *)
CreatesNothingNew ==
    [][\A p \in Procs, v \in Volumes :
          pc'[p] # pc[p] /\ v \in exists' \ exists => v \in there[p]]_vars

(* Every cache command ends, though the helper container may not.           *)
CachesEnd == \A p \in Procs : pc[p] # "idle" ~> pc[p] = "idle"

(* What makes them inductive: a running command has seen what there is now, *)
(* and asks ccache only when it has seen the volume.                        *)
HasSeen ==
    \A p \in Procs :
        /\ pc[p] # "idle" => /\ exists \subseteq there[p]
                             /\ Volumes \ exists \subseteq gone[p]
                             /\ engine \/ p \in silent
        /\ pc[p] = "idle" => told[p] = {}
        /\ pc[p] = "run" => Ccache \in there[p]
=============================================================================
