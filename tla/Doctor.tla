------------------------------- MODULE Doctor -------------------------------
(***************************************************************************)
(* `west env doctor' and the selection of a backend: the probes of          *)
(* west_env/backend.py, the credential strategy of credentials.py, the      *)
(* tools of flash.py, the container checks of container.py and the verdict  *)
(* of EnvCommand._doctor.                                                   *)
(*                                                                         *)
(* All of it is a sequence of checks, and a check is a sequence of          *)
(* questions to other programs, asked until the first one that is not       *)
(* answered with yes.  The world goes on meanwhile: daemons and machines    *)
(* start, stop and hang between any two questions, so that what one check   *)
(* saw need not be what the next one sees.  Whether two answers can be true *)
(* at once is not restricted: between the two the world may have changed.   *)
(***************************************************************************)
EXTENDS Naturals, Sequences

CONSTANTS
    Platforms,      \* values of sys.platform
    Calls,          \* the calls: doctor, or select(preferred)
    Starts,         \* Questions -> Answers: the worlds a call may begin in
    MaxChanges      \* bound: Calls -> how often the world changes during the call

(* `docker version' and `podman version' (the client and the daemon),       *)
(* Hyper-V, a running Podman machine, `docker info' of a Docker Desktop,    *)
(* python and west, an ssh-agent, a credential helper of git, `--version'   *)
(* of the engine, `image inspect', a container that sees the manifest, and  *)
(* J-Link's tools and its GDB server.  Nothing answers "never".             *)
Questions ==
    {"docker", "podman", "hyperv", "machine", "wsl2", "tools", "agent",
     "helper", "client", "image", "workspace", "jlink", "gdbserver", "never"}
Answers == {"yes", "no", "hangs"}

(* Slip: no timeout for `docker version'.                                   *)
TimedButDocker == {"podman", "hyperv", "machine", "wsl2", "agent"}

(* These are only looked for in PATH and in a few directories.              *)
LookedUp == {"jlink", "gdbserver", "never"}

(* subprocess with timeout=: no answer is an answer.                        *)
Timed == {"docker", "podman", "hyperv", "machine", "wsl2", "agent"}

Backends ==
    {"podman-machine-hyperv", "docker-desktop", "podman-native",
     "docker-native", "podman-machine", "docker-machine"}
None == "none"

ASSUME PlatformsAssumption == Platforms \subseteq STRING
ASSUME CallsAssumption ==
    Calls \subseteq [op : {"doctor", "select"}, preferred : STRING,
                     container : BOOLEAN, engine : BOOLEAN, image : BOOLEAN,
                     dotted : BOOLEAN, credentials : STRING, jlink : STRING]
ASSUME StartsAssumption ==
    /\ Starts \subseteq [Questions -> Answers]
    /\ \A w \in Starts : w["never"] = "no" /\ \A q \in LookedUp : w[q] # "hangs"
ASSUME MaxChangesAssumption == MaxChanges \in [Calls -> Nat]

VARIABLES
    platform,
    call,       \* the call: what it asks for, and of which configuration
    world,      \* how each question would be answered now
    changes,    \* how often that changed
    at,         \* the check at hand
    asking,     \* its question at hand
    good,       \* the checks that had every answer yes
    skipped,    \* the checks that were not asked
    held,       \* the questions that had the answer yes at some moment
    missed      \* those that did not, at some moment

report == <<at, asking, good, skipped>>
vars   == <<platform, call, world, changes, report, held, missed>>

-----------------------------------------------------------------------------
(* The checks of a call.                                                    *)

Check(part, of, asks) == [part |-> part, of |-> of, asks |-> asks]

(* Slip: a machine of Hyper-V need not be running.                          *)
ProbeStopped(b) ==
    CASE b = "podman-machine-hyperv" -> <<"podman", "hyperv">>
      [] b = "docker-desktop"        -> <<"docker", "wsl2">>
      [] b = "podman-machine"        -> <<"podman", "machine">>
      [] b = "podman-native"         -> <<"podman">>
      [] OTHER                       -> <<"docker">>

(* The probe functions.  Hyper-V is asked on Windows only.                  *)
Probe(b) ==
    CASE b = "podman-machine-hyperv" ->
            <<"podman", IF platform = "win32" THEN "hyperv" ELSE "never", "machine">>
      [] b = "docker-desktop"        -> <<"docker", "wsl2">>
      [] b = "podman-machine"        -> <<"podman", "machine">>
      [] b = "podman-native"         -> <<"podman">>
      [] OTHER                       -> <<"docker">>

Chain ==
    CASE platform = "win32"  -> <<"podman-machine-hyperv", "docker-desktop">>
      [] platform = "darwin" -> <<"podman-machine", "docker-machine">>
      [] OTHER               -> <<"podman-native", "docker-native">>

InChain(b) == b \in {Chain[1], Chain[2]}

(* detect_all calls every probe twice, once for its name: the first answer  *)
(* is thrown away.                                                          *)
DetectAll(part) ==
    <<Check(part, Chain[1], Probe(Chain[1])), Check(part, Chain[2], Probe(Chain[2]))>>

(* A backend that is not of this platform is probed on demand.              *)
Selecting(preferred) ==
    DetectAll("select") \o
    IF preferred \in Backends /\ ~InChain(preferred)
    THEN <<Check("select", preferred, Probe(preferred))>> ELSE <<>>

(* auto: the strategy that is found is then asked once more for its socket, *)
(* or for its name.  The answers decide which strategy the line names, or   *)
(* add a warning; the line itself says [PASS] for every strategy but none,  *)
(* so that a check of this part in `good' is an answer and not a line.      *)
Credentials ==
    CASE call.credentials = "auto" ->
            <<Check("info", "agent", <<"agent">>), Check("info", "helper", <<"helper">>),
              Check("info", "socket", <<"agent">>), Check("info", "setting", <<"helper">>)>>
      [] call.credentials = "openssh-agent" -> <<Check("info", "agent", <<"agent">>)>>
      [] call.credentials = "credential-manager" ->
            <<Check("info", "helper", <<"helper">>)>>
      [] OTHER -> <<>>

JLink ==
    <<Check("info", "jlink", <<"jlink">>)>>
    \o IF call.jlink = "tcp-server" THEN <<Check("info", "gdbserver", <<"gdbserver">>)>>
       ELSE <<>>

If(asked, question) == IF asked THEN <<question>> ELSE <<>>

(* An image that is not there yet is pulled later: only worth a warning.    *)
(* The manifest path loses its leading dots to lstrip("./").                *)
ContainerChecks ==
    <<Check("verdict", "engine",
            If(~call.engine, "never") \o <<"client">> \o If(~call.image, "never")),
      Check("info", "image", <<"image">>),
      Check("verdict", "workspace",
            If(~call.engine \/ ~call.image, "never") \o <<"workspace">>
                \o If(call.dotted, "never"))>>

Checks ==
    IF call.op = "select" THEN Selecting(call.preferred)
    ELSE <<Check("verdict", "tools", <<"tools">>)>>
         \o DetectAll("list") \o Selecting("auto") \o Credentials \o JLink
         \o IF call.container THEN ContainerChecks ELSE <<>>

Asked == UNION {{Checks[i].asks[k] : k \in DOMAIN Checks[i].asks} : i \in DOMAIN Checks}

-----------------------------------------------------------------------------
(* What the call does not ask about is fine, and does not change.           *)
Init ==
    /\ platform \in Platforms /\ call \in Calls
    /\ world \in Starts /\ changes = 0
    /\ \A q \in Questions \ Asked : q = "never" \/ world[q] = "yes"
    /\ at = 1 /\ asking = 1 /\ good = {} /\ skipped = {}
    /\ held = {q \in Questions : world[q] = "yes"}
    /\ missed = {q \in Questions : world[q] # "yes"}

Running  == at <= Len(Checks)
AtHand   == Checks[at]
Question == AtHand.asks[asking]

(* detect_strategy asks git only if there is no agent; check_container gives*)
(* up before the image.                                                     *)
Passed(part, of) == \E i \in good : Checks[i].part = part /\ Checks[i].of = of

Unneeded ==
    /\ AtHand.part = "info"
    /\ \/ AtHand.of = "helper" /\ Passed("info", "agent")
       \/ AtHand.of = "socket" /\ ~Passed("info", "agent")
       \/ AtHand.of = "setting" /\ ~Passed("info", "helper")
       \/ AtHand.of = "image" /\ ~Passed("verdict", "engine")

(* Slip: the next check does not begin with its first question.             *)
NextCheckMidway == at' = at + 1 /\ asking' = asking

NextCheck == at' = at + 1 /\ asking' = 1

Skip ==
    /\ Running /\ Unneeded
    /\ NextCheck /\ skipped' = skipped \cup {at}
    /\ UNCHANGED <<platform, call, world, changes, good, held, missed>>

Yes ==
    /\ Running /\ ~Unneeded /\ world[Question] = "yes"
    /\ IF asking < Len(AtHand.asks)
       THEN asking' = asking + 1 /\ UNCHANGED <<at, good>>
       ELSE NextCheck /\ good' = good \cup {at}
    /\ UNCHANGED <<platform, call, world, changes, skipped, held, missed>>

(* A no, a failure and a time that is up are all the same to a check.       *)
No ==
    /\ Running /\ ~Unneeded
    /\ world[Question] = "no" \/ (world[Question] = "hangs" /\ Question \in Timed)
    /\ NextCheck
    /\ UNCHANGED <<platform, call, world, changes, good, skipped, held, missed>>

(* A question that the call asks is answered differently from now on.       *)
WorldChanges ==
    /\ Running /\ changes < MaxChanges[call]
    /\ \E q \in Asked \ {"never"}, a \in Answers :
          /\ a # world[q] /\ (a = "hangs" => q \notin LookedUp)
          /\ world' = [world EXCEPT ![q] = a]
          /\ IF a = "yes" THEN held' = held \cup {q} /\ missed' = missed
             ELSE held' = held /\ missed' = missed \cup {q}
    /\ changes' = changes + 1
    /\ UNCHANGED <<platform, call, report>>

(* The call has ended, or waits for an answer without a limit of time.      *)
Hung == Running /\ ~Unneeded /\ world[Question] = "hangs" /\ Question \notin Timed

Halted == (~Running \/ Hung) /\ UNCHANGED vars

Answered == Skip \/ Yes \/ No

Next == Answered \/ WorldChanges \/ Halted

Spec == Init /\ [][Next]_vars

(* The next question is asked, and the answer, the failure or the end of    *)
(* the time comes.                                                          *)
LiveSpec == Spec /\ WF_vars(Answered)

-----------------------------------------------------------------------------
(* What the call says in the end.                                           *)

(* select: the backend it returns, or None for its RuntimeError.            *)
Selected ==
    IF call.op = "select" /\ call.preferred # "auto"
    THEN IF Passed("select", call.preferred) THEN call.preferred ELSE None
    ELSE IF Passed("select", Chain[1]) THEN Chain[1]
    ELSE IF Passed("select", Chain[2]) THEN Chain[2] ELSE None

(* Slip: the workspace is not asked for.                                    *)
LooksGoodToEngine ==
    /\ Passed("verdict", "tools")
    /\ call.container => Passed("verdict", "engine")

LooksGood ==
    /\ Passed("verdict", "tools")
    /\ call.container =>
          Passed("verdict", "engine") /\ Passed("verdict", "workspace")

-----------------------------------------------------------------------------
(* Properties.                                                              *)

(* The type of every variable of the model.                                 *)
TypeOK ==
    /\ platform \in Platforms /\ call \in Calls
    /\ world \in [Questions -> Answers] /\ changes \in 0..MaxChanges[call]
    /\ at \in 1..(Len(Checks) + 1) /\ asking \in 1..3
    /\ Running => asking \in DOMAIN AtHand.asks
    /\ good \subseteq 1..(at - 1) /\ skipped \subseteq 1..(at - 1) \ good
    /\ held \subseteq Questions /\ missed \subseteq Questions

(* What a backend needs, by its name.                                       *)
Needs(b) ==
    {IF b \in {"podman-machine-hyperv", "podman-native", "podman-machine"}
     THEN "podman" ELSE "docker"}
    \cup (IF b \in {"podman-machine-hyperv", "podman-machine"} THEN {"machine"} ELSE {})
    \cup (IF b = "podman-machine-hyperv" THEN {"hyperv"} ELSE {})
    \cup (IF b = "docker-desktop" THEN {"wsl2"} ELSE {})

Fits(b) == b \in Backends /\ (b = "podman-machine-hyperv" => platform = "win32")

Found(b) == Fits(b) /\ Needs(b) \subseteq held
Lacking(b) == Fits(b) => Needs(b) \cap missed # {}

(* The backend is the one that was asked for, or the first of the platform's*)
(* chain: whatever changes between the probes, all that it needs was there  *)
(* during the call, and each one before it lacked something at some moment; *)
(* an error means that every one did.  The doctor's list says the same of   *)
(* its own probes, which need not be what the selection saw.                *)
PicksTheFirst ==
    ~Running =>
        /\ IF call.op = "select" /\ call.preferred # "auto"
           THEN IF Selected # None THEN Selected = call.preferred /\ Found(Selected)
                ELSE Lacking(call.preferred)
           ELSE /\ Selected # None => InChain(Selected) /\ Found(Selected)
                /\ Selected # Chain[1] => Lacking(Chain[1])
                /\ Selected = None => Lacking(Chain[2])
        /\ call.op = "doctor" => \A b \in {Chain[1], Chain[2]} :
              IF Passed("list", b) THEN Found(b) ELSE Lacking(b)

(* "Environment looks good" in container mode: python, west, the engine, the*)
(* image's name and the workspace were all in order, each at some moment.   *)
(* "One or more checks failed": one of them was not, or the manifest's path *)
(* begins with a dot.                                                       *)
VerdictTrue ==
    ~Running /\ call.op = "doctor" =>
        LET wanted == {"tools"} \cup IF call.container THEN {"client", "workspace"} ELSE {}
            complete == call.container => call.engine /\ call.image
        IN  IF LooksGood THEN wanted \subseteq held /\ complete
            ELSE wanted \cap missed # {} \/ ~complete \/ call.dotted

(* No program that hangs keeps the selection of a backend from its end: only*)
(* the doctor waits, and only for west, git or the engine's client.         *)
Waiting ==
    /\ Running /\ call.op = "doctor" /\ ~Unneeded
    /\ world[Question] = "hangs"
    /\ Question \in {"tools", "helper", "client", "image", "workspace"}

EndsUnlessHung == <>(~Running \/ Waiting)
=============================================================================
