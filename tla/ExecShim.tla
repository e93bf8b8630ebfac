------------------------------ MODULE ExecShim ------------------------------
(***************************************************************************)
(* scripts/exec.sh: a command in the background, its PID file, a watchdog   *)
(* that ends it when its time is up, and a shell that waits for it, while   *)
(* other shims run, the shim itself may be killed, and the system gives a   *)
(* process number that is free to the next process.                         *)
(*                                                                         *)
(* bash collects a child as soon as it has ended, waiting for it or not, so *)
(* that its number is free from then on.  A signal goes to a number, and so *)
(* to whoever has it at that moment: the command, another shim's command or *)
(* watchdog, or a stranger.  (For a shim that is hit, see Terminated and    *)
(* Killed.)  What the command started itself, the `sleep' that a watchdog   *)
(* leaves behind, and the log files, are left out.                          *)
(***************************************************************************)
EXTENDS Integers

CONSTANTS
    Shims,      \* the runs of exec.sh
    Numbers,    \* process numbers
    NoNumber

ASSUME NumberAssumption == NoNumber \notin Numbers

VARIABLES
    pc,         \* Shims -> the next line of the shim
    num,        \* Shims -> CMD_PID
    cmd,        \* Shims -> the command: "none", "running", "gone"
    status,     \* Shims -> how the command ended
    dognum,     \* Shims -> WATCHDOG
    dog,        \* Shims -> the watchdog: "none", "sleeping", "grace", "done",
                \*          "hit" (ended by a signal that was not meant for it)
    exit,       \* Shims -> the exit status of the shim
    files,      \* the numbers that have a PID file
    strangers,  \* the numbers of processes that have nothing to do with it
    felled      \* the shims whose command a signal of exec.sh has ended

vars == <<pc, num, cmd, status, dognum, dog, exit, files, strangers, felled>>

(* 0 for any that means nothing here, 124 of a command that reports a       *)
(* timeout itself (timeout(1), another exec.sh), and those of a process that*)
(* SIGTERM or SIGKILL has ended, which a shell also passes on as its own.   *)
Statuses == {0, 124, 137, 143}
NoStatus == 999
Timeout  == 124

Init ==
    /\ pc = [s \in Shims |-> "launch"]
    /\ num = [s \in Shims |-> NoNumber]
    /\ cmd = [s \in Shims |-> "none"]
    /\ status = [s \in Shims |-> NoStatus]
    /\ dognum = [s \in Shims |-> NoNumber]
    /\ dog = [s \in Shims |-> "none"]
    /\ exit = [s \in Shims |-> NoStatus]
    /\ files = {} /\ strangers = {} /\ felled = {}

-----------------------------------------------------------------------------
Goes(s, line) == pc' = [pc EXCEPT ![s] = line]

Watching(s)  == dog[s] \in {"sleeping", "grace"}
Holds(s, n)  == num[s] = n /\ cmd[s] = "running"
Guards(s, n) == dognum[s] = n /\ Watching(s)
Free(n) ==
    n \notin strangers /\ \A s \in Shims : ~Holds(s, n) /\ ~Guards(s, n)

(* A new process gets any number that is free; of those that no shim has had*)
(* yet, which are all alike, one is enough.                                 *)
Known == {num[s] : s \in Shims} \cup {dognum[s] : s \in Shims}
Fresh == CHOOSE n \in Numbers : n \notin Known
Given == {n \in Numbers : Free(n) /\ (n \in Known \/ n = Fresh)}

(* A signal that s sends to n, when the watchdogs are as in `dogs' but for  *)
(* it.  SIGTERM may be caught, and then ends nothing at once, but a watchdog*)
(* does not catch it.                                                       *)
Dies(s, code) ==
    /\ cmd' = [cmd EXCEPT ![s] = "gone"]
    /\ status' = [status EXCEPT ![s] = code]

HitsNobody(n, code) ==
    /\ Free(n) \/ (code = 143 /\ \A s \in Shims : ~Guards(s, n))
    /\ UNCHANGED <<cmd, status, strangers, felled>>

HitsStranger(n) ==
    /\ n \in strangers /\ strangers' = strangers \ {n}
    /\ UNCHANGED <<cmd, status, felled>>

HitsCommand(n, code) ==
    \E v \in Shims :
        /\ Holds(v, n) /\ Dies(v, code) /\ felled' = felled \cup {v}
        /\ strangers' = strangers

Signal(s, n, code, dogs) ==
    \/ /\ HitsNobody(n, code) \/ HitsStranger(n) \/ HitsCommand(n, code)
       /\ dog' = dogs
    \/ \E v \in Shims :
          /\ Guards(v, n)
          /\ dog' = [dogs EXCEPT ![v] = IF v = s THEN "done" ELSE "hit"]
          /\ UNCHANGED <<cmd, status, strangers, felled>>

Launch(s) ==
    /\ pc[s] = "launch"
    /\ \E n \in Given : num' = [num EXCEPT ![s] = n]
    /\ cmd' = [cmd EXCEPT ![s] = "running"]
    /\ Goes(s, "pidfile")
    /\ UNCHANGED <<status, dognum, dog, exit, files, strangers, felled>>

WritePidFile(s) ==
    /\ pc[s] = "pidfile"
    /\ files' = files \cup {num[s]}
    /\ Goes(s, "watchdog")
    /\ UNCHANGED <<num, cmd, status, dognum, dog, exit, strangers, felled>>

(* The system gives numbers out in turn: two children of one shell have two.*)
StartWatchdog(s) ==
    /\ pc[s] = "watchdog"
    /\ \E n \in Given \ {num[s]} : dognum' = [dognum EXCEPT ![s] = n]
    /\ dog' = [dog EXCEPT ![s] = "sleeping"]
    /\ Goes(s, "wait")
    /\ UNCHANGED <<num, cmd, status, exit, files, strangers, felled>>

Wait(s) ==
    /\ pc[s] = "wait" /\ cmd[s] = "gone"
    /\ Goes(s, "unwatch")
    /\ UNCHANGED <<num, cmd, status, dognum, dog, exit, files, strangers, felled>>

(* Slip: the watchdog is left to itself.                                    *)
StopWatchdogNever(s) ==
    /\ pc[s] = "unwatch"
    /\ Goes(s, "report")
    /\ UNCHANGED <<num, cmd, status, dognum, dog, exit, files, strangers, felled>>

(* kill, and a wait that then has nothing to wait for.                      *)
StopWatchdog(s) ==
    /\ pc[s] = "unwatch"
    /\ Signal(s, dognum[s], 143, dog)
    /\ Goes(s, "report")
    /\ UNCHANGED <<num, dognum, exit, files>>

(* Slips: only the number of the signal is left; SIGKILL is forgotten.      *)
ExitCodeOfSignal(code) == IF code > 128 THEN code - 128 ELSE code
ExitCodeOfTerm(code) == IF code = 143 THEN Timeout ELSE code

ExitCode(code) == IF code \in {143, 137} THEN Timeout ELSE code

(* Slip: the trap is set in a subshell.                                     *)
CleanupNothing(s) == files' = files

(* The EXIT trap.                                                           *)
Cleanup(s) == files' = files \ {num[s]}

Report(s) ==
    /\ pc[s] = "report"
    /\ exit' = [exit EXCEPT ![s] = ExitCode(status[s])]
    /\ Cleanup(s)
    /\ Goes(s, "ended")
    /\ UNCHANGED <<num, cmd, status, dognum, dog, strangers, felled>>

(* SIGTERM or Ctrl-C, once the trap is set: the trap runs; the command and  *)
(* the watchdog go on.  Before it, and for SIGKILL: nothing runs.           *)
Abandons(s) ==
    /\ Goes(s, "killed")
    /\ UNCHANGED <<num, cmd, status, dognum, dog, exit, strangers, felled>>

Terminated(s) ==
    /\ pc[s] \in {"watchdog", "wait", "unwatch", "report"}
    /\ Cleanup(s) /\ Abandons(s)

Killed(s) ==
    /\ pc[s] \in {"pidfile", "watchdog", "wait", "unwatch", "report"}
    /\ files' = files /\ Abandons(s)

-----------------------------------------------------------------------------
(* The command and the watchdog.                                            *)

CommandEnds(s) ==
    /\ cmd[s] = "running"
    /\ \E code \in Statuses : Dies(s, code)
    /\ UNCHANGED <<pc, num, dognum, dog, exit, files, strangers, felled>>

(* Slip: no second signal.                                                  *)
WatchdogTermOnly(s) ==
    /\ dog[s] = "sleeping"
    /\ Signal(s, num[s], 143, [dog EXCEPT ![s] = "done"])
    /\ UNCHANGED <<pc, num, dognum, exit, files>>

(* The time is up.  Without such a process kill fails, and the watchdog     *)
(* ends.                                                                    *)
WatchdogTerm(s) ==
    /\ dog[s] = "sleeping"
    /\ Signal(s, num[s], 143, [dog EXCEPT ![s] = IF Free(num[s]) THEN "done" ELSE "grace"])
    /\ UNCHANGED <<pc, num, dognum, exit, files>>

(* Slip: SIGTERM again.                                                     *)
WatchdogKillSoftly(s) ==
    /\ dog[s] = "grace"
    /\ Signal(s, num[s], 143, [dog EXCEPT ![s] = "done"])
    /\ UNCHANGED <<pc, num, dognum, exit, files>>

(* Five seconds later.                                                      *)
WatchdogKill(s) ==
    /\ dog[s] = "grace"
    /\ Signal(s, num[s], 137, [dog EXCEPT ![s] = "done"])
    /\ UNCHANGED <<pc, num, dognum, exit, files>>

(* The other processes of the system.  Those with numbers that no shim knows*)
(* make no difference.                                                      *)
Stranger ==
    /\ \/ \E n \in Numbers \cap Known : Free(n) /\ strangers' = strangers \cup {n}
       \/ \E n \in strangers : strangers' = strangers \ {n}
    /\ UNCHANGED <<pc, num, cmd, status, dognum, dog, exit, files, felled>>

-----------------------------------------------------------------------------
Shim(s) ==
    \/ Launch(s) \/ WritePidFile(s) \/ StartWatchdog(s) \/ Wait(s)
    \/ StopWatchdog(s) \/ Report(s)

Watchdog(s) == WatchdogTerm(s) \/ WatchdogKill(s)

Next ==
    \/ \E s \in Shims :
          Shim(s) \/ Terminated(s) \/ Killed(s) \/ CommandEnds(s) \/ Watchdog(s)
    \/ Stranger

Spec == Init /\ [][Next]_vars

(* bash goes on, and `sleep' ends.  The command itself need never end.      *)
LiveSpec == Spec /\ \A s \in Shims : WF_vars(Shim(s)) /\ WF_vars(Watchdog(s))

-----------------------------------------------------------------------------
(* Properties.                                                              *)

(* The type of every variable of the model.                                 *)
TypeOK ==
    /\ pc \in [Shims -> {"launch", "pidfile", "watchdog", "wait", "unwatch", "report",
                         "ended", "killed"}]
    /\ num \in [Shims -> Numbers \cup {NoNumber}]
    /\ cmd \in [Shims -> {"none", "running", "gone"}]
    /\ status \in [Shims -> Statuses \cup {NoStatus}]
    /\ dognum \in [Shims -> Numbers \cup {NoNumber}]
    /\ dog \in [Shims -> {"none", "sleeping", "grace", "done", "hit"}]
    /\ exit \in [Shims -> Statuses \cup {NoStatus}]
    /\ files \subseteq Numbers /\ strangers \subseteq Numbers
    /\ felled \subseteq Shims

(* A command under watch has its PID file, and a shim that ended in order   *)
(* leaves none, however often others are killed: unless another shim was    *)
(* given the same number meanwhile.                                         *)
PidFiles ==
    \A s \in Shims :
        (\A t \in Shims \ {s} : num[t] # num[s]) =>
            /\ pc[s] \in {"watchdog", "wait", "unwatch", "report"} => num[s] \in files
            /\ pc[s] \in {"launch", "ended"} => num[s] \notin files

(* Shims that ended in order leave nothing behind, whatever numbers they had*)
(* and whoever was killed around them: no command, no watchdog, and a PID   *)
(* file only where some shim is still at work or was killed.                *)
NothingLeft ==
    /\ \A s \in Shims : pc[s] = "ended" => cmd[s] # "running" /\ ~Watching(s)
    /\ files \subseteq
          {num[s] : s \in {t \in Shims : pc[t] \notin {"launch", "pidfile", "ended"}}}

(* A command that a signal of exec.sh has ended, its own or a stray one of  *)
(* another shim, is reported as a timeout, whichever signal it was; any     *)
(* other one is reported with its own status, unless it ended as if killed. *)
TimeoutTold ==
    \A s \in Shims : exit[s] # NoStatus =>
        IF s \in felled THEN exit[s] = Timeout
        ELSE \/ exit[s] = status[s]
             \/ exit[s] = Timeout /\ status[s] \in {137, 143}

(* A command that is watched does not outlive its time and the five seconds,*)
(* not even if it ignores SIGTERM, and not even if its shim was killed:     *)
(* unless its watchdog was ended by a signal meant for another process.     *)
LimitKept ==
    \A s \in Shims :
        (cmd[s] = "running" /\ dog[s] # "none") ~> (cmd[s] # "running" \/ dog[s] = "hit")

(* A shim that reaches its wait ends, or is killed, with the same exception.*)
ShimsEnd ==
    \A s \in Shims : pc[s] = "wait" ~> (pc[s] \in {"ended", "killed"} \/ dog[s] = "hit")

(* A signal goes to the process that it is meant for.  (It does not always: *)
(* between the end of the command and the end of its watchdog the number may*)
(* be another's, as that of a watchdog that has ended by itself.)           *)
NobodyElseHit ==
    [][\A s \in Shims :
          /\ Watchdog(s) => Free(num[s]) \/ Holds(s, num[s])
          /\ StopWatchdog(s) => Free(dognum[s]) \/ Guards(s, dognum[s])]_vars
=============================================================================
