--------------------------- MODULE ExecShimProofs ---------------------------
(***************************************************************************)
(* Proofs about ExecShim, for any number of shims and of process numbers.   *)
(***************************************************************************)
EXTENDS ExecShim, TLAPS

DogStates == {"none", "sleeping", "grace", "done", "hit"}

(* Where the shim is tells what there is of the command and its watchdog:   *)
(* a shim that has waited has no command any more, and the watchdog is over *)
(* before the shim reports.                                                 *)
Line(s) ==
    /\ pc[s] = "launch" <=> num[s] = NoNumber
    /\ pc[s] = "launch" <=> cmd[s] = "none"
    /\ pc[s] \in {"launch", "pidfile", "watchdog"} => dog[s] = "none"
    /\ pc[s] \in {"report", "ended"} => ~Watching(s)
    /\ pc[s] \in {"pidfile", "watchdog", "wait"} => cmd[s] \in {"running", "gone"}
    /\ pc[s] \in {"unwatch", "report", "ended"} => cmd[s] = "gone"
    /\ exit[s] # NoStatus => pc[s] = "ended" /\ exit[s] = ExitCode(status[s])
    /\ s \in felled => cmd[s] = "gone" /\ status[s] \in {137, 143}

(* The number of a watchdog that is alive is nobody else's, so that the     *)
(* signal that shall end it does.                                           *)
Own(s) ==
    /\ cmd[s] = "running" => num[s] \notin strangers
    /\ Watching(s) =>
          /\ dognum[s] \notin strangers
          /\ \A t \in Shims : cmd[t] = "running" => num[t] # dognum[s]
          /\ \A t \in Shims \ {s} : Watching(t) => dognum[t] # dognum[s]

IInv == TypeOK /\ \A s \in Shims : Line(s) /\ Own(s)

(* What a command's death, by itself or by a signal, does to it, and that   *)
(* no other command notices.                                                *)
Fell(s, code) ==
    /\ cmd[s] = "running"
    /\ cmd' = [cmd EXCEPT ![s] = "gone"]
    /\ status' = [status EXCEPT ![s] = code]

NobodyFell == UNCHANGED <<cmd, status, felled>>

(* Where processes end, and none begins, numbers stay apart.                *)
LEMMA StaysOwn ==
    ASSUME IInv, UNCHANGED <<num, dognum>>, strangers' \subseteq strangers,
           \A t \in Shims : (cmd[t] = "running")' => cmd[t] = "running",
           \A t \in Shims : Watching(t)' => Watching(t)
    PROVE  \A t \in Shims : Own(t)'
  BY DEF IInv, Own

LEMMA EndingKeeps ==
    ASSUME IInv, UNCHANGED <<num, dognum, exit, files>>, strangers' \subseteq strangers,
           \/ pc' = pc
           \/ \E s \in Shims : /\ pc[s] = "unwatch" /\ pc' = [pc EXCEPT ![s] = "report"]
                               /\ ~Watching(s)',
           \/ NobodyFell
           \/ \E v \in Shims, code \in Statuses :
                 /\ Fell(v, code)
                 /\ felled' = felled \/ (felled' = felled \cup {v} /\ code \in {137, 143}),
           dog' \in [Shims -> DogStates],
           \A t \in Shims : dog[t] = "none" => dog'[t] = "none",
           \A t \in Shims : Watching(t)' => Watching(t)
    PROVE  IInv'
  <1>1. TypeOK'
    <2>1. /\ cmd' \in [Shims -> {"none", "running", "gone"}]
          /\ status' \in [Shims -> Statuses \cup {NoStatus}] /\ felled' \subseteq Shims
      BY DEF IInv, TypeOK, Fell, NobodyFell
    <2>2. pc' \in [Shims -> {"launch", "pidfile", "watchdog", "wait", "unwatch", "report",
                             "ended", "killed"}]
      BY DEF IInv, TypeOK
    <2> QED  BY <2>1, <2>2 DEF IInv, TypeOK, DogStates
  <1>2. ASSUME NEW t \in Shims PROVE Line(t)'
    <2>1. CASE pc' = pc
      BY <2>1 DEF IInv, TypeOK, Fell, NobodyFell, Line, ExitCode
    <2>2. CASE pc' # pc
      <3>1. PICK s \in Shims : /\ pc[s] = "unwatch" /\ pc' = [pc EXCEPT ![s] = "report"]
                               /\ ~Watching(s)'
        BY <2>2
      <3>2. CASE t = s
        BY <3>1, <3>2 DEF IInv, TypeOK, Fell, NobodyFell, Line, ExitCode
      <3>3. CASE t # s
        <4>1. pc'[t] = pc[t]  BY <3>1, <3>3 DEF IInv, TypeOK
        <4> QED  BY <4>1 DEF IInv, TypeOK, Fell, NobodyFell, Line, ExitCode
      <3> QED  BY <3>2, <3>3
    <2> QED  BY <2>1, <2>2
  <1>3. \A t \in Shims : (cmd[t] = "running")' => cmd[t] = "running"
    BY DEF IInv, TypeOK, Fell, NobodyFell
  <1>4. \A t \in Shims : Own(t)'  BY <1>3, StaysOwn
  <1> QED  BY <1>1, <1>2, <1>4 DEF IInv

(* What a signal can do, whomever it hits, from watchdogs as in `dogs'.     *)
Struck(dogs) ==
    /\ strangers' \subseteq strangers
    /\ \/ NobodyFell
       \/ \E v \in Shims, c \in {137, 143} : Fell(v, c) /\ felled' = felled \cup {v}
    /\ dog' \in [Shims -> DogStates]
    /\ \A t \in Shims : \/ dog'[t] = dogs[t]
                        \/ Watching(t) /\ dog'[t] \in {"done", "hit"}

LEMMA WatchdogKeeps ==
    ASSUME IInv, NEW s \in Shims, Watchdog(s)
    PROVE  IInv'
  <1>1. /\ Watching(s) /\ UNCHANGED <<pc, num, dognum, exit, files>>
        /\ \E d \in {"grace", "done"}, code \in {137, 143} :
              Signal(s, num[s], code, [dog EXCEPT ![s] = d])
    <2>1. CASE WatchdogTerm(s)
      BY <2>1, Zenon DEF WatchdogTerm, Watching
    <2>2. CASE WatchdogKill(s)
      BY <2>2 DEF WatchdogKill, Watching
    <2> QED  BY <2>1, <2>2 DEF Watchdog
  <1>2. PICK d \in {"grace", "done"}, code \in {137, 143} :
              Signal(s, num[s], code, [dog EXCEPT ![s] = d])
    BY <1>1
  <1> DEFINE dogs == [dog EXCEPT ![s] = d]
  <1>3. dogs \in [Shims -> DogStates]  BY DEF IInv, TypeOK, DogStates
  <1>4. /\ \A t \in Shims : dog[t] = "none" => dogs[t] = "none"
        /\ \A t \in Shims : dogs[t] \in {"sleeping", "grace"} => Watching(t)
    BY <1>1 DEF Watching, IInv, TypeOK
  <1> HIDE DEF dogs
  <1>5. Signal(s, num[s], code, dogs)  BY <1>2 DEF dogs
  <1>6. Struck(dogs)
    <2>1. CASE HitsNobody(num[s], code) /\ dog' = dogs
      BY <1>3, <2>1 DEF HitsNobody, NobodyFell, Struck
    <2>2. CASE HitsStranger(num[s]) /\ dog' = dogs
      BY <1>3, <2>2 DEF HitsStranger, NobodyFell, Struck
    <2>3. CASE HitsCommand(num[s], code) /\ dog' = dogs
      BY <1>3, <2>3 DEF HitsCommand, Holds, Dies, Fell, Struck
    <2>4. CASE \E v \in Shims :
                  /\ Guards(v, num[s])
                  /\ dog' = [dogs EXCEPT ![v] = IF v = s THEN "done" ELSE "hit"]
                  /\ UNCHANGED <<cmd, status, strangers, felled>>
      BY <1>3, <2>4 DEF Guards, NobodyFell, DogStates, Struck
    <2> QED  BY <1>5, <2>1, <2>2, <2>3, <2>4 DEF Signal
  <1>7. \A t \in Shims : dog[t] = "none" => dog'[t] = "none"
    BY <1>4, <1>6 DEF Watching, Struck
  <1>8. \A t \in Shims : Watching(t)' => Watching(t)
    BY <1>4, <1>6 DEF Watching, Struck
  <1> QED  BY <1>1, <1>6, <1>7, <1>8, EndingKeeps DEF Struck, Statuses

(* The signal that shall end the watchdog hits it, or it has ended before.  *)
LEMMA WatchdogStops ==
    ASSUME IInv, NEW s \in Shims, StopWatchdog(s)
    PROVE  IInv'
  <1>1. /\ pc[s] = "unwatch" /\ pc' = [pc EXCEPT ![s] = "report"]
        /\ UNCHANGED <<num, dognum, exit, files>> /\ Signal(s, dognum[s], 143, dog)
    BY DEF StopWatchdog, Goes
  <1>2. /\ dog \in [Shims -> DogStates] /\ s \in Shims
    BY DEF IInv, TypeOK, DogStates
  <1>3. Struck(dog)
    <2>1. CASE HitsNobody(dognum[s], 143) /\ dog' = dog
      BY <1>2, <2>1 DEF HitsNobody, NobodyFell, Struck
    <2>2. CASE HitsStranger(dognum[s]) /\ dog' = dog
      BY <1>2, <2>2 DEF HitsStranger, NobodyFell, Struck
    <2>3. CASE HitsCommand(dognum[s], 143) /\ dog' = dog
      BY <1>2, <2>3 DEF HitsCommand, Holds, Dies, Fell, Struck
    <2>4. CASE \E v \in Shims :
                  /\ Guards(v, dognum[s])
                  /\ dog' = [dog EXCEPT ![v] = IF v = s THEN "done" ELSE "hit"]
                  /\ UNCHANGED <<cmd, status, strangers, felled>>
      BY <1>2, <2>4 DEF Guards, NobodyFell, DogStates, Struck
    <2> QED  BY <1>1, <2>1, <2>2, <2>3, <2>4 DEF Signal
  <1>4. ~Watching(s)'
    <2>1. CASE ~Watching(s)
      BY <1>3, <2>1 DEF Watching, Struck
    <2>2. CASE Watching(s)
      <3>1. Own(s) /\ Guards(s, dognum[s])  BY <2>2 DEF IInv, Guards
      <3>2. ~HitsNobody(dognum[s], 143)  BY <3>1 DEF HitsNobody, Free
      <3>3. ~HitsStranger(dognum[s])  BY <2>2, <3>1 DEF HitsStranger, Own
      <3>4. ~HitsCommand(dognum[s], 143)  BY <2>2, <3>1 DEF HitsCommand, Own, Holds
      <3>5. PICK v \in Shims :
                /\ Guards(v, dognum[s])
                /\ dog' = [dog EXCEPT ![v] = IF v = s THEN "done" ELSE "hit"]
        BY <1>1, <3>2, <3>3, <3>4 DEF Signal
      <3>6. v = s  BY <2>2, <3>1, <3>5 DEF Own, Guards
      <3> QED  BY <1>2, <3>5, <3>6 DEF Watching
    <2> QED  BY <2>1, <2>2
  <1>5. \A t \in Shims : dog[t] = "none" => dog'[t] = "none"
    BY <1>3 DEF Watching, Struck
  <1>6. \A t \in Shims : Watching(t)' => Watching(t)
    BY <1>3 DEF Watching, Struck
  <1>7. \E t \in Shims : /\ pc[t] = "unwatch" /\ pc' = [pc EXCEPT ![t] = "report"]
                         /\ ~Watching(t)'
    BY <1>1, <1>4
  <1>8. \/ NobodyFell
        \/ \E v \in Shims, code \in Statuses :
              /\ Fell(v, code)
              /\ felled' = felled \/ (felled' = felled \cup {v} /\ code \in {137, 143})
    BY <1>3 DEF Struck, Statuses
  <1>9. strangers' \subseteq strangers /\ dog' \in [Shims -> DogStates]
    BY <1>3 DEF Struck
  <1> QED  BY <1>1, <1>5, <1>6, <1>7, <1>8, <1>9, EndingKeeps

LEMMA GivenFree == \A n \in Given : n \in Numbers /\ Free(n)
  BY DEF Given

LEMMA ShimKeeps ==
    ASSUME IInv, NEW s \in Shims, Shim(s)
    PROVE  IInv'
  <1> USE DEF IInv, TypeOK, Goes
  <1>1. CASE Launch(s)
    <2>1. PICK n \in Given : num' = [num EXCEPT ![s] = n]  BY <1>1 DEF Launch
    <2>2. n \in Numbers /\ Free(n)  BY GivenFree
    <2>3. TypeOK'  BY <1>1, <2>1, <2>2 DEF Launch
    <2>4. ASSUME NEW t \in Shims PROVE Line(t)'
      BY <1>1, <2>1, <2>2, NumberAssumption DEF Launch, Line, Watching
    <2>5. ASSUME NEW t \in Shims PROVE Own(t)'
      BY <1>1, <2>1, <2>2 DEF Launch, Own, Watching, Free, Holds, Guards
    <2> QED  BY <2>3, <2>4, <2>5
  <1>2. CASE WritePidFile(s)
    <2>1. num[s] \in Numbers  BY <1>2 DEF WritePidFile, Line
    <2>2. TypeOK'  BY <1>2, <2>1 DEF WritePidFile
    <2>3. ASSUME NEW t \in Shims PROVE Line(t)'
      BY <1>2 DEF WritePidFile, Line, Watching
    <2>4. \A t \in Shims : Own(t)'
      BY <1>2, StaysOwn DEF WritePidFile, Watching
    <2> QED  BY <2>2, <2>3, <2>4
  <1>3. CASE StartWatchdog(s)
    <2>1. PICK n \in Given : dognum' = [dognum EXCEPT ![s] = n]  BY <1>3 DEF StartWatchdog
    <2>2. n \in Numbers /\ Free(n)  BY GivenFree
    <2>3. TypeOK'  BY <1>3, <2>1, <2>2 DEF StartWatchdog
    <2>4. ASSUME NEW t \in Shims PROVE Line(t)'
      BY <1>3 DEF StartWatchdog, Line, Watching
    <2>5. ASSUME NEW t \in Shims PROVE Own(t)'
      <3>1. UNCHANGED <<cmd, num, strangers>> /\ dog' = [dog EXCEPT ![s] = "sleeping"]
        BY <1>3 DEF StartWatchdog
      <3>2. CASE t = s
        BY <2>1, <2>2, <3>1, <3>2 DEF Own, Watching, Free, Holds, Guards
      <3>3. CASE t # s
        BY <2>1, <2>2, <3>1, <3>3 DEF Own, Watching, Free, Holds, Guards
      <3> QED  BY <3>2, <3>3
    <2> QED  BY <2>3, <2>4, <2>5
  <1>4. CASE Wait(s)
    <2>1. TypeOK'  BY <1>4 DEF Wait
    <2>2. ASSUME NEW t \in Shims PROVE Line(t)'  BY <1>4 DEF Wait, Line, Watching
    <2>3. \A t \in Shims : Own(t)'  BY <1>4, StaysOwn DEF Wait, Watching
    <2> QED  BY <2>1, <2>2, <2>3
  <1>5. CASE StopWatchdog(s)
    BY <1>5, WatchdogStops
  <1>6. CASE Report(s)
    <2>1. TypeOK'  BY <1>6 DEF Report, Cleanup, ExitCode, Statuses, Timeout
    <2>2. ASSUME NEW t \in Shims PROVE Line(t)'  BY <1>6 DEF Report, Line, Watching
    <2>3. \A t \in Shims : Own(t)'  BY <1>6, StaysOwn DEF Report, Watching
    <2> QED  BY <2>1, <2>2, <2>3
  <1> QED  BY <1>1, <1>2, <1>3, <1>4, <1>5, <1>6 DEF Shim

LEMMA AroundKeeps ==
    ASSUME IInv, NEW s \in Shims, Terminated(s) \/ Killed(s) \/ CommandEnds(s)
    PROVE  IInv'
  <1>1. CASE Terminated(s) \/ Killed(s)
    <2>1. Abandons(s) /\ files' \subseteq Numbers /\ pc[s] # "launch" /\ pc[s] # "ended"
      BY <1>1 DEF Terminated, Killed, Cleanup, IInv, TypeOK
    <2>2. TypeOK'  BY <2>1 DEF Abandons, Goes, IInv, TypeOK
    <2>3. ASSUME NEW t \in Shims PROVE Line(t)'
      BY <2>1 DEF Abandons, Goes, IInv, TypeOK, Line, Watching
    <2>4. \A t \in Shims : Own(t)'  BY <2>1, StaysOwn DEF Abandons, Watching
    <2> QED  BY <2>2, <2>3, <2>4 DEF IInv
  <1>2. CASE CommandEnds(s)
    <2>1. PICK code \in Statuses : Fell(s, code)
      BY <1>2 DEF CommandEnds, Dies, Fell
    <2>2. dog \in [Shims -> DogStates]  BY DEF IInv, TypeOK, DogStates
    <2>3. /\ UNCHANGED <<pc, num, dognum, dog, exit, files, strangers, felled>>
          /\ \A t \in Shims : Watching(t)' => Watching(t)
      BY <1>2 DEF CommandEnds, Watching
    <2> QED  BY <2>1, <2>2, <2>3, EndingKeeps
  <1> QED  BY <1>1, <1>2

LEMMA StrangerKeeps ==
    ASSUME IInv, Stranger
    PROVE  IInv'
  <1>1. UNCHANGED <<pc, num, cmd, status, dognum, dog, exit, files, felled>>
    BY DEF Stranger
  <1>2. \E n \in Numbers : \/ Free(n) /\ strangers' = strangers \cup {n}
                           \/ strangers' = strangers \ {n}
    BY DEF Stranger, IInv, TypeOK
  <1>3. TypeOK'  BY <1>1, <1>2 DEF IInv, TypeOK
  <1>4. ASSUME NEW t \in Shims PROVE Line(t)'  BY <1>1 DEF IInv, Line, Watching
  <1>5. ASSUME NEW t \in Shims PROVE Own(t)'
    BY <1>1, <1>2 DEF IInv, Own, Watching, Free, Holds, Guards
  <1> QED  BY <1>3, <1>4, <1>5 DEF IInv

(* The line of every shim agrees with the state of its command, its number  *)
(* and its watchdog (exec.sh).                                              *)
THEOREM ControlCorrect == Spec => []IInv
  <1>1. Init => IInv
    BY NumberAssumption DEF Init, IInv, TypeOK, Line, Own, Watching
  <1>2. IInv /\ [Next]_vars => IInv'
    <2> SUFFICES ASSUME IInv, [Next]_vars PROVE IInv'  OBVIOUS
    <2>1. CASE \E s \in Shims : Shim(s) \/ Watchdog(s)
      BY <2>1, ShimKeeps, WatchdogKeeps
    <2>2. CASE \E s \in Shims : Terminated(s) \/ Killed(s) \/ CommandEnds(s)
      BY <2>2, AroundKeeps
    <2>3. CASE Stranger
      BY <2>3, StrangerKeeps
    <2>4. CASE UNCHANGED vars
      BY <2>4 DEF vars, IInv, TypeOK, Line, Own, Watching, Known
    <2> QED  BY <2>1, <2>2, <2>3, <2>4 DEF Next
  <1> QED  BY <1>1, <1>2, PTL DEF Spec

(* The types hold.                                                          *)
THEOREM TypeCorrect == Spec => []TypeOK
  BY ControlCorrect, PTL DEF IInv

(* A command that a signal of exec.sh has ended is reported as a timeout,   *)
(* and any other one with its own status or as killed.                      *)
THEOREM TimeoutsAreTold == Spec => []TimeoutTold
  <1>1. IInv => TimeoutTold
    BY DEF IInv, TypeOK, Line, TimeoutTold, ExitCode, Timeout, Statuses, NoStatus
  <1> QED  BY <1>1, ControlCorrect, PTL

(* The shims that may have left a PID file.                                 *)
Filed == {t \in Shims : pc[t] \notin {"launch", "pidfile", "ended"}}

(* A shim that ended in order has left no command, no watchdog and no PID   *)
(* file, whatever numbers were given and whoever was killed.                *)
THEOREM NothingIsLeft == Spec => []NothingLeft
  <1> DEFINE Files == files \subseteq {num[s] : s \in Filed}
  <1>1. Init => Files
    BY DEF Init
  <1>2. IInv /\ Files /\ [Next]_vars => Files'
    <2> SUFFICES ASSUME IInv, Files, [Next]_vars,
                        NEW f, f \in files'
                 PROVE  \E t \in Shims : t \in Filed' /\ f = num'[t]
      BY DEF Filed
    <2> USE DEF Filed
    <2>1. CASE UNCHANGED <<pc, num, files>>
      BY <2>1
    <2>2. CASE \E s \in Shims : WritePidFile(s)
      BY <2>2 DEF WritePidFile, Goes, IInv, TypeOK
    <2>3. CASE \E s \in Shims : Report(s) \/ Terminated(s)
      BY <2>3 DEF Report, Terminated, Abandons, Cleanup, Goes, IInv, TypeOK
    <2>4. CASE \E s \in Shims : StartWatchdog(s) \/ Wait(s) \/ StopWatchdog(s) \/ Killed(s)
      <3>1. UNCHANGED <<num, files>> /\ Filed \subseteq Filed'
        BY <2>4 DEF StartWatchdog, Wait, StopWatchdog, Killed, Abandons, Goes, IInv, TypeOK
      <3> QED  BY <3>1
    <2>5. CASE \E s \in Shims : Launch(s)
      BY <2>5 DEF Launch, Goes, IInv, TypeOK
    <2>6. CASE (\E s \in Shims : CommandEnds(s) \/ Watchdog(s)) \/ Stranger \/ UNCHANGED vars
      BY <2>1, <2>6 DEF CommandEnds, Watchdog, WatchdogTerm, WatchdogKill, Stranger, vars
    <2> QED  BY <2>2, <2>3, <2>4, <2>5, <2>6 DEF Next, Shim
  <1>3. IInv /\ Files => NothingLeft
    BY DEF IInv, TypeOK, Line, NothingLeft, Filed
  <1> QED  BY <1>1, <1>2, <1>3, ControlCorrect, PTL DEF Spec

(* A command under watch has its PID file, and none is left after an orderly*)
(* end, unless the number was given to another shim.                        *)
THEOREM FilesTrackCommands == Spec => []PidFiles
  <1>1. Init => PidFiles
    BY DEF Init, PidFiles
  <1>2. IInv /\ IInv' /\ PidFiles /\ [Next]_vars => PidFiles'
    <2> SUFFICES ASSUME IInv, IInv', PidFiles, [Next]_vars,
                        NEW s \in Shims, \A t \in Shims \ {s} : num'[t] # num'[s]
                 PROVE  /\ pc'[s] \in {"watchdog", "wait", "unwatch", "report"}
                              => num'[s] \in files'
                        /\ pc'[s] \in {"launch", "ended"} => num'[s] \notin files'
      BY DEF PidFiles
    <2>1. CASE UNCHANGED <<pc, num, files>>
      BY <2>1 DEF PidFiles
    <2>2. CASE pc'[s] = "launch"
      BY <2>2, NumberAssumption DEF IInv, TypeOK, Line
    <2>3. CASE pc[s] = "launch" /\ pc'[s] # "launch"
      <3>1. \/ pc' = pc \/ \E t \in Shims : pc[t] # "launch" /\ pc' = [pc EXCEPT ![t] = pc'[t]]
            \/ \E t \in Shims : pc' = [pc EXCEPT ![t] = "pidfile"]
        <4>1. CASE \E t \in Shims : Shim(t)
          BY <4>1 DEF Shim, Launch, WritePidFile, StartWatchdog, Wait, StopWatchdog,
             Report, Goes, IInv, TypeOK
        <4>2. CASE \E t \in Shims : Terminated(t) \/ Killed(t)
          BY <4>2 DEF Terminated, Killed, Abandons, Goes, IInv, TypeOK
        <4>3. CASE (\E t \in Shims : CommandEnds(t) \/ Watchdog(t)) \/ Stranger \/ UNCHANGED vars
          BY <4>3 DEF CommandEnds, Watchdog, WatchdogTerm, WatchdogKill, Stranger, vars
        <4> QED  BY <4>1, <4>2, <4>3 DEF Next
      <3>2. pc'[s] \in {"launch", "pidfile"}
        BY <2>3, <3>1 DEF IInv, TypeOK
      <3> QED  BY <2>3, <3>2
    <2>4. CASE pc[s] # "launch" /\ pc'[s] # "launch"
      <3>1. ASSUME NEW t \in Shims, pc' = [pc EXCEPT ![t] = pc'[t]],
                   num' = num \/ (pc[t] = "launch" /\ num' = [num EXCEPT ![t] = num'[t]])
            PROVE  /\ \A u \in Shims \ {s} : num[u] # num[s]
                   /\ num'[s] = num[s] /\ (t # s => num[t] # num[s] /\ pc'[s] = pc[s])
        BY <2>4, <3>1 DEF IInv, TypeOK, Line
      <3>2. ASSUME NEW t \in Shims, Shim(t) \/ Terminated(t) \/ Killed(t)
            PROVE  /\ pc' = [pc EXCEPT ![t] = pc'[t]]
                   /\ num' = num \/ (pc[t] = "launch" /\ num' = [num EXCEPT ![t] = num'[t]])
        BY <3>2 DEF Shim, Launch, WritePidFile, StartWatchdog, Wait, StopWatchdog,
           Report, Terminated, Killed, Abandons, Goes, IInv, TypeOK
      <3>3. ASSUME NEW t \in Shims, Shim(t) \/ Terminated(t) \/ Killed(t)
            PROVE  /\ files \ {num[t]} \subseteq files'
                   /\ files' \subseteq files \cup {num[t]}
                   /\ pc'[t] \in {"watchdog", "wait", "unwatch", "report"} =>
                         num[t] \in files' \/ (files' = files
                            /\ pc[t] \in {"watchdog", "wait", "unwatch", "report"})
                   /\ pc'[t] = "ended" => num[t] \notin files'
        BY <3>3 DEF Shim, Launch, WritePidFile, StartWatchdog, Wait, StopWatchdog,
           Report, Cleanup, Terminated, Killed, Abandons, Goes, IInv, TypeOK
      <3>4. CASE \E t \in Shims : Shim(t) \/ Terminated(t) \/ Killed(t)
        <4>1. PICK t \in Shims : Shim(t) \/ Terminated(t) \/ Killed(t)  BY <3>4
        <4>2. /\ \A u \in Shims \ {s} : num[u] # num[s]
              /\ num'[s] = num[s] /\ (t # s => num[t] # num[s] /\ pc'[s] = pc[s])
          BY <3>1, <3>2, <4>1
        <4>3. CASE t = s
          <5>1. /\ pc[s] \in {"watchdog", "wait", "unwatch", "report"} => num[s] \in files
                /\ num'[s] = num[s]
            BY <4>2 DEF PidFiles
          <5>2. /\ pc'[s] \in {"watchdog", "wait", "unwatch", "report"} =>
                      num[s] \in files' \/ (files' = files
                         /\ pc[s] \in {"watchdog", "wait", "unwatch", "report"})
                /\ pc'[s] = "ended" => num[s] \notin files'
            BY <3>3, <4>1, <4>3
          <5> QED  BY <2>4, <5>1, <5>2
        <4>4. CASE t # s  BY <3>3, <4>1, <4>2, <4>4 DEF PidFiles
        <4> QED  BY <4>3, <4>4
      <3>5. CASE \E t \in Shims : CommandEnds(t) \/ Watchdog(t)
        BY <2>1, <3>5 DEF CommandEnds, Watchdog, WatchdogTerm, WatchdogKill
      <3>6. CASE Stranger \/ UNCHANGED vars
        BY <2>1, <3>6 DEF Stranger, vars
      <3> QED  BY <3>4, <3>5, <3>6 DEF Next
    <2> QED  BY <2>2, <2>3, <2>4
  <1> QED  BY <1>1, <1>2, ControlCorrect, PTL DEF Spec
=============================================================================
