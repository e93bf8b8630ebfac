---------------------------- MODULE DoctorProofs ----------------------------
(***************************************************************************)
(* Proofs about Doctor: its types, that no line of the report is false, that*)
(* the verdict is what the world was like and that the first backend of the *)
(* chain is picked, for every call, platform, world and number of changes.  *)
(* The checks of a call do not change during it.  Types and lines need only *)
(* that they are a sequence of checks of one to three questions; verdict and*)
(* selection also which checks there are (Elements).                        *)
(***************************************************************************)
EXTENDS Doctor, SequenceTheorems, TLAPS

Parts == {"verdict", "list", "select", "info"}
Names == Backends \cup {"tools", "agent", "helper", "socket", "setting", "engine",
                           "image", "workspace", "jlink", "gdbserver"}
ChecksOf ==
    {c \in [part : Parts, of : Names, asks : Seq(Questions)] : Len(c.asks) \in 1..3}

ACall == call \in Calls /\ platform \in Platforms

LEMMA ProbeQuestions ==
    ASSUME NEW b
    PROVE  Probe(b) \in Seq(Questions) /\ Len(Probe(b)) \in 1..3
  <1>1. CASE b = "podman-machine-hyperv"
    <2> DEFINE h == IF platform = "win32" THEN "hyperv" ELSE "never"
    <2>1. h \in Questions  BY DEF Questions
    <2> HIDE DEF h
    <2>2. <<"podman", h, "machine">> \in Seq(Questions)
             /\ Len(<<"podman", h, "machine">>) = 3
        BY <2>1 DEF Questions
    <2> QED  BY <1>1, <2>2 DEF Probe, h
  <1>2. CASE b \in {"docker-desktop", "podman-machine"}
    <2>1. Probe(b) = <<"docker", "wsl2">> \/ Probe(b) = <<"podman", "machine">>
      BY <1>2 DEF Probe
    <2>2. <<"docker", "wsl2">> \in Seq(Questions) /\ <<"podman", "machine">> \in Seq(Questions)
      BY DEF Questions
    <2>3. Len(<<"docker", "wsl2">>) \in 1..3 /\ Len(<<"podman", "machine">>) \in 1..3
      OBVIOUS
    <2> QED  BY <2>1, <2>2, <2>3, Zenon
  <1>3. CASE b \notin {"podman-machine-hyperv", "docker-desktop", "podman-machine"}
    BY <1>3 DEF Probe, Questions
  <1> QED  BY <1>1, <1>2, <1>3

LEMMA ProbeCheck ==
    ASSUME NEW p \in Parts, NEW b \in Names
    PROVE  Check(p, b, Probe(b)) \in ChecksOf
  BY ProbeQuestions DEF Check, ChecksOf

LEMMA DetectAllChecks ==
    ASSUME NEW p \in Parts
    PROVE  DetectAll(p) \in Seq(ChecksOf)
  <1>1. Chain[1] \in Names /\ Chain[2] \in Names  BY DEF Chain, Names, Backends
  <1> DEFINE c1 == Check(p, Chain[1], Probe(Chain[1]))
             c2 == Check(p, Chain[2], Probe(Chain[2]))
  <1>2. c1 \in ChecksOf /\ c2 \in ChecksOf  BY <1>1, ProbeCheck
  <1>3. DetectAll(p) = <<c1, c2>>  BY DEF DetectAll
  <1> HIDE DEF c1, c2
  <1> QED  BY <1>2, <1>3

LEMMA Joined ==
    ASSUME NEW S, NEW s \in Seq(S), NEW t \in Seq(S)
    PROVE  s \o t \in Seq(S)
  BY ConcatProperties

LEMMA SelectingChecks ==
    ASSUME NEW p
    PROVE  Selecting(p) \in Seq(ChecksOf)
  <1>1. DetectAll("select") \in Seq(ChecksOf)  BY DetectAllChecks DEF Parts
  <1> DEFINE c == Check("select", p, Probe(p))
  <1>2. ASSUME p \in Backends PROVE <<c>> \in Seq(ChecksOf)
    <2>1. c \in ChecksOf  BY <1>2, ProbeCheck DEF Parts, Names
    <2> HIDE DEF c
    <2> QED  BY <2>1
  <1>3. <<>> \in Seq(ChecksOf)  OBVIOUS
  <1> QED  BY <1>1, <1>2, <1>3, Joined DEF Selecting

LEMMA CredentialsChecks == Credentials \in Seq(ChecksOf)
  <1> DEFINE agent   == Check("info", "agent", <<"agent">>)
             helper  == Check("info", "helper", <<"helper">>)
             socket  == Check("info", "socket", <<"agent">>)
             setting == Check("info", "setting", <<"helper">>)
  <1>1. {agent, helper, socket, setting} \subseteq ChecksOf
    BY DEF Check, ChecksOf, Questions, Parts, Names
  <1>2. Credentials \in {<<agent, helper, socket, setting>>, <<agent>>, <<helper>>, <<>>}
    BY DEF Credentials
  <1> HIDE DEF agent, helper, socket, setting
  <1>3. <<agent, helper, socket, setting>> \in Seq(ChecksOf)  BY <1>1
  <1>4. {<<agent>>, <<helper>>, <<>>} \subseteq Seq(ChecksOf)  BY <1>1
  <1> QED  BY <1>2, <1>3, <1>4

LEMMA JLinkChecks == JLink \in Seq(ChecksOf)
  <1>1. Check("info", "jlink", <<"jlink">>) \in ChecksOf
        /\ Check("info", "gdbserver", <<"gdbserver">>) \in ChecksOf
    BY DEF Check, ChecksOf, Questions, Parts, Names
  <1>2. <<Check("info", "jlink", <<"jlink">>)>> \in Seq(ChecksOf)
        /\ <<Check("info", "gdbserver", <<"gdbserver">>)>> \in Seq(ChecksOf)
        /\ <<>> \in Seq(ChecksOf)
    BY <1>1
  <1> QED  BY <1>2, Joined DEF JLink

LEMMA ContainerChecksChecks == ContainerChecks \in Seq(ChecksOf)
  <1> DEFINE e == If(~call.engine, "never") \o <<"client">> \o If(~call.image, "never")
             w == If(~call.engine \/ ~call.image, "never") \o <<"workspace">>
                     \o If(call.dotted, "never")
  <1>1. \A c \in BOOLEAN : If(c, "never") \in Seq(Questions) /\ Len(If(c, "never")) \in 0..1
    <2> TAKE c \in BOOLEAN
    <2>1. CASE c = TRUE
      <3>1. If(c, "never") = <<"never">>  BY <2>1 DEF If
      <3>2. <<"never">> \in Seq(Questions) /\ Len(<<"never">>) \in 0..1  BY DEF Questions
      <3> QED  BY <3>1, <3>2, Zenon
    <2>2. CASE c = FALSE
      <3>1. If(c, "never") = <<>>  BY <2>2 DEF If
      <3>2. <<>> \in Seq(Questions) /\ Len(<<>>) \in 0..1  OBVIOUS
      <3> QED  BY <3>1, <3>2, Zenon
    <2> QED  BY <2>1, <2>2
  <1>2. \A a, b \in BOOLEAN, q \in Questions :
            LET s == If(a, "never") \o <<q>> \o If(b, "never")
            IN  s \in Seq(Questions) /\ Len(s) \in 1..3
    <2> TAKE a, b \in BOOLEAN, q \in Questions
    <2>1. <<q>> \in Seq(Questions) /\ Len(<<q>>) = 1  OBVIOUS
    <2>2. If(a, "never") \o <<q>> \in Seq(Questions)
          /\ Len(If(a, "never") \o <<q>>) = Len(If(a, "never")) + 1
        BY <1>1, <2>1, ConcatProperties
    <2> DEFINE s == If(a, "never") \o <<q>> \o If(b, "never")
               m == Len(If(a, "never"))
               n == Len(If(b, "never"))
    <2>3. s \in Seq(Questions) /\ Len(s) = m + 1 + n
        BY <1>1, <2>2, ConcatProperties
    <2>4. m \in 0..1 /\ n \in 0..1  BY <1>1
    <2>5. Len(s) \in 1..3
      <3> HIDE DEF s, m, n
      <3> QED  BY <2>3, <2>4
    <2> QED  BY <2>3, <2>5
  <1>3. e \in Seq(Questions) /\ Len(e) \in 1..3
    <2>1. e = If((~call.engine) = TRUE, "never") \o <<"client">>
                 \o If((~call.image) = TRUE, "never")
        BY DEF If
    <2> QED  BY <1>2, <2>1 DEF Questions
  <1>4. w \in Seq(Questions) /\ Len(w) \in 1..3
    <2>1. w = If((~call.engine \/ ~call.image) = TRUE, "never") \o <<"workspace">>
                 \o If(call.dotted = TRUE, "never")
        BY DEF If
    <2> QED  BY <1>2, <2>1 DEF Questions
  <1>5. Check("info", "image", <<"image">>) \in ChecksOf
    BY DEF Check, ChecksOf, Questions, Parts, Names
  <1>6. Check("verdict", "engine", e) \in ChecksOf
        /\ Check("verdict", "workspace", w) \in ChecksOf
    BY <1>3, <1>4 DEF Check, ChecksOf, Parts, Names
  <1> QED  BY <1>5, <1>6 DEF ContainerChecks

(* Whatever is called, it is a sequence of checks of one to three questions.*)
LEMMA ChecksType == ASSUME ACall PROVE Checks \in Seq(ChecksOf)
  <1>1. DetectAll("list") \in Seq(ChecksOf)  BY DetectAllChecks DEF Parts
  <1>2. Selecting(call.preferred) \in Seq(ChecksOf) /\ Selecting("auto") \in Seq(ChecksOf)
    BY SelectingChecks
  <1>3. Check("verdict", "tools", <<"tools">>) \in ChecksOf
    BY DEF Check, ChecksOf, Questions, Parts, Names
  <1>4. <<Check("verdict", "tools", <<"tools">>)>> \in Seq(ChecksOf)  BY <1>3
  <1>5. (IF call.container THEN ContainerChecks ELSE <<>>) \in Seq(ChecksOf)
    BY ContainerChecksChecks
  <1>6. <<Check("verdict", "tools", <<"tools">>)>> \o DetectAll("list") \in Seq(ChecksOf)
    BY <1>1, <1>4, Joined
  <1>7. <<Check("verdict", "tools", <<"tools">>)>> \o DetectAll("list")
            \o Selecting("auto") \in Seq(ChecksOf)
    BY <1>2, <1>6, Joined
  <1>8. <<Check("verdict", "tools", <<"tools">>)>> \o DetectAll("list")
            \o Selecting("auto") \o Credentials \in Seq(ChecksOf)
    BY <1>7, CredentialsChecks, Joined
  <1>9. <<Check("verdict", "tools", <<"tools">>)>> \o DetectAll("list")
            \o Selecting("auto") \o Credentials \o JLink \in Seq(ChecksOf)
    BY <1>8, JLinkChecks, Joined
  <1>10. <<Check("verdict", "tools", <<"tools">>)>> \o DetectAll("list")
            \o Selecting("auto") \o Credentials \o JLink
            \o (IF call.container THEN ContainerChecks ELSE <<>>) \in Seq(ChecksOf)
    BY <1>5, <1>9, Joined
  <1> QED  BY <1>2, <1>10 DEF Checks

LEMMA ChecksStay ==
    ASSUME platform' = platform, call' = call
    PROVE  Checks' = Checks
  BY DEF Checks, Selecting, DetectAll, Credentials, JLink, ContainerChecks, Chain, Probe,
         InChain

(* What is used of the checks: their questions are questions.               *)
LEMMA QuestionsAsked ==
    ASSUME ACall, NEW i \in DOMAIN Checks
    PROVE  /\ DOMAIN Checks = 1..Len(Checks) /\ Len(Checks) \in Nat
           /\ Checks[i].asks \in Seq(Questions)
           /\ DOMAIN Checks[i].asks = 1..Len(Checks[i].asks)
           /\ Len(Checks[i].asks) \in 1..3
           /\ \A k \in DOMAIN Checks[i].asks : Checks[i].asks[k] \in Questions
  <1>1. Checks \in Seq(ChecksOf)  BY ChecksType
  <1>2. Checks[i] \in ChecksOf  BY <1>1
  <1>3. Checks[i].asks \in Seq(Questions) /\ Len(Checks[i].asks) \in 1..3
    BY <1>2 DEF ChecksOf
  <1> QED  BY <1>1, <1>3

-----------------------------------------------------------------------------
(* The types hold: in particular no check is asked beyond its questions.    *)
THEOREM TypeCorrect == Spec => []TypeOK
  <1>1. Init => TypeOK
    <2> SUFFICES ASSUME Init PROVE TypeOK  OBVIOUS
    <2> USE DEF Init
    <2>1. ACall /\ world \in [Questions -> Answers]  BY StartsAssumption DEF ACall
    <2>2. Len(Checks) \in Nat  BY <2>1, ChecksType
    <2>3. Running => 1 \in DOMAIN AtHand.asks
      <3> SUFFICES ASSUME Running PROVE 1 \in DOMAIN AtHand.asks  OBVIOUS
      <3>1. 1 \in DOMAIN Checks  BY <2>1, <2>2, ChecksType DEF Running
      <3> QED  BY <2>1, <3>1, QuestionsAsked DEF AtHand
    <2>4. 0 \in 0..MaxChanges[call]  BY MaxChangesAssumption
    <2> QED  BY <2>1, <2>2, <2>3, <2>4 DEF TypeOK
  <1>2. TypeOK /\ [Next]_vars => TypeOK'
    <2> SUFFICES ASSUME TypeOK, [Next]_vars PROVE TypeOK'  OBVIOUS
    <2> USE DEF TypeOK
    <2>1. ACall /\ Len(Checks) \in Nat /\ DOMAIN Checks = 1..Len(Checks)
      BY ChecksType DEF ACall
    <2>2. UNCHANGED <<platform, call>>
      BY DEF Next, Answered, Skip, Yes, No, WorldChanges, Halted, vars
    <2>3. Checks' = Checks  BY <2>2, ChecksStay
    <2>4. ASSUME Running, NextCheck
          PROVE  /\ at' \in 1..(Len(Checks') + 1) /\ asking' \in 1..3
                 /\ Running' => asking' \in DOMAIN AtHand'.asks
      <3>1. at' \in 1..(Len(Checks) + 1) /\ asking' = 1  BY <2>1, <2>4 DEF Running, NextCheck
      <3>2. ASSUME Running' PROVE 1 \in DOMAIN AtHand'.asks
        <4>1. at' \in DOMAIN Checks  BY <2>1, <2>3, <3>1, <3>2 DEF Running
        <4> QED  BY <2>1, <2>3, <4>1, QuestionsAsked DEF AtHand
      <3> QED  BY <2>3, <3>1, <3>2
    <2>5. CASE Skip
      BY <2>2, <2>4, <2>5 DEF Skip, NextCheck
    <2>6. CASE Yes
      <3>1. Running /\ at \in DOMAIN Checks  BY <2>1, <2>6 DEF Yes, Running
      <3>2. AtHand.asks \in Seq(Questions) /\ Len(AtHand.asks) \in 1..3
            /\ DOMAIN AtHand.asks = 1..Len(AtHand.asks)
        BY <2>1, <3>1, QuestionsAsked DEF AtHand
      <3>3. CASE asking < Len(AtHand.asks)
        <4>1. UNCHANGED <<at, good>> /\ asking' = asking + 1  BY <2>6, <3>3 DEF Yes
        <4>2. AtHand' = AtHand  BY <2>3, <4>1 DEF AtHand
        <4>3. asking + 1 \in 1..3 /\ asking + 1 \in 1..Len(AtHand.asks)
          <5> DEFINE n == Len(AtHand.asks)
          <5>1. n \in 1..3 /\ asking < n /\ asking \in 1..3  BY <3>2, <3>3
          <5> HIDE DEF n, TypeOK
          <5>2. asking + 1 \in 1..3 /\ asking + 1 \in 1..n  BY <5>1
          <5> QED  BY <5>2 DEF n
        <4>4. asking' \in 1..3 /\ asking' \in DOMAIN AtHand'.asks
          BY <3>2, <4>1, <4>2, <4>3
        <4> QED  BY <2>2, <2>3, <2>6, <4>1, <4>4 DEF Yes
      <3>4. CASE ~(asking < Len(AtHand.asks))
        <4>1. NextCheck /\ good' = good \cup {at} /\ UNCHANGED skipped
          BY <2>6, <3>4 DEF Yes
        <4>2. good' \subseteq 1..(at' - 1) /\ skipped' \subseteq 1..(at' - 1) \ good'
          <5>1. at \in Nat \ {0} /\ good \subseteq 1..(at - 1)
                /\ skipped \subseteq 1..(at - 1) \ good
            BY <2>1, <3>1
          <5>2. at' = at + 1  BY <4>1 DEF NextCheck
          <5> HIDE DEF TypeOK
          <5>3. 1..(at' - 1) = 1..(at - 1) \cup {at}
            <6>1. at' - 1 = at  BY <5>1, <5>2
            <6>2. 1..at = 1..(at - 1) \cup {at}
              <7>1. \A n \in Nat \ {0} : 1..n = 1..(n - 1) \cup {n}  OBVIOUS
              <7> QED  BY <5>1, <7>1
            <6> QED  BY <6>1, <6>2
          <5>4. at \notin 1..(at - 1)  BY <5>1
          <5> QED  BY <4>1, <5>1, <5>3, <5>4
        <4> QED  BY <2>2, <2>4, <2>6, <3>1, <4>1, <4>2 DEF Yes
      <3> QED  BY <3>3, <3>4
    <2>7. CASE No
      BY <2>2, <2>4, <2>7 DEF No, NextCheck
    <2>8. CASE WorldChanges
      <3>1. Running' = Running /\ AtHand' = AtHand
        BY <2>3, <2>8 DEF WorldChanges, report, Running, AtHand
      <3>2. \A q \in Asked : q \in Questions
        BY <2>1, QuestionsAsked DEF Asked
      <3>3. world' \in [Questions -> Answers] /\ held' \subseteq Questions
            /\ missed' \subseteq Questions
        BY <2>8, <3>2 DEF WorldChanges
      <3>4. changes' \in 0..MaxChanges[call]
        BY <2>8, MaxChangesAssumption DEF WorldChanges
      <3>5. UNCHANGED report  BY <2>8 DEF WorldChanges
      <3> HIDE DEF TypeOK
      <3> QED  BY <2>2, <2>3, <3>1, <3>3, <3>4, <3>5 DEF TypeOK, report
    <2>9. CASE UNCHANGED vars
      BY <2>2, <2>3, <2>9 DEF vars, report, Running, AtHand
    <2> QED  BY <2>5, <2>6, <2>7, <2>8, <2>9 DEF Next, Answered, Halted
  <1> QED  BY <1>1, <1>2, PTL DEF Spec

(* Of every check that was made: all that a good one asks for had the answer*)
(* yes at some moment, and something that any other one asks for had not.   *)
ChecksSeen ==
    \A i \in 1..(at - 1) \ skipped :
        LET asks == {Checks[i].asks[k] : k \in DOMAIN Checks[i].asks}
        IN  IF i \in good THEN asks \subseteq held ELSE asks \cap missed # {}

(* What is behind it: the questions of the check at hand that were asked had*)
(* the answer yes, and the answers of now are among those seen.             *)
Seen ==
    /\ ChecksSeen
    /\ Running => \A k \in 1..(asking - 1) : AtHand.asks[k] \in held
    /\ \A q \in Questions : IF world[q] = "yes" THEN q \in held ELSE q \in missed

(* The outcome of a check follows from what was seen of its questions,      *)
(* however the world changes meanwhile.                                     *)
LEMMA ChecksAreSeen == Spec => []ChecksSeen
  <1>1. Init => Seen
    BY DEF Init, Seen, ChecksSeen
  <1>2. TypeOK /\ TypeOK' /\ Seen /\ [Next]_vars => Seen'
    <2> SUFFICES ASSUME TypeOK, TypeOK', Seen, [Next]_vars PROVE Seen'  OBVIOUS
    <2>1. ACall /\ Len(Checks) \in Nat /\ DOMAIN Checks = 1..Len(Checks)
      BY ChecksType DEF ACall, TypeOK
    <2>2. UNCHANGED <<platform, call>>
      BY DEF Next, Answered, Skip, Yes, No, WorldChanges, Halted, vars
    <2>3. Checks' = Checks  BY <2>2, ChecksStay
    <2> DEFINE asks(i) == {Checks[i].asks[k] : k \in DOMAIN Checks[i].asks}
               Line(i) == IF i \in good THEN asks(i) \subseteq held
                          ELSE asks(i) \cap missed # {}
    <2>4. ChecksSeen = \A i \in 1..(at - 1) \ skipped : Line(i)  BY DEF ChecksSeen
    <2>5. ChecksSeen' = \A i \in 1..(at' - 1) \ skipped' :
              IF i \in good' THEN asks(i) \subseteq held' ELSE asks(i) \cap missed' # {}
      BY <2>3 DEF ChecksSeen
    <2>6. ASSUME Running
          PROVE  /\ at \in DOMAIN Checks /\ asking \in DOMAIN AtHand.asks
                 /\ AtHand.asks \in Seq(Questions) /\ Question \in Questions
                 /\ DOMAIN AtHand.asks = 1..Len(AtHand.asks)
                 /\ asks(at) = {AtHand.asks[k] : k \in DOMAIN AtHand.asks}
                 /\ Question \in asks(at)
                 /\ at \in Nat /\ asking \in Nat /\ Len(AtHand.asks) \in Nat
      BY <2>1, <2>6, QuestionsAsked DEF Running, AtHand, Question, TypeOK
    <2>7. at \in Nat /\ good \subseteq 1..(at - 1) /\ skipped \subseteq 1..(at - 1)
      BY <2>1 DEF TypeOK
    <2>8. ASSUME at' = at + 1, skipped \subseteq skipped', good \subseteq good',
                  good' \subseteq good \cup {at}, UNCHANGED <<held, missed>>,
                  at \in skipped' \/ (IF at \in good' THEN asks(at) \subseteq held
                                      ELSE asks(at) \cap missed # {})
           PROVE  ChecksSeen'
      <3> HIDE DEF asks
      <3> SUFFICES ASSUME NEW i \in 1..(at' - 1) \ skipped'
                   PROVE  IF i \in good' THEN asks(i) \subseteq held'
                          ELSE asks(i) \cap missed' # {}
        BY <2>5
      <3>1. CASE i = at  BY <2>8, <3>1
      <3>2. CASE i # at
        <4>1. i \in 1..(at - 1) \ skipped /\ (i \in good' <=> i \in good)
          BY <2>7, <2>8, <3>2
        <4>2. Line(i)  BY <2>4, <4>1 DEF Seen
        <4> QED  BY <2>8, <4>1, <4>2
      <3> QED  BY <3>1, <3>2
    <2>9. CASE Skip
      <3>1. at' = at + 1 /\ asking' = 1 /\ skipped' = skipped \cup {at}
            /\ UNCHANGED <<world, good, held, missed>>
        BY <2>9 DEF Skip, NextCheck
      <3>2. ChecksSeen'  BY <2>8, <3>1
      <3>3. Running' => 1..(asking' - 1) = {}  BY <3>1
      <3> QED  BY <3>1, <3>2, <3>3 DEF Seen
    <2>10. CASE Yes
      <3>1. Running /\ Question \in held /\ UNCHANGED <<world, skipped, held, missed>>
        BY <2>6, <2>10 DEF Yes, Seen
      <3>2. CASE asking < Len(AtHand.asks)
        <4>1. UNCHANGED <<at, good>> /\ asking' = asking + 1  BY <2>10, <3>2 DEF Yes
        <4>2. AtHand' = AtHand /\ Running' = Running
          BY <2>3, <4>1 DEF AtHand, Running
        <4>3. \A k \in 1..asking : AtHand.asks[k] \in held
          BY <2>6, <3>1 DEF Seen, Question
        <4>4. ChecksSeen'  BY <2>4, <2>5, <3>1, <4>1 DEF Seen
        <4> QED  BY <2>6, <3>1, <4>1, <4>2, <4>3, <4>4 DEF Seen
      <3>3. CASE ~(asking < Len(AtHand.asks))
        <4>1. at' = at + 1 /\ asking' = 1 /\ good' = good \cup {at}
          BY <2>10, <3>3 DEF Yes, NextCheck
        <4>2. asking = Len(AtHand.asks)  BY <2>6, <3>1, <3>3
        <4>3. \A k \in 1..asking : AtHand.asks[k] \in held
          BY <2>6, <3>1 DEF Seen, Question
        <4>4. asks(at) \subseteq held  BY <2>6, <3>1, <4>2, <4>3
        <4>5. ChecksSeen'
          <5> HIDE DEF asks
          <5> QED  BY <2>8, <3>1, <4>1, <4>4
        <4> QED  BY <3>1, <4>1, <4>5 DEF Seen
      <3> QED  BY <3>2, <3>3
    <2>11. CASE No
      <3>1. Running /\ at' = at + 1 /\ asking' = 1
            /\ UNCHANGED <<world, good, skipped, held, missed>>
        BY <2>11 DEF No, NextCheck
      <3>2. Question \in missed
        BY <2>6, <2>11 DEF No, Seen
      <3>3. at \notin good  BY <2>7
      <3>4. asks(at) \cap missed # {}  BY <2>6, <3>1, <3>2
      <3>5. ChecksSeen'
        <4> HIDE DEF asks
        <4> QED  BY <2>8, <3>1, <3>3, <3>4
      <3> QED  BY <3>1, <3>5 DEF Seen
    <2>12. CASE WorldChanges
      <3>1. UNCHANGED <<at, asking, good, skipped>> /\ held \subseteq held'
            /\ missed \subseteq missed'
        BY <2>12 DEF WorldChanges, report
      <3>2. ChecksSeen'
        <4> HIDE DEF asks
        <4> QED  BY <2>4, <2>5, <3>1 DEF Seen
      <3>3. AtHand' = AtHand /\ Running' = Running
        BY <2>3, <3>1 DEF AtHand, Running
      <3>4. \A q \in Questions : IF world'[q] = "yes" THEN q \in held' ELSE q \in missed'
        BY <2>12 DEF WorldChanges, Seen, TypeOK
      <3> QED  BY <3>1, <3>2, <3>3, <3>4 DEF Seen
    <2>13. CASE UNCHANGED vars
      BY <2>3, <2>13 DEF vars, report, Seen, ChecksSeen, Running, AtHand
    <2> QED  BY <2>9, <2>10, <2>11, <2>12, <2>13 DEF Next, Answered, Halted
  <1> QED  BY <1>1, <1>2, TypeCorrect, PTL DEF Spec, Seen

-----------------------------------------------------------------------------
(* The checks as a set, and what they ask for.                              *)
Elements(s) == {s[i] : i \in DOMAIN s}

LEMMA ElementsJoined ==
    ASSUME NEW S, NEW s \in Seq(S), NEW t \in Seq(S)
    PROVE  Elements(s \o t) = Elements(s) \cup Elements(t) /\ s \o t \in Seq(S)
  <1> DEFINE m == Len(s)
             n == Len(t)
             u == s \o t
  <1>1. /\ u \in Seq(S) /\ DOMAIN u = 1..(m + n) /\ DOMAIN s = 1..m /\ DOMAIN t = 1..n
        /\ m \in Nat /\ n \in Nat
        /\ \A i \in 1..(m + n) : u[i] = IF i <= m THEN s[i] ELSE t[i - m]
    BY ConcatProperties
  <1> HIDE DEF m, n, u
  <1>2. Elements(u) \subseteq Elements(s) \cup Elements(t)
    <2> SUFFICES ASSUME NEW i \in 1..(m + n)
                 PROVE  u[i] \in Elements(s) \cup Elements(t)
      BY <1>1 DEF Elements
    <2>1. CASE i <= m
      <3>1. i \in 1..m  BY <1>1, <2>1
      <3> QED  BY <1>1, <2>1, <3>1 DEF Elements
    <2>2. CASE ~(i <= m)
      <3>1. i - m \in 1..n  BY <1>1, <2>2
      <3> QED  BY <1>1, <2>2, <3>1 DEF Elements
    <2> QED  BY <2>1, <2>2
  <1>3. Elements(s) \subseteq Elements(u)
    <2> SUFFICES ASSUME NEW i \in 1..m PROVE s[i] \in Elements(u)
      BY <1>1 DEF Elements
    <2>1. i \in 1..(m + n) /\ i <= m  BY <1>1
    <2> QED  BY <1>1, <2>1 DEF Elements
  <1>4. Elements(t) \subseteq Elements(u)
    <2> SUFFICES ASSUME NEW i \in 1..n PROVE t[i] \in Elements(u)
      BY <1>1 DEF Elements
    <2>1. m + i \in 1..(m + n) /\ ~(m + i <= m) /\ (m + i) - m = i  BY <1>1
    <2> QED  BY <1>1, <2>1 DEF Elements
  <1> QED  BY <1>1, <1>2, <1>3, <1>4 DEF u

ProbeOf(part, b) == Check(part, b, Probe(b))
ToolsCheck == Check("verdict", "tools", <<"tools">>)
EngineAsks == If(~call.engine, "never") \o <<"client">> \o If(~call.image, "never")
WorkspaceAsks ==
    If(~call.engine \/ ~call.image, "never") \o <<"workspace">> \o If(call.dotted, "never")
EngineCheck    == Check("verdict", "engine", EngineAsks)
WorkspaceCheck == Check("verdict", "workspace", WorkspaceAsks)

LEMMA DetectAllElements ==
    ASSUME NEW p \in Parts
    PROVE  Elements(DetectAll(p)) = {ProbeOf(p, Chain[1]), ProbeOf(p, Chain[2])}
  BY DEF Elements, DetectAll, ProbeOf

LEMMA SelectingElements ==
    ASSUME NEW p
    PROVE  Elements(Selecting(p)) =
             {ProbeOf("select", Chain[1]), ProbeOf("select", Chain[2])}
             \cup (IF p \in Backends THEN {ProbeOf("select", p)} ELSE {})
  <1> DEFINE all  == DetectAll("select")
             more == IF p \in Backends /\ ~InChain(p)
                     THEN <<Check("select", p, Probe(p))>> ELSE <<>>
             S    == Elements(all) \cup Elements(more)
  <1>1. all \in Seq(ChecksOf)  BY DetectAllChecks DEF Parts
  <1>2. more \in Seq(ChecksOf)
    <2>1. CASE p \in Backends /\ ~InChain(p)
      <3> DEFINE c == Check("select", p, Probe(p))
      <3>1. c \in ChecksOf  BY <2>1, ProbeCheck DEF Parts, Names
      <3>2. more = <<c>>  BY <2>1
      <3> HIDE DEF c, more
      <3> QED  BY <3>1, <3>2
    <2>2. CASE ~(p \in Backends /\ ~InChain(p))
      <3>1. more = <<>>  BY <2>2
      <3> HIDE DEF more
      <3> QED  BY <3>1
    <2> QED  BY <2>1, <2>2
  <1>3. Elements(all \o more) = S
    <2> HIDE DEF all, more
    <2> QED  BY <1>1, <1>2, ElementsJoined
  <1>4. Elements(all) = {ProbeOf("select", Chain[1]), ProbeOf("select", Chain[2])}
    BY DetectAllElements DEF Parts
  <1>5. Elements(more) = IF p \in Backends /\ ~InChain(p) THEN {ProbeOf("select", p)} ELSE {}
    BY DEF Elements, ProbeOf
  <1>6. InChain(p) => ProbeOf("select", p) \in Elements(all)
    BY <1>4 DEF InChain
  <1>7. Selecting(p) = all \o more  BY DEF Selecting
  <1> HIDE DEF all, more
  <1> QED  BY <1>3, <1>4, <1>5, <1>6, <1>7

LEMMA InfoElements ==
    /\ \A c \in Elements(Credentials) : c.part = "info"
    /\ \A c \in Elements(JLink) : c.part = "info"
  <1>1. \A c \in Elements(Credentials) : c.part = "info"
    BY DEF Elements, Credentials, Check
  <1>2. \A c \in Elements(JLink) : c.part = "info"
    <2> DEFINE tools  == <<Check("info", "jlink", <<"jlink">>)>>
               server == IF call.jlink = "tcp-server"
                         THEN <<Check("info", "gdbserver", <<"gdbserver">>)>> ELSE <<>>
               S      == {c \in ChecksOf : c.part = "info"}
    <2>1. Check("info", "jlink", <<"jlink">>) \in S
          /\ Check("info", "gdbserver", <<"gdbserver">>) \in S
      BY DEF Check, ChecksOf, Questions, Parts, Names
    <2>2. \A c \in S : c.part = "info"  OBVIOUS
    <2> HIDE DEF S
    <2>3. tools \in Seq(S) /\ server \in Seq(S)  BY <2>1
    <2>4. JLink \in Seq(S)  BY <2>3, Joined DEF JLink
    <2> QED  BY <2>2, <2>4 DEF Elements
  <1> QED  BY <1>1, <1>2

LEMMA ContainerElements ==
    Elements(ContainerChecks) = {EngineCheck, Check("info", "image", <<"image">>), WorkspaceCheck}
  BY DEF Elements, ContainerChecks, EngineCheck, EngineAsks, WorkspaceCheck, WorkspaceAsks

(* What the doctor asks, beside what it only informs of.                    *)
LEMMA DoctorElements ==
    ASSUME ACall, call.op = "doctor"
    PROVE  /\ {ToolsCheck, ProbeOf("list", Chain[1]), ProbeOf("list", Chain[2]),
               ProbeOf("select", Chain[1]), ProbeOf("select", Chain[2])} \subseteq Elements(Checks)
           /\ call.container => {EngineCheck, WorkspaceCheck} \subseteq Elements(Checks)
           /\ \A c \in Elements(Checks) :
                 \/ c.part = "info"
                 \/ c \in {ToolsCheck, ProbeOf("list", Chain[1]), ProbeOf("list", Chain[2]),
                          ProbeOf("select", Chain[1]), ProbeOf("select", Chain[2])}
                 \/ call.container /\ c \in {EngineCheck, WorkspaceCheck}
  <1> DEFINE a == <<ToolsCheck>>
             d == DetectAll("list")
             s == Selecting("auto")
             k == IF call.container THEN ContainerChecks ELSE <<>>
  <1>1. d \in Seq(ChecksOf) /\ s \in Seq(ChecksOf)
    BY DetectAllChecks, SelectingChecks DEF Parts
  <1>2. ToolsCheck \in ChecksOf
    BY DEF ToolsCheck, Check, ChecksOf, Questions, Parts, Names
  <1>3. a \in Seq(ChecksOf) /\ Elements(a) = {ToolsCheck}  BY <1>2 DEF Elements
  <1>4. k \in Seq(ChecksOf)  BY ContainerChecksChecks
  <1>5. Checks = a \o d \o s \o Credentials \o JLink \o k
    BY DEF Checks, ToolsCheck
  <1>6. Elements(d) = {ProbeOf("list", Chain[1]), ProbeOf("list", Chain[2])}
    BY DetectAllElements DEF Parts
  <1>7. Elements(s) = {ProbeOf("select", Chain[1]), ProbeOf("select", Chain[2])}
    BY SelectingElements DEF Backends
  <1>8. Elements(k) = IF call.container
                      THEN {EngineCheck, Check("info", "image", <<"image">>), WorkspaceCheck}
                      ELSE {}
    BY ContainerElements DEF Elements
  <1> HIDE DEF a, d, s, k
  <1>9. Elements(Checks) = Elements(a) \cup Elements(d) \cup Elements(s)
                           \cup Elements(Credentials) \cup Elements(JLink) \cup Elements(k)
    <2> DEFINE r1 == a \o d
               r2 == r1 \o s
               r3 == r2 \o Credentials
               r4 == r3 \o JLink
    <2>1. Elements(r1) = Elements(a) \cup Elements(d) /\ r1 \in Seq(ChecksOf)
      BY <1>1, <1>3, ElementsJoined
    <2> HIDE DEF r1
    <2>2. Elements(r2) = Elements(r1) \cup Elements(s) /\ r2 \in Seq(ChecksOf)
      BY <1>1, <2>1, ElementsJoined
    <2> HIDE DEF r2
    <2>3. Elements(r3) = Elements(r2) \cup Elements(Credentials) /\ r3 \in Seq(ChecksOf)
      BY <2>2, CredentialsChecks, ElementsJoined
    <2> HIDE DEF r3
    <2>4. Elements(r4) = Elements(r3) \cup Elements(JLink) /\ r4 \in Seq(ChecksOf)
      BY <2>3, JLinkChecks, ElementsJoined
    <2> HIDE DEF r4
    <2>5. Elements(r4 \o k) = Elements(r4) \cup Elements(k)
      BY <1>4, <2>4, ElementsJoined
    <2>6. Checks = r4 \o k  BY <1>5 DEF r1, r2, r3, r4
    <2> QED  BY <2>1, <2>2, <2>3, <2>4, <2>5, <2>6
  <1>10. Check("info", "image", <<"image">>).part = "info"  BY DEF Check
  <1> QED  BY <1>3, <1>6, <1>7, <1>8, <1>9, <1>10, InfoElements

(* What the two checks of the container ask for.                            *)
LEMMA ContainerAsks ==
    /\ "client" \in Elements(EngineAsks)
    /\ Elements(EngineAsks) \subseteq
          {"client"} \cup IF call.engine /\ call.image THEN {} ELSE {"never"}
    /\ ~(call.engine /\ call.image) => "never" \in Elements(EngineAsks)
    /\ "workspace" \in Elements(WorkspaceAsks)
    /\ Elements(WorkspaceAsks) \subseteq
          {"workspace"} \cup IF call.engine /\ call.image /\ ~call.dotted THEN {} ELSE {"never"}
  <1>1. ASSUME NEW c
        PROVE  If(c, "never") \in Seq(Questions)
               /\ Elements(If(c, "never")) = IF c THEN {"never"} ELSE {}
    <2>1. CASE c
      <3>1. If(c, "never") = <<"never">>  BY <2>1 DEF If
      <3>2. <<"never">> \in Seq(Questions) /\ Elements(<<"never">>) = {"never"}
        BY DEF Elements, Questions
      <3> QED  BY <2>1, <3>1, <3>2
    <2>2. CASE ~c
      <3>1. If(c, "never") = <<>>  BY <2>2 DEF If
      <3>2. <<>> \in Seq(Questions) /\ Elements(<<>>) = {}  BY DEF Elements
      <3> QED  BY <2>2, <3>1, <3>2
    <2> QED  BY <2>1, <2>2
  <1>2. ASSUME NEW b \in BOOLEAN, NEW c \in BOOLEAN, NEW q \in Questions
        PROVE  Elements(If(b, "never") \o <<q>> \o If(c, "never"))
                  = {q} \cup (IF b \/ c THEN {"never"} ELSE {})
    <2> DEFINE f == If(b, "never")
               g == If(c, "never")
               e == <<q>>
               r == f \o e
    <2>1. e \in Seq(Questions) /\ Elements(e) = {q}  BY DEF Elements
    <2>2. /\ f \in Seq(Questions) /\ Elements(f) = IF b THEN {"never"} ELSE {}
          /\ g \in Seq(Questions) /\ Elements(g) = IF c THEN {"never"} ELSE {}
      BY <1>1
    <2> HIDE DEF e, f, g
    <2>3. Elements(r) = Elements(f) \cup {q} /\ r \in Seq(Questions)
      BY <2>1, <2>2, ElementsJoined
    <2> HIDE DEF r
    <2>4. Elements(r \o g) = Elements(r) \cup Elements(g)
      BY <2>2, <2>3, ElementsJoined
    <2>5. Elements(r \o g) = {q} \cup (IF b \/ c THEN {"never"} ELSE {})
      BY <2>2, <2>3, <2>4
    <2> QED  BY <2>5 DEF r, e, f, g
  <1>3. Elements(EngineAsks) =
           {"client"} \cup (IF ~call.engine \/ ~call.image THEN {"never"} ELSE {})
    <2>1. EngineAsks = If((~call.engine) = TRUE, "never") \o <<"client">>
                          \o If((~call.image) = TRUE, "never")
      BY DEF EngineAsks, If
    <2> QED  BY <1>2, <2>1 DEF Questions
  <1>4. Elements(WorkspaceAsks) =
           {"workspace"} \cup
           (IF (~call.engine \/ ~call.image) \/ call.dotted THEN {"never"} ELSE {})
    <2>1. WorkspaceAsks = If((~call.engine \/ ~call.image) = TRUE, "never") \o <<"workspace">>
                             \o If(call.dotted = TRUE, "never")
      BY DEF WorkspaceAsks, If
    <2> QED  BY <1>2, <2>1 DEF Questions
  <1> QED  BY <1>3, <1>4

-----------------------------------------------------------------------------
(* What the report says in the end rests on this, too: what is never there  *)
(* was never seen, and what was not asked decides nothing.                  *)
Remembered ==
    /\ world["never"] = "no" /\ "never" \notin held
    /\ \A i \in skipped : Checks[i].part = "info"

(* What was skipped and held so far is remembered as it was.                *)
THEOREM HistoryCorrect == Spec => []Remembered
  <1>1. Init => Remembered
    BY StartsAssumption DEF Init, Remembered, Questions
  <1>2. TypeOK /\ Remembered /\ [Next]_vars => Remembered'
    <2> SUFFICES ASSUME TypeOK, Remembered, [Next]_vars PROVE Remembered'  OBVIOUS
    <2>1. UNCHANGED <<platform, call>>
      BY DEF Next, Answered, Skip, Yes, No, WorldChanges, Halted, vars
    <2>2. Checks' = Checks  BY <2>1, ChecksStay
    <2>3. CASE Skip
      BY <2>2, <2>3 DEF Skip, Unneeded, AtHand, Remembered
    <2>4. CASE Yes \/ No \/ UNCHANGED vars
      <3>1. UNCHANGED <<world, changes, skipped, held, missed>>
        BY <2>4 DEF Yes, No, vars, report
      <3> QED  BY <2>2, <3>1 DEF Remembered
    <2>5. CASE WorldChanges
      <3>1. PICK q \in Asked \ {"never"}, a \in Answers :
               /\ world' = [world EXCEPT ![q] = a]
               /\ IF a = "yes" THEN held' = held \cup {q} /\ missed' = missed
                  ELSE held' = held /\ missed' = missed \cup {q}
        BY <2>5 DEF WorldChanges
      <3>2. world'["never"] = "no" /\ "never" \notin held'
        BY <3>1 DEF Remembered, TypeOK, Questions
      <3>3. skipped' = skipped  BY <2>5 DEF WorldChanges, report
      <3> QED  BY <2>2, <3>2, <3>3 DEF Remembered
    <2> QED  BY <2>3, <2>4, <2>5 DEF Next, Answered, Halted
  <1> QED  BY <1>1, <1>2, TypeCorrect, PTL DEF Spec

(* What a check of the report says, if it is the only one of its name.      *)
LEMMA PassedMeans ==
    ASSUME TypeOK, ChecksSeen, Remembered, ~Running,
           NEW c \in Elements(Checks), c.part # "info",
           \A d \in Elements(Checks) : d.part = c.part /\ d.of = c.of => d = c
    PROVE  IF Passed(c.part, c.of) THEN Elements(c.asks) \subseteq held
           ELSE Elements(c.asks) \cap missed # {}
  <1>1. /\ Len(Checks) \in Nat /\ DOMAIN Checks = 1..Len(Checks) /\ at - 1 = Len(Checks)
        /\ good \subseteq 1..Len(Checks)
    <2>1. Len(Checks) \in Nat /\ DOMAIN Checks = 1..Len(Checks)
      BY ChecksType DEF TypeOK, ACall
    <2>2. at \in 1..(Len(Checks) + 1) /\ ~(at <= Len(Checks)) /\ good \subseteq 1..(at - 1)
      BY DEF TypeOK, Running
    <2> QED  BY <2>1, <2>2
  <1>2. \A i \in 1..Len(Checks) : Checks[i] \in Elements(Checks)
    BY <1>1 DEF Elements
  <1>3. ASSUME NEW i \in 1..Len(Checks), i \notin skipped
        PROVE  IF i \in good THEN Elements(Checks[i].asks) \subseteq held
               ELSE Elements(Checks[i].asks) \cap missed # {}
    BY <1>1, <1>3 DEF ChecksSeen, Elements
  <1>4. CASE Passed(c.part, c.of)
    <2>1. PICK i \in good : Checks[i].part = c.part /\ Checks[i].of = c.of
      BY <1>4 DEF Passed
    <2>2. i \in 1..Len(Checks) /\ Checks[i] = c  BY <1>1, <1>2, <2>1
    <2>3. i \notin skipped  BY <2>2 DEF Remembered
    <2> QED  BY <1>3, <1>4, <2>1, <2>2, <2>3
  <1>5. CASE ~Passed(c.part, c.of)
    <2>1. PICK i \in 1..Len(Checks) : Checks[i] = c  BY <1>1 DEF Elements
    <2>2. i \notin skipped  BY <2>1 DEF Remembered
    <2>3. i \notin good  BY <1>5, <2>1 DEF Passed
    <2> QED  BY <1>3, <1>5, <2>1, <2>2, <2>3
  <1> QED  BY <1>4, <1>5

LEMMA ChecksNamed ==
    /\ ToolsCheck.part = "verdict" /\ ToolsCheck.of = "tools"
    /\ Elements(ToolsCheck.asks) = {"tools"}
    /\ EngineCheck.part = "verdict" /\ EngineCheck.of = "engine"
    /\ EngineCheck.asks = EngineAsks
    /\ WorkspaceCheck.part = "verdict" /\ WorkspaceCheck.of = "workspace"
    /\ WorkspaceCheck.asks = WorkspaceAsks
    /\ \A p, b : ProbeOf(p, b).part = p /\ ProbeOf(p, b).of = b
                 /\ ProbeOf(p, b).asks = Probe(b)
  <1>1. Elements(<<"tools">>) = {"tools"}  BY DEF Elements
  <1> QED  BY <1>1 DEF ToolsCheck, EngineCheck, WorkspaceCheck, ProbeOf, Check

(* The verdict is what the world was like: a good one is given only if all  *)
(* it is about was seen in order, a bad one only if something was not or the*)
(* manifest's path begins with a dot; for every configuration and platform, *)
(* and however often the world changes.                                     *)
THEOREM VerdictIsTrue == Spec => []VerdictTrue
  <1>1. TypeOK /\ ChecksSeen /\ Remembered => VerdictTrue
    <2> DEFINE wanted == {"tools"} \cup IF call.container THEN {"client", "workspace"} ELSE {}
               complete == call.container => call.engine /\ call.image
    <2> SUFFICES ASSUME TypeOK, ChecksSeen, Remembered, ~Running, call.op = "doctor"
                 PROVE  IF LooksGood THEN wanted \subseteq held /\ complete
                        ELSE wanted \cap missed # {} \/ ~complete \/ call.dotted
      BY DEF VerdictTrue
    <2>1. ACall  BY DEF TypeOK, ACall
    <2>2. IF Passed("verdict", "tools") THEN "tools" \in held ELSE "tools" \in missed
      <3>1. ToolsCheck \in Elements(Checks)  BY <2>1, DoctorElements
      <3>2. \A d \in Elements(Checks) : d.part = "verdict" /\ d.of = "tools" => d = ToolsCheck
        BY <2>1, DoctorElements, ChecksNamed
      <3> QED  BY <3>1, <3>2, PassedMeans, ChecksNamed
    <2>3. ASSUME call.container
          PROVE  IF Passed("verdict", "engine") THEN Elements(EngineAsks) \subseteq held
                 ELSE Elements(EngineAsks) \cap missed # {}
      <3>1. EngineCheck \in Elements(Checks)  BY <2>1, <2>3, DoctorElements
      <3>2. \A d \in Elements(Checks) : d.part = "verdict" /\ d.of = "engine" => d = EngineCheck
        BY <2>1, DoctorElements, ChecksNamed
      <3> QED  BY <3>1, <3>2, PassedMeans, ChecksNamed
    <2>4. ASSUME call.container
          PROVE  IF Passed("verdict", "workspace") THEN Elements(WorkspaceAsks) \subseteq held
                 ELSE Elements(WorkspaceAsks) \cap missed # {}
      <3>1. WorkspaceCheck \in Elements(Checks)  BY <2>1, <2>4, DoctorElements
      <3>2. \A d \in Elements(Checks) :
               d.part = "verdict" /\ d.of = "workspace" => d = WorkspaceCheck
        BY <2>1, DoctorElements, ChecksNamed
      <3> QED  BY <3>1, <3>2, PassedMeans, ChecksNamed
    <2>5. "never" \notin held  BY DEF Remembered
    <2>6. CASE LooksGood
      <3>1. "tools" \in held  BY <2>2, <2>6 DEF LooksGood
      <3>2. ASSUME call.container
            PROVE  "client" \in held /\ "workspace" \in held /\ call.engine /\ call.image
        BY <2>3, <2>4, <2>5, <2>6, <3>2, ContainerAsks DEF LooksGood
      <3> QED  BY <2>6, <3>1, <3>2
    <2>7. CASE ~LooksGood
      <3>1. CASE ~Passed("verdict", "tools")  BY <2>2, <2>7, <3>1
      <3>2. CASE call.container /\ ~Passed("verdict", "engine")
        BY <2>3, <2>7, <3>2, ContainerAsks
      <3>3. CASE call.container /\ ~Passed("verdict", "workspace")
        BY <2>4, <2>7, <3>3, ContainerAsks
      <3> QED  BY <2>7, <3>1, <3>2, <3>3 DEF LooksGood
    <2> QED  BY <2>6, <2>7
  <1> QED  BY <1>1, TypeCorrect, ChecksAreSeen, HistoryCorrect, PTL

-----------------------------------------------------------------------------
(* What a probe asks for is what its backend needs, on its platform.        *)
LEMMA ProbeNeeds ==
    ASSUME NEW b \in Backends
    PROVE  IF Fits(b) THEN Elements(Probe(b)) = Needs(b) ELSE "never" \in Elements(Probe(b))
  <1>1. CASE b = "podman-machine-hyperv" /\ platform = "win32"
    <2>1. Probe(b) = <<"podman", "hyperv", "machine">>  BY <1>1 DEF Probe
    <2>2. Elements(Probe(b)) = {"podman", "hyperv", "machine"}  BY <2>1 DEF Elements
    <2> QED  BY <1>1, <2>2 DEF Needs, Fits
  <1>2. CASE b = "podman-machine-hyperv" /\ platform # "win32"
    <2>1. Probe(b) = <<"podman", "never", "machine">>  BY <1>2 DEF Probe
    <2>2. Elements(Probe(b)) = {"podman", "never", "machine"}  BY <2>1 DEF Elements
    <2> QED  BY <1>2, <2>2 DEF Needs, Fits
  <1>3. CASE b # "podman-machine-hyperv"
    <2>1. Elements(Probe(b)) =
          CASE b = "docker-desktop"        -> {"docker", "wsl2"}
            [] b = "podman-machine"        -> {"podman", "machine"}
            [] b = "podman-native"         -> {"podman"}
            [] OTHER                       -> {"docker"}
      BY <1>3 DEF Probe, Elements
    <2> QED  BY <1>3, <2>1 DEF Needs, Fits, Backends
  <1> QED  BY <1>1, <1>2, <1>3

(* A probe says what was seen of its backend.                               *)
LEMMA ProbePassed ==
    ASSUME TypeOK, ChecksSeen, Remembered, ~Running,
           NEW p \in {"list", "select"}, NEW b \in Backends,
           ProbeOf(p, b) \in Elements(Checks),
           \A d \in Elements(Checks) : d.part = p /\ d.of = b => d = ProbeOf(p, b)
    PROVE  IF Passed(p, b) THEN Found(b) ELSE Lacking(b)
  <1>1. IF Passed(p, b) THEN Elements(Probe(b)) \subseteq held
        ELSE Elements(Probe(b)) \cap missed # {}
    BY PassedMeans, ChecksNamed
  <1>2. "never" \notin held  BY DEF Remembered
  <1> QED  BY <1>1, <1>2, ProbeNeeds DEF Found, Lacking

LEMMA ChainDiffers == Chain[1] \in Backends /\ Chain[2] \in Backends /\ Chain[1] # Chain[2]
  BY DEF Chain, Backends

(* The backend that select returns is the one that was asked for or the     *)
(* first of the chain of which all was seen that it needs; the others before*)
(* it, and all of them after an error, were seen without something; the     *)
(* doctor's list says what its probes saw; however often the world changes. *)
THEOREM FirstIsPicked == Spec => []PicksTheFirst
  <1>1. TypeOK /\ ChecksSeen /\ Remembered => PicksTheFirst
    <2> SUFFICES ASSUME TypeOK, ChecksSeen, Remembered, ~Running
                 PROVE  PicksTheFirst
      BY DEF PicksTheFirst
    <2> DEFINE Says(p, n) == IF Passed(p, n) THEN Found(n) ELSE Lacking(n)
    <2>1. ACall /\ call.op \in {"doctor", "select"}
      BY CallsAssumption DEF TypeOK, ACall
    <2>2. CASE call.op = "select"
      <3> DEFINE b == call.preferred
      <3>1. Checks = Selecting(b)  BY <2>2 DEF Checks
      <3>2. Elements(Checks) = {ProbeOf("select", Chain[1]), ProbeOf("select", Chain[2])}
                 \cup (IF b \in Backends THEN {ProbeOf("select", b)} ELSE {})
        BY <3>1, SelectingElements
      <3>3. \A d \in Elements(Checks) : d = ProbeOf("select", d.of) /\ d.of \in Backends
        BY <3>2, ChecksNamed, ChainDiffers
      <3>4. \A n \in {Chain[1], Chain[2]} : Says("select", n)
        BY <3>2, <3>3, ProbePassed, ChainDiffers
      <3>5. CASE b = "auto"
        BY <2>2, <3>4, <3>5, ChainDiffers DEF PicksTheFirst, Selected, InChain, None, Backends
      <3>6. CASE b # "auto" /\ b \in Backends
        <4>1. Says("select", b)  BY <3>2, <3>3, <3>6, ProbePassed
        <4> QED  BY <2>2, <3>6, <4>1 DEF PicksTheFirst, Selected, None, Backends
      <3>7. CASE b # "auto" /\ b \notin Backends
        <4>1. Lacking(b)  BY <3>7 DEF Lacking, Fits
        <4>2. ~Passed("select", b)
          <5> SUFFICES ASSUME Passed("select", b) PROVE FALSE  OBVIOUS
          <5>1. PICK i \in good : Checks[i].of = b  BY DEF Passed
          <5>2. i \in DOMAIN Checks
            <6>1. Len(Checks) \in Nat /\ DOMAIN Checks = 1..Len(Checks)
              BY <2>1, ChecksType
            <6>2. i \in 1..(at - 1) /\ at \in 1..(Len(Checks) + 1)  BY <5>1 DEF TypeOK
            <6> QED  BY <6>1, <6>2
          <5> QED  BY <3>3, <3>7, <5>1, <5>2 DEF Elements
        <4> QED  BY <2>2, <3>7, <4>1, <4>2 DEF PicksTheFirst, Selected, None
      <3> QED  BY <3>5, <3>6, <3>7
    <2>3. CASE call.op = "doctor"
      <3>1. ASSUME NEW p \in {"list", "select"}, NEW n \in {Chain[1], Chain[2]}
            PROVE  Says(p, n)
        <4>1. ProbeOf(p, n) \in Elements(Checks)  BY <2>1, <2>3, DoctorElements
        <4>2. \A d \in Elements(Checks) : d.part = p /\ d.of = n => d = ProbeOf(p, n)
          BY <2>1, <2>3, DoctorElements, ChecksNamed
        <4> QED  BY <4>1, <4>2, ProbePassed, ChainDiffers
      <3> QED
        BY <2>3, <3>1, ChainDiffers DEF PicksTheFirst, Selected, InChain, None, Backends
    <2> QED  BY <2>1, <2>2, <2>3
  <1> QED  BY <1>1, TypeCorrect, ChecksAreSeen, HistoryCorrect, PTL
=============================================================================
