------------------------------ MODULE MCDoctor ------------------------------
(***************************************************************************)
(* A small instance of Doctor: every combination of what the backends ask   *)
(* for, and every other question answered differently one at a time.        *)
(***************************************************************************)
EXTENDS Doctor

Fine == [q \in Questions |-> IF q = "never" THEN "no" ELSE "yes"]

MCStarts ==
    {w \in [Questions -> {"yes", "no"}] :
        \A q \in Questions \ {"docker", "podman", "hyperv", "machine", "wsl2"} :
            w[q] = Fine[q]}
    \cup {[Fine EXCEPT ![q] = "no"] : q \in Questions}
    \cup {[Fine EXCEPT ![q] = "hangs"] : q \in Questions \ LookedUp}

Select(preferred) ==
    [op |-> "select", preferred |-> preferred, container |-> FALSE, engine |-> TRUE,
     image |-> TRUE, dotted |-> FALSE, credentials |-> "none", jlink |-> "host"]

Host      == [Select("auto") EXCEPT !.op = "doctor", !.credentials = "auto"]
Container == [Select("auto") EXCEPT !.op = "doctor", !.container = TRUE]

MCCalls ==
    {Select(p) : p \in Backends \cup {"auto", "lxc"}}
    \cup {Host, Container}
    \cup {[Container EXCEPT !.engine = FALSE], [Container EXCEPT !.image = FALSE],
          [Container EXCEPT !.dotted = TRUE],
          [Container EXCEPT !.credentials = "credential-manager",
                           !.jlink = "tcp-server"]}

(* Enough for a selection in which no backend was ever available at once.   *)
MCChanges ==
    [c \in Calls |-> IF c.op = "select" THEN 2 ELSE 1]
=============================================================================
