--------------------------- MODULE OwnedDirectory ---------------------------
(***************************************************************************)
(* What the stale check of west-env promises of a build directory: a build  *)
(* starts only in a directory that is free or was configured by a build of  *)
(* its own mode, nobody touches the directory while the build works in it,  *)
(* and a configured directory changes hands only by being emptied first.    *)
(* No checks, no invocations, no failures: BuildCheck has those.            *)
(***************************************************************************)
CONSTANTS
    Modes,      \* the source paths a build configures with, one for a mode
    Free        \* what a directory holds that no build has configured

VARIABLES
    held,       \* what the directory holds
    owner       \* {}, or the mode of the build that works in it

Init == held \in Free /\ owner = {}

Take(m) ==
    /\ owner = {}
    /\ held \in Free \cup {m}
    /\ owner' = {m}
    /\ held' = held

(* The build ends, and has configured a free directory or not.              *)
Release(m) ==
    /\ owner = {m}
    /\ owner' = {}
    /\ held' \in {held} \cup (IF held \in Free THEN Free \cup {m} ELSE {})

Empty == owner = {} /\ held' \in Free /\ owner' = owner

(* A build that west-env does not run.                                      *)
OthersBuild(m) ==
    /\ owner = {} /\ held \in Free
    /\ held' = m
    /\ owner' = owner

Next == Empty \/ \E m \in Modes : Take(m) \/ Release(m) \/ OthersBuild(m)

Spec == Init /\ [][Next]_<<held, owner>>
=============================================================================
