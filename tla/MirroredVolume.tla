--------------------------- MODULE MirroredVolume ---------------------------
(***************************************************************************)
(* What `west env sync' promises of a volume, whatever carries the files: a *)
(* sync brings into the volume of its workspace, each file to its own path, *)
(* what it has seen there and nothing else, takes nothing away but what it  *)
(* replaces, and says "source synced" only when every file that was there   *)
(* all along has arrived.                                                   *)
(* No transports, no exclusions, no engine: WorkspaceSync has those.        *)
(***************************************************************************)
CONSTANTS
    Syncs,      \* the processes
    Workspaces, \* the topdirs of the user
    Volumes,    \* the volume names of the engine
    Slug,       \* Workspaces -> Volumes
    Files,      \* the source files of a workspace
    Contents,   \* what a file can hold
    Gone        \* the state of a file that is not there

VARIABLES
    host,       \* Workspaces -> Files -> what the file holds
    mirror,     \* Volumes -> Files -> the contents that lie at its path there
    busy,       \* Syncs -> {}, or the workspace that is being synchronised
    seen,       \* Syncs -> Files -> what the file held since the sync began
    synced      \* Syncs -> was its last line one of success?

Init ==
    /\ host \in [Workspaces -> [Files -> Contents \cup {Gone}]]
    /\ mirror = [v \in Volumes |-> [f \in Files |-> {}]]
    /\ busy = [s \in Syncs |-> {}]
    /\ seen = [s \in Syncs |-> [f \in Files |-> {}]]
    /\ synced = [s \in Syncs |-> FALSE]

Sees ==
    seen' = [s \in Syncs |-> [f \in Files |->
               IF busy'[s] = {} THEN {}
               ELSE seen[s][f] \cup {host'[w][f] : w \in busy'[s]}]]

(* Some files of the workspace arrive, each as it was at some moment.       *)
Arrive(s) ==
    \A v \in Volumes, f \in Files :
        \/ mirror'[v][f] = mirror[v][f]
        \/ /\ v \in {Slug[w] : w \in busy[s]}
           /\ \E c \in seen[s][f] \ {Gone} :
                 c \in mirror'[v][f] /\ mirror'[v][f] \subseteq mirror[v][f] \cup {c}

Complete(s) ==
    \A w \in busy[s], f \in Files :
        Gone \notin seen[s][f] => mirror[Slug[w]][f] \cap seen[s][f] # {}

Begin(s, w) ==
    /\ busy[s] = {}
    /\ busy' = [busy EXCEPT ![s] = {w}]
    /\ UNCHANGED <<host, mirror, synced>>
    /\ Sees

Carry(s) ==
    /\ busy[s] # {}
    /\ mirror' \in [Volumes -> [Files -> SUBSET Contents]]
    /\ Arrive(s)
    /\ UNCHANGED <<host, busy, synced>>
    /\ Sees

Finish(s) ==
    /\ busy[s] # {}
    /\ Complete(s)
    /\ busy' = [busy EXCEPT ![s] = {}]
    /\ synced' = [synced EXCEPT ![s] = TRUE]
    /\ UNCHANGED <<host, mirror>>
    /\ Sees

(* It fails, is killed, or has nothing to do; what arrived stays.           *)
GiveUp(s) ==
    /\ busy[s] # {}
    /\ busy' = [busy EXCEPT ![s] = {}]
    /\ synced' = [synced EXCEPT ![s] = FALSE]
    /\ UNCHANGED <<host, mirror>>
    /\ Sees

Edited ==
    \E w \in Workspaces, f \in Files, c \in Contents \cup {Gone} :
        host' = [host EXCEPT ![w][f] = c]

Edit == Edited /\ UNCHANGED <<mirror, busy, synced>> /\ Sees

(* The process does something else: `sync --back', for one, which may write *)
(* into the workspace and has a last line of its own.                       *)
Otherwise(s) ==
    /\ busy[s] = {}
    /\ host' = host \/ Edited
    /\ \E line \in BOOLEAN : synced' = [synced EXCEPT ![s] = line]
    /\ UNCHANGED <<mirror, busy>>
    /\ Sees

Next ==
    \/ \E s \in Syncs :
          \/ \E w \in Workspaces : Begin(s, w)
          \/ Carry(s) \/ Finish(s) \/ GiveUp(s) \/ Otherwise(s)
    \/ Edit

Spec == Init /\ [][Next]_<<host, mirror, busy, seen, synced>>
=============================================================================
