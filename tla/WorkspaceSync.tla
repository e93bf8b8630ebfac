---------------------------- MODULE WorkspaceSync ----------------------------
(***************************************************************************)
(* `west env sync' and `west env sync --back': EnvCommand._sync of          *)
(* west_commands/env.py and west_env/sync.py, against the host workspaces   *)
(* and the named volumes of a container engine, and what a container build  *)
(* leaves where (container.py mounts the host workspace, never a volume).   *)
(*                                                                         *)
(* A file is named by its path in the workspace; Item[f] is the top-level   *)
(* entry it lies in.  A volume is a set of copies: which file, whose, what  *)
(* it holds, and whether it lies at its own path or one directory too deep. *)
(***************************************************************************)
CONSTANTS
    Procs,          \* the `west env sync' processes that may run
    Workspaces,     \* the topdirs of the user
    Volumes,        \* the volume names of the engine
    Slug,           \* Workspaces -> Volumes, what _workspace_slug makes of a path
    Files,          \* the paths in a workspace
    Item,           \* Files -> the top-level entry of the path
    DirItems,       \* the top-level entries that are directories
    TopExcluded,    \* the top-level entries that match an exclusion pattern
    DeepExcluded,   \* the files below an excluded directory further down
    Elf,            \* what a build leaves in build/
    Artifact,       \* where sync --back would put it, in artifacts/
    Contents,       \* what a file can hold
    Gone,           \* the state of a file that is not there
    Modes,          \* the workspace modes the user asks for
    TarPipe,        \* POSIX with a tar in PATH; FALSE: the docker cp fallback
    Reliable,       \* does what was started in the engine run to its end?
    ByHand          \* does the user build in a volume, with a command of
                    \* his own?

Items == {Item[f] : f \in Files}

ASSUME MapsAssumption ==
    /\ Slug \in [Workspaces -> Volumes]
    /\ Item \in [Files -> Items]
    /\ DeepExcluded \subseteq Files
    /\ Elf \in Files /\ Artifact \in Files
    /\ Elf # Artifact
    /\ Item[Elf] \in TopExcluded
    /\ Gone \notin Contents
ASSUME ModesAssumption ==
    Modes # {} /\ Modes \subseteq {"sync", "copy", "tmpfs", "bind"}
ASSUME SwitchesAssumption ==
    /\ Workspaces # {}
    /\ TarPipe \in BOOLEAN /\ Reliable \in BOOLEAN /\ ByHand \in BOOLEAN

VARIABLES
    host,       \* Workspaces -> Files -> what the file holds
    vol,        \* Volumes -> the copies in it
    engine,     \* does `<engine> info' answer?
    pc,         \* Procs -> the next step of _sync
    job,        \* Procs -> which workspace, which direction, which mode
    todo,       \* Procs -> the files that tar, or the current cp, will read
    pipe,       \* Procs -> the copies on their way into the volume
    items,      \* Procs -> the top-level entries that docker cp has to go
    entry,      \* Procs -> {}, or the one that is being copied
    found,      \* Procs -> the ones that cp has found in the volume already
    dirs,       \* Volumes -> the top-level directories that cp has made there
    said,       \* Procs -> the last line of the last run
    recent      \* Procs -> Files -> what the file held since the sync began

cp == <<items, entry, found, dirs>>

vars == <<host, vol, engine, pc, job, todo, pipe, items, entry, found, dirs,
          said, recent>>

Copy == [file : Files, deep : BOOLEAN, from : Workspaces, holds : Contents]

Job == [ws : Workspaces, back : BOOLEAN, mode : Modes]

NoJob == CHOOSE j \in Job : TRUE

Volume(p) == Slug[job[p].ws]
Tree(p)   == host[job[p].ws]

(* What the source sync is for: everything that no pattern excludes.        *)
Source == {f \in Files : Item[f] \notin TopExcluded /\ f \notin DeepExcluded}

(* A directory that is found in the volume takes the new one inside.        *)
Deep(p, f) == Item[f] \in found[p]

CopyOf(p, f) ==
    [file |-> f, deep |-> Deep(p, f), from |-> job[p].ws, holds |-> Tree(p)[f]]

SamePath(c, x) == x.file = c.file /\ x.deep = c.deep

(* Slip: what lies in the volume is not replaced.                           *)
WrittenOnce(old, c) ==
    IF \E x \in old : SamePath(x, c) THEN old ELSE old \cup {c}

(* A volume after a copy was written into it: nothing is deleted.           *)
Written(old, c) == {x \in old : ~SamePath(c, x)} \cup {c}

Content(p, i) == {f \in Files : Item[f] = i /\ Tree(p)[f] # Gone}

(* What iterdir may find that no pattern excludes: a directory that holds   *)
(* nothing may be there or not.                                             *)
Listings(p) ==
    {L \in SUBSET (Items \ TopExcluded) :
        /\ \A i \in L : i \in DirItems \/ Content(p, i) # {}
        /\ \A i \in Items \ TopExcluded : Content(p, i) # {} => i \in L}

Init ==
    /\ host \in [Workspaces -> [Files -> Contents \cup {Gone}]]
    /\ \A w \in Workspaces : host[w][Elf] = Gone /\ host[w][Artifact] = Gone
    /\ vol = [v \in Volumes |-> {}]
    /\ engine \in BOOLEAN
    /\ pc = [p \in Procs |-> "idle"]
    /\ job = [p \in Procs |-> NoJob]
    /\ todo = [p \in Procs |-> {}]
    /\ pipe = [p \in Procs |-> {}]
    /\ items = [p \in Procs |-> {}]
    /\ entry = [p \in Procs |-> {}]
    /\ found = [p \in Procs |-> {}]
    /\ dirs = [v \in Volumes |-> {}]
    /\ said = [p \in Procs |-> "nothing"]
    /\ recent = [p \in Procs |-> [f \in Files |-> {}]]

-----------------------------------------------------------------------------
(* The history variable: what each file of its workspace held at any moment *)
(* of a running sync.                                                       *)
Observes ==
    recent' = [p \in Procs |-> [f \in Files |->
                  IF pc'[p] = "idle" THEN {}
                  ELSE recent[p][f] \cup {host'[job'[p].ws][f]}]]

Ends(p, line) ==
    /\ pc' = [pc EXCEPT ![p] = "idle"]
    /\ said' = [said EXCEPT ![p] = line]
    /\ todo' = [todo EXCEPT ![p] = {}]
    /\ pipe' = [pipe EXCEPT ![p] = {}]
    /\ items' = [items EXCEPT ![p] = {}]
    /\ entry' = [entry EXCEPT ![p] = {}]
    /\ found' = [found EXCEPT ![p] = {}]
    /\ dirs' = dirs
    /\ job' = [job EXCEPT ![p] = NoJob]

(* _sync: the volume is named after the workspace.                          *)
Start(p, w, back, mode) ==
    /\ pc[p] = "idle"
    /\ job' = [job EXCEPT ![p] = [ws |-> w, back |-> back, mode |-> mode]]
    /\ pc' = [pc EXCEPT ![p] = "probe"]
    /\ UNCHANGED <<host, vol, engine, todo, pipe, cp, said>>
    /\ Observes

(* Slip: `info' without a timeout.                                          *)
ProbeHangs(p) ==
    /\ pc[p] = "probe"
    /\ ~engine
    /\ UNCHANGED vars

(* The engine is not in PATH, or `info' fails or takes 15 s.                *)
ProbeFails(p) ==
    /\ pc[p] = "probe"
    /\ ~engine
    /\ Ends(p, "fatal")
    /\ UNCHANGED <<host, vol, engine>>
    /\ Observes

ProbeBind(p) ==
    /\ pc[p] = "probe" /\ engine
    /\ ~job[p].back /\ job[p].mode = "bind"
    /\ Ends(p, "no sync needed")
    /\ UNCHANGED <<host, vol, engine>>
    /\ Observes

ProbeBack(p) ==
    /\ pc[p] = "probe" /\ engine
    /\ job[p].back
    /\ pc' = [pc EXCEPT ![p] = "back"]
    /\ UNCHANGED <<host, vol, engine, job, todo, pipe, cp, said>>
    /\ Observes

(* Slip: the patterns are applied to the top level only.                    *)
ProbeTopOnly(p) ==
    /\ pc[p] = "probe" /\ engine
    /\ ~job[p].back /\ job[p].mode # "bind"
    /\ pc' = [pc EXCEPT ![p] = "tar"]
    /\ todo' = [todo EXCEPT ![p] = {f \in Files : Item[f] \notin TopExcluded}]
    /\ UNCHANGED <<host, vol, engine, job, pipe, cp, said>>
    /\ Observes

(* sync_to_volume picks the transport.                                      *)
ProbeForward(p) ==
    /\ pc[p] = "probe" /\ engine
    /\ ~job[p].back /\ job[p].mode # "bind"
    /\ IF TarPipe
       THEN /\ pc' = [pc EXCEPT ![p] = "tar"]
            /\ todo' = [todo EXCEPT ![p] = Source]
       ELSE /\ pc' = [pc EXCEPT ![p] = "create"]
            /\ UNCHANGED todo
    /\ UNCHANGED <<host, vol, engine, job, pipe, cp, said>>
    /\ Observes

-----------------------------------------------------------------------------
(* _sync_via_tar_pipe: tar reads the files one by one on the host, another  *)
(* tar writes them one by one in the volume, and neither exit code is read. *)
(* `docker cp' of an entry is such a pipe too.                              *)

(* Slip: a file that vanished is packed all the same.                       *)
PackVanished(p) ==
    /\ pc[p] \in {"tar", "copy"}
    /\ \E f \in todo[p] :
          /\ todo' = [todo EXCEPT ![p] = @ \ {f}]
          /\ pipe' = [pipe EXCEPT ![p] = @ \cup {CopyOf(p, f)}]
    /\ UNCHANGED <<host, vol, engine, pc, job, cp, said>>
    /\ Observes

Pack(p) ==
    /\ pc[p] \in {"tar", "copy"}
    /\ \E f \in todo[p] :
          /\ todo' = [todo EXCEPT ![p] = @ \ {f}]
          /\ pipe' = IF Tree(p)[f] = Gone THEN pipe
                     ELSE [pipe EXCEPT ![p] = @ \cup {CopyOf(p, f)}]
    /\ UNCHANGED <<host, vol, engine, pc, job, cp, said>>
    /\ Observes

(* The directory that is being copied comes before what lies in it.         *)
Landed(p) == entry[p] \cap DirItems \subseteq dirs[Volume(p)]

Unpack(p) ==
    /\ pc[p] \in {"tar", "copy"}
    /\ Landed(p)
    /\ \E c \in pipe[p] :
          /\ pipe' = [pipe EXCEPT ![p] = @ \ {c}]
          /\ vol' = [vol EXCEPT ![Volume(p)] = Written(@, c)]
    /\ UNCHANGED <<host, engine, pc, job, todo, cp, said>>
    /\ Observes

(* Slip: only the tar on the host is waited for.                            *)
TarEndsEarly(p) ==
    /\ pc[p] = "tar"
    /\ todo[p] = {}
    /\ Ends(p, "ok")
    /\ UNCHANGED <<host, vol, engine>>
    /\ Observes

(* Both processes are gone: all was written, or the container never came up *)
(* or died, a file could not be read, the volume was full.                  *)
TarEnds(p) ==
    /\ pc[p] = "tar"
    /\ (todo[p] = {} /\ pipe[p] = {}) \/ ~Reliable
    /\ Ends(p, "ok")
    /\ UNCHANGED <<host, vol, engine>>
    /\ Observes

-----------------------------------------------------------------------------
(* _sync_via_docker_cp: one `cp' for each top-level entry that is not       *)
(* excluded; what lies below it is not looked at.  `cp' of a directory looks*)
(* first whether there is one in the volume, and then copies into it or     *)
(* makes it; others may act between the two, and while it copies.           *)

CpCreates(p) ==
    /\ pc[p] = "create"
    /\ pc' = [pc EXCEPT ![p] = "cp"]
    /\ \E L \in Listings(p) : items' = [items EXCEPT ![p] = L]
    /\ UNCHANGED <<host, vol, engine, job, todo, pipe, entry, found, dirs, said>>
    /\ Observes

CpLooks(p) ==
    /\ pc[p] = "cp"
    /\ \E i \in items[p] :
          /\ i \in DirItems \/ Content(p, i) # {}
          /\ items' = [items EXCEPT ![p] = @ \ {i}]
          /\ entry' = [entry EXCEPT ![p] = {i}]
          /\ found' = [found EXCEPT ![p] = @ \cup ({i} \cap dirs[Volume(p)])]
          /\ todo' = [todo EXCEPT ![p] = {f \in Files : Item[f] = i}]
    /\ pc' = [pc EXCEPT ![p] = "copy"]
    /\ UNCHANGED <<host, vol, engine, job, pipe, dirs, said>>
    /\ Observes

CpLands(p) ==
    /\ pc[p] = "copy"
    /\ ~Landed(p)
    /\ dirs' = [dirs EXCEPT ![Volume(p)] = @ \cup (entry[p] \cap DirItems)]
    /\ UNCHANGED <<host, vol, engine, pc, job, todo, pipe, items, entry, found, said>>
    /\ Observes

CpCopied(p) ==
    /\ pc[p] = "copy"
    /\ todo[p] = {} /\ pipe[p] = {}
    /\ Landed(p)
    /\ pc' = [pc EXCEPT ![p] = "cp"]
    /\ entry' = [entry EXCEPT ![p] = {}]
    /\ UNCHANGED <<host, vol, engine, job, todo, pipe, items, found, dirs, said>>
    /\ Observes

(* Slip: subprocess.run without check=True.                                 *)
CpFailsQuietly(p) ==
    /\ pc[p] \in {"create", "cp", "copy"}
    /\ ~Reliable
    /\ Ends(p, "ok")
    /\ UNCHANGED <<host, vol, engine>>
    /\ Observes

(* `create' or a `cp' fails, the latter with part of the entry written; one *)
(* that is not there any more makes it fail in any engine.                  *)
CpFails(p) ==
    /\ pc[p] \in {"create", "cp", "copy"}
    /\ ~Reliable \/ \E i \in items[p] \cup entry[p] : Content(p, i) = {}
    /\ Ends(p, "fatal")
    /\ UNCHANGED <<host, vol, engine>>
    /\ Observes

CpEnds(p) ==
    /\ pc[p] = "cp"
    /\ items[p] = {}
    /\ Ends(p, "ok")
    /\ UNCHANGED <<host, vol, engine>>
    /\ Observes

-----------------------------------------------------------------------------
(* sync_from_volume: what /work/build of the volume holds; every failure is *)
(* taken for "no artifacts yet".                                            *)

InVolume(p, f) == {x \in vol[Volume(p)] : x.file = f /\ ~x.deep}

Back(p) ==
    /\ pc[p] = "back"
    /\ \/ /\ InVolume(p, Elf) = {} \/ ~Reliable
          /\ host' = host
       \/ \E x \in InVolume(p, Elf) :
             host' = [host EXCEPT ![job[p].ws][Artifact] = x.holds]
    /\ Ends(p, "ok")
    /\ UNCHANGED <<vol, engine>>
    /\ Observes

(* Ctrl-C between any two steps.                                            *)
Interrupt(p) ==
    /\ pc[p] # "idle"
    /\ Ends(p, "killed")
    /\ UNCHANGED <<host, vol, engine>>
    /\ Observes

-----------------------------------------------------------------------------
(* What happens around the program.                                         *)

Changes(w, f, holds) ==
    /\ host' = [host EXCEPT ![w][f] = holds]
    /\ UNCHANGED <<vol, engine, pc, job, todo, pipe, cp, said>>
    /\ Observes

UserEdits(w, f) ==
    /\ f \notin {Elf, Artifact}
    /\ \E holds \in (Contents \cup {Gone}) \ {host[w][f]} : Changes(w, f, holds)

(* `west env build' in a container: /work is the workspace on the host.     *)
ContainerBuilds(w) ==
    /\ engine
    /\ \E holds \in Contents : Changes(w, Elf, holds)

(* A build in the volume itself, which no action of the program runs.       *)
VolumeBuilds(w) ==
    /\ ByHand /\ engine
    /\ \E holds \in Contents :
          vol' = [vol EXCEPT ![Slug[w]] =
                     Written(@, [file |-> Elf, deep |-> FALSE, from |-> w,
                                 holds |-> holds])]
    /\ UNCHANGED <<host, engine, pc, job, todo, pipe, cp, said>>
    /\ Observes

EngineToggles ==
    /\ engine' = ~engine
    /\ UNCHANGED <<host, vol, pc, job, todo, pipe, cp, said>>
    /\ Observes

-----------------------------------------------------------------------------
Step(p) ==
    \/ ProbeFails(p) \/ ProbeBind(p) \/ ProbeBack(p) \/ ProbeForward(p)
    \/ Pack(p) \/ Unpack(p) \/ TarEnds(p)
    \/ CpCreates(p) \/ CpLooks(p) \/ CpLands(p) \/ CpCopied(p)
    \/ CpFails(p) \/ CpEnds(p)
    \/ Back(p)

Next ==
    \/ \E p \in Procs :
          \/ \E w \in Workspaces, back \in BOOLEAN, mode \in Modes :
                Start(p, w, back, mode)
          \/ Step(p)
          \/ Interrupt(p)
    \/ \E w \in Workspaces :
          \/ \E f \in Files : UserEdits(w, f)
          \/ ContainerBuilds(w) \/ VolumeBuilds(w)
    \/ EngineToggles

Spec == Init /\ [][Next]_vars

(* Fairness: `info' has 15 s to answer.  tar, run, create and cp have no    *)
(* limit: they go on while the engine is up, and owe nothing while it is    *)
(* not.  The user owes nothing.                                             *)
LiveSpec ==
    Spec /\ \A p \in Procs : WF_vars(Step(p) /\ (engine \/ pc[p] = "probe"))

-----------------------------------------------------------------------------
(* Properties.                                                              *)

(* The type of every variable of the model.                                 *)
TypeOK ==
    /\ host \in [Workspaces -> [Files -> Contents \cup {Gone}]]
    /\ vol \in [Volumes -> SUBSET Copy]
    /\ engine \in BOOLEAN
    /\ pc \in [Procs -> {"idle", "probe", "tar", "create", "cp", "copy", "back"}]
    /\ job \in [Procs -> Job]
    /\ todo \in [Procs -> SUBSET Files]
    /\ pipe \in [Procs -> SUBSET Copy]
    /\ items \in [Procs -> SUBSET Items]
    /\ entry \in [Procs -> SUBSET Items]
    /\ found \in [Procs -> SUBSET Items]
    /\ dirs \in [Volumes -> SUBSET Items]
    /\ said \in [Procs -> {"nothing", "ok", "no sync needed", "fatal", "killed"}]
    /\ recent \in [Procs -> [Files -> SUBSET (Contents \cup {Gone})]]

(* No excluded directory is uploaded, at whatever depth it lies: what a     *)
(* volume holds was a source file, or was built there.                      *)
NothingExcluded ==
    \A v \in Volumes : \A x \in vol[v] :
        x.file \in Source \/ (ByHand /\ x.file = Elf)

(* Every file of a volume lies at the path it has in the workspace, however *)
(* often the source was synchronised before.                                *)
PathsMirrored ==
    \A v \in Volumes : \A x \in vol[v] : ~x.deep

Forward(p) == pc[p] # "idle" /\ ~job[p].back

SaysSynced(p) == Forward(p) /\ pc'[p] = "idle" /\ said'[p] = "ok"

(* "source synced" is said only when every source file that was there       *)
(* during the whole sync is in the volume at its own path, as it was at some*)
(* moment of the sync, however often the source was synchronised before.    *)
OkMeansSynced ==
    [][\A p \in Procs : SaysSynced(p) =>
          \A f \in Source : Gone \notin recent[p][f] =>
             \E x \in vol'[Volume(p)] :
                /\ x.file = f /\ ~x.deep
                /\ x.from = job[p].ws /\ x.holds \in recent[p][f]]_vars

(* The same of what the transport itself has to answer for: the file lies   *)
(* where `docker cp' puts it, one directory too deep if it found the        *)
(* directory in the volume.                                                 *)
OkMeansCopied ==
    [][\A p \in Procs : SaysSynced(p) =>
          \A f \in Source : Gone \notin recent[p][f] =>
             \E x \in vol'[Volume(p)] :
                /\ x.file = f /\ x.deep = Deep(p, f)
                /\ x.from = job[p].ws /\ x.holds \in recent[p][f]]_vars

(* The tar pipe implements MirroredVolume: what arrives is what the sync    *)
(* has seen, and "source synced" means that nothing is missing.             *)

SourceTree == [w \in Workspaces |-> [f \in Source |-> host[w][f]]]
Mirrored   == [v \in Volumes |-> [f \in Source |->
                  {x.holds : x \in {y \in vol[v] : y.file = f /\ ~y.deep}}]]
Busy       == [p \in Procs |-> IF Forward(p) THEN {job[p].ws} ELSE {}]
Seen       == [p \in Procs |-> [f \in Source |->
                  IF Forward(p) THEN recent[p][f] ELSE {}]]
Synced     == [p \in Procs |-> said[p] = "ok"]

Mirror == INSTANCE MirroredVolume WITH
              Syncs <- Procs, Files <- Source, host <- SourceTree,
              mirror <- Mirrored, busy <- Busy, seen <- Seen, synced <- Synced

SyncsMirror == Mirror!Spec

(* No two syncs fill one volume at a time.                                  *)
OneSyncPerVolume ==
    \A p, q \in Procs : Forward(p) /\ Forward(q) /\ Volume(p) = Volume(q) => p = q

(* What makes the properties above inductive.                               *)

(* A sync is on the way that its direction and the host give it, and has in *)
(* hand what that way needs.                                                *)
Directed ==
    \A p \in Procs :
        /\ pc[p] = "tar" => ~job[p].back /\ TarPipe
        /\ pc[p] \in {"create", "cp", "copy"} => ~job[p].back /\ ~TarPipe
        /\ pc[p] = "back" => job[p].back
        /\ pc[p] \notin {"tar", "copy"} => todo[p] = {} /\ pipe[p] = {}
        /\ pc[p] \notin {"cp", "copy"} => items[p] = {} /\ found[p] = {}

(* What is in the pipe was read during this sync, in its workspace, and goes*)
(* where the entry of the file goes.                                        *)
PipesAreOwn ==
    \A p \in Procs : \A c \in pipe[p] :
        /\ c.from = job[p].ws
        /\ c.deep = Deep(p, c.file)
        /\ c.holds \in recent[p][c.file]

(* With the tar pipe, what is to go, is going and has gone is source.       *)
TarCarriesSource ==
    /\ \A p \in Procs :
          /\ todo[p] \subseteq Source
          /\ \A c \in pipe[p] : c.file \in Source
    /\ NothingExcluded
    /\ PathsMirrored

(* The history of a sync begins with it and holds what the files are now.   *)
HistoryHolds ==
    \A p \in Procs, f \in Files :
        IF pc[p] = "idle" THEN recent[p][f] = {} ELSE Tree(p)[f] \in recent[p][f]

(* The file is in the volume, as it was at some moment of this sync.        *)
Arrived(p, f) ==
    \E x \in vol[Volume(p)] :
        /\ x.file = f /\ x.deep = Deep(p, f)
        /\ x.from = job[p].ws /\ x.holds \in recent[p][f]

(* A file that was there all along is still to be read, alone or with its   *)
(* entry, is in the pipe, or is in the volume.                              *)
NothingSkipped ==
    \A p \in Procs : pc[p] \in {"tar", "cp", "copy"} =>
        \A f \in Source : Gone \notin recent[p][f] =>
            \/ f \in todo[p] \/ Item[f] \in items[p]
            \/ \E c \in pipe[p] : c.file = f
            \/ Arrived(p, f)

(* After a container build, `sync --back' that reports success has left an  *)
(* artifact on the host.                                                    *)
BackBringsArtifact ==
    [][\A p \in Procs :
          pc[p] = "back" /\ pc'[p] = "idle" /\ said'[p] = "ok"
             /\ host[job[p].ws][Elf] # Gone
          => host'[job[p].ws][Artifact] # Gone]_vars

(* A sync that was started ends with a last line, however busily the user   *)
(* edits meanwhile, unless the engine goes away while files are on their    *)
(* way: nothing bounds that wait (`info' and only it has a time limit).     *)
SyncsEnd ==
    \A p \in Procs :
        pc[p] # "idle" ~> pc[p] = "idle" \/ (~engine /\ pc[p] # "probe")
=============================================================================
