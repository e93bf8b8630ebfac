------------------------------ MODULE EnvConfig ------------------------------
(***************************************************************************)
(* What a west-env.yml file means: west_env/config.py.                      *)
(*                                                                         *)
(* A file is a record of the keys that decide anything; a key that the file *)
(* does not have is Absent.  `wellFormed' is FALSE for a file on which      *)
(* yaml.safe_load or the .get() chain of EnvConfig.__init__ raises (a       *)
(* syntax error, or a section such as "env:" left empty).  `image' stands   *)
(* for either of the two places an image may be written in.                 *)
(***************************************************************************)
CONSTANT Windows    \* sys.platform = "win32"

ASSUME WindowsAssumption == Windows \in BOOLEAN

Absent == "absent"

(* A west-env.yml that is missing, or an empty one: EnvConfig({}).          *)
NoFile == [wellFormed |-> TRUE, type |-> Absent, engine |-> Absent,
           backend |-> Absent, mode |-> Absent, image |-> Absent,
           jlink |-> Absent]

ValidBackends ==
    {"auto", "podman-machine-hyperv", "docker-desktop", "podman-native",
     "docker-native", "podman-machine", "docker-machine", "docker", "podman"}

ValidModes == {"sync", "copy", "tmpfs", "bind"}

Default(value, default) == IF value = Absent THEN default ELSE value

(* env.backend, or the new name of the legacy engine.                       *)
BackendOf(file) ==
    LET engine == Default(file.engine, "docker")
    IN  IF file.backend # Absent THEN file.backend
        ELSE IF Default(file.type, "native") = "native" THEN "auto"
        ELSE CASE engine = "docker" -> "docker-native"
               [] engine = "podman" -> "podman-native"
               [] OTHER -> engine

(* env.workspace_mode; only a file that names a backend gets the default of *)
(* the platform.                                                            *)
ModeOf(file) ==
    Default(file.mode,
            IF file.backend # Absent /\ Windows THEN "sync" ELSE "bind")

(* The attributes EnvConfig.__init__ sets, before it validates them.        *)
Settings(file) ==
    [env_type       |-> Default(file.type, "native"),
     engine         |-> Default(file.engine, "docker"),
     backend        |-> BackendOf(file),
     workspace_mode |-> ModeOf(file),
     image          |-> file.image,
     jlink_mode     |-> Default(file.jlink, "host")]

(* load_config returns; otherwise it raises and the command ends.           *)
Accepted(file) ==
    /\ file.wellFormed
    /\ LET cfg == Settings(file)
       IN  /\ cfg.env_type \in {"native", "container"}
           /\ cfg.engine \in {"auto", "docker", "podman"}
           /\ cfg.backend \in ValidBackends
           /\ cfg.workspace_mode \in ValidModes
           /\ cfg.jlink_mode \in {"host", "tcp-server", "none"}

WantsContainer(cfg) ==
    \/ cfg.env_type = "container"
    \/ cfg.backend # "auto"
    \/ cfg.workspace_mode \in {"sync", "copy", "tmpfs"}

HasImage(cfg) == cfg.image # Absent
=============================================================================
