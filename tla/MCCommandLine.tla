---------------------------- MODULE MCCommandLine ----------------------------
(***************************************************************************)
(* Small instances of CommandLine.                                          *)
(***************************************************************************)
EXTENDS CommandLine

SomeWords  == {"app", "stats", "reset", "setup"}
SomeOthers == {"-b"}

NativeFile == [NoFile EXCEPT !.type = "native"]

(* Every combination of the settings that say where a command runs, and     *)
(* files without an image, without a J-Link, and that cannot be read.       *)
AllFiles ==
    [wellFormed : {TRUE}, type : {Absent, "native", "container"},
     engine : {Absent, "auto", "docker", "podman"},
     backend : {Absent, "auto", "docker-desktop", "podman-native", "lxc"},
     mode : {Absent, "sync"}, image : {"zephyr"}, jlink : {Absent}]
    \cup {[NoFile EXCEPT !.type = "container"], [NoFile EXCEPT !.jlink = "none"],
          [NoFile EXCEPT !.wellFormed = FALSE]}

(* One file is tried with every line of up to five tokens, the others with  *)
(* every action and one more token.                                         *)
CommandFiles == AllFiles \cup {NativeFile}

ParserTokens ==
    {"build", "sync", "app", "-b", "--clean", "--container", "--mode", "--", "-h"}
DispatchTokens == Actions \cup {"--container", "--back", "--backend", "podman", "reset"}
CommandTokens  == [f \in Files |-> IF f = NativeFile THEN ParserTokens ELSE DispatchTokens]
CommandLength  == [f \in Files |-> IF f = NativeFile THEN 5 ELSE 2]

CacheTokens   == [f \in Files |-> {"cache", "reset", "--ccache", "--modules"}]
Three         == [f \in Files |-> 3]

AnyPath  == SUBSET Engines
BothInPath == {Engines}
JustNative == {NativeFile}
=============================================================================
