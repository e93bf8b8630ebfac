---------------------------- MODULE MCBuildCheck ----------------------------
(***************************************************************************)
(* Small instances of BuildCheck.                                           *)
(***************************************************************************)
EXTENDS BuildCheck, TLC

(* One file for each thing a file can decide: native and container mode, a  *)
(* container mode without an image, and a file that load_config rejects.    *)
NativeFile      == [NoFile EXCEPT !.type = "native"]
ContainerFile   == [NoFile EXCEPT !.backend = "docker-native", !.image = "zephyr"]
ImagelessFile   == [NoFile EXCEPT !.type = "container"]
RejectedFile    == [NoFile EXCEPT !.mode = "rsync"]

MCFiles == {NativeFile, ContainerFile, ImagelessFile, RejectedFile}

(* One file for both modes: --container chooses.                            *)
EitherMode == {[NativeFile EXCEPT !.image = "zephyr"]}

HomeSource      == "/home/dev/ws/app"
WorkspaceSource == "/workspaces/ws/app"
WorkSource      == "/work/app"
MCWorkPrefixed  == {WorkSource, WorkspaceSource}

(* Invocations differ in nothing but their name.                            *)
Interchangeable == Permutations(Invocations)
=============================================================================
