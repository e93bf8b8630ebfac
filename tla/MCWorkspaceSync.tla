--------------------------- MODULE MCWorkspaceSync ---------------------------
(***************************************************************************)
(* Small instances of WorkspaceSync: a workspace of a source file in a      *)
(* directory, a source file at the top, a file in an excluded directory     *)
(* below app/, what a build leaves and what sync --back writes.             *)
(***************************************************************************)
EXTENDS WorkspaceSync, TLC

CONSTANTS w1, w2

Outputs      == {"build/zephyr.elf", "artifacts/zephyr.elf"}
RepoPaths    == {"app/main.c", "app/.git/HEAD"} \cup Outputs
SourcePaths  == {"app/main.c", "west.yml"} \cup Outputs
OnePath      == {"app/main.c"} \cup Outputs

TopLevel(f) ==
    CASE f \in {"app/main.c", "app/.git/HEAD"} -> "app"
      [] f = "west.yml"             -> "west.yml"
      [] f = "build/zephyr.elf"     -> "build"
      [] f = "artifacts/zephyr.elf" -> "artifacts"

MCItem     == [f \in Files |-> TopLevel(f)]
MCDirItems == {"app", "build", "artifacts"}
MCDeepExcluded == {"app/.git/HEAD"} \cap Files

(* Workspaces of different base names.                                      *)
DistinctSlug == [w \in Workspaces |-> IF w = w1 THEN "ws-a" ELSE "ws-b"]

(* What a file holds is compared with what it held, and with nothing else.  *)
Interchangeable == Permutations(Contents)
=============================================================================
