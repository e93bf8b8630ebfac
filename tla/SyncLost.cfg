SPECIFICATION Spec
CONSTANTS
    w1 = w1
    w2 = w2
    Procs = {"p1"}
    Workspaces = {w1}
    Volumes = {"ws-a", "ws-b"}
    Slug <- DistinctSlug
    Files <- SourcePaths
    Item <- MCItem
    DirItems <- MCDirItems
    TopExcluded = {"build"}
    DeepExcluded <- MCDeepExcluded
    Elf = "build/zephyr.elf"
    Artifact = "artifacts/zephyr.elf"
    Contents = {c1}
    Gone = gone
    Modes = {"sync"}
    TarPipe = TRUE
    Reliable = FALSE
    ByHand = FALSE
PROPERTY OkMeansSynced
