SPECIFICATION Spec
CONSTANTS
    w1 = w1
    w2 = w2
    Procs = {"p1"}
    Workspaces = {w1}
    Volumes = {"ws-a", "ws-b"}
    Slug <- DistinctSlug
    Files <- OnePath
    Item <- MCItem
    DirItems <- MCDirItems
    TopExcluded = {"build"}
    DeepExcluded <- MCDeepExcluded
    Elf = "build/zephyr.elf"
    Artifact = "artifacts/zephyr.elf"
    Contents = {c1, c2}
    Gone = gone
    Modes = {"sync"}
    TarPipe = FALSE
    Reliable = TRUE
    ByHand = FALSE
PROPERTY OkMeansSynced
