SPECIFICATION Spec
CONSTANTS
    Windows = FALSE
    Invocations = {"p1", "p2"}
    Actions = {"init", "shell", "build"}
    Files <- MCFiles
    Dirs = {"build"}
    TopBuild = "build"
    HostSource <- HomeSource
    ContainerSource <- WorkSource
    WorkPrefixed <- MCWorkPrefixed
    Concurrent = FALSE
    ReadErrors = FALSE
INVARIANTS TypeOK NoStaleBuild ContainerNeedsLayout
PROPERTIES RemovesOnlyStale OneOwner
