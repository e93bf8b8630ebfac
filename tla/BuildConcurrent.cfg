SPECIFICATION Spec
CONSTANTS
    Windows = FALSE
    Invocations = {p1, p2}
    p1 = p1
    p2 = p2
    Actions = {"build", "benchmark"}
    Files <- EitherMode
    Dirs = {"build", "app/build"}
    TopBuild = "build"
    HostSource <- HomeSource
    ContainerSource <- WorkSource
    WorkPrefixed <- MCWorkPrefixed
    Concurrent = TRUE
    ReadErrors = TRUE
PROPERTIES RemovesOnlyWhenAsked
SYMMETRY Interchangeable
