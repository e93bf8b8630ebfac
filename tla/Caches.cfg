SPECIFICATION LiveSpec
CONSTANTS
    Procs = {"p1", "p2"}
    Order <- TwoVolumes
    Ccache = "ccache"
    MaxContainers = 2
INVARIANTS TypeOK ReportsTrue
PROPERTIES CreatesNothingNew CachesEnd
