SPECIFICATION LiveSpec
CONSTANTS
    Platforms = {"win32", "darwin", "linux"}
    Calls <- MCCalls
    Starts <- MCStarts
    MaxChanges <- MCChanges
INVARIANTS TypeOK PicksTheFirst VerdictTrue
PROPERTIES EndsUnlessHung
