SPECIFICATION Spec
CONSTANTS
    Windows = FALSE
    Words <- SomeWords
    Others <- SomeOthers
    Typeable <- CacheTokens
    MaxTokens <- Three
    Files <- JustNative
    Paths <- BothInPath
    DropsDashes = TRUE
CHECK_DEADLOCK FALSE
INVARIANTS CcacheOnly
