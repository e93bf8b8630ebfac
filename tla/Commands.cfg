SPECIFICATION Spec
CONSTANTS
    Windows = FALSE
    Words <- SomeWords
    Others <- SomeOthers
    Files <- CommandFiles
    Typeable <- CommandTokens
    MaxTokens <- CommandLength
    Paths <- AnyPath
    DropsDashes = TRUE
CHECK_DEADLOCK FALSE
INVARIANTS TypeOK HandedOver OptionsAsTyped LegacyEngine
