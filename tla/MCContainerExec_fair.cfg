CONSTANTS
    ExitCodes <- SomeCodes
    MaxSent = 2
    MaxWindows = 2
SPECIFICATION FairSpec
INVARIANTS TypeOK OutputBeforeResult WindowFollows
PROPERTIES Stopped KeepsContract
CHECK_DEADLOCK FALSE
