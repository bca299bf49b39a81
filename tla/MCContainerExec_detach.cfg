CONSTANTS
    ExitCodes <- SomeCodes
    MaxSent = 2
    MaxWindows = 2
SPECIFICATION Spec
INVARIANT ResultAfterExit
CHECK_DEADLOCK FALSE
