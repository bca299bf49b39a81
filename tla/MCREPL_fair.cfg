CONSTANTS
    Closers <- Threads
    LoopCodes <- SomeCodes
    MaxTyped = 1
SPECIFICATION FairSpec
INVARIANTS TypeOK ModesRestored DescriptorsOwn QuietCancel
PROPERTIES Concludes KeepsCalls
CHECK_DEADLOCK FALSE
