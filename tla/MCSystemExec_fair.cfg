CONSTANT ExitCodes <- SomeCodes
SPECIFICATION FairSpec
INVARIANTS TypeOK PanicsExplained
PROPERTIES Reaped KeepsContract
CHECK_DEADLOCK FALSE
