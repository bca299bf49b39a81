CONSTANTS
    s1 = s1  s2 = s2  s3 = s3
    Starts <- Daemons
    Algorithms <- Defaults
    DataLines <- Lines
SPECIFICATION Spec
SYMMETRY Symmetric
INVARIANTS TypeOK Agree FailureExplained
CHECK_DEADLOCK FALSE
