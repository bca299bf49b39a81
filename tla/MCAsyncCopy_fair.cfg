CONSTANTS
    Copies = {c1, c2}
    Buffers = {b1, b2}
    Nothing = nothing
SPECIFICATION FairSpec
INVARIANTS TypeOK OneOwner IntactUnlessAbandoned
PROPERTY CanceledEnds
CHECK_DEADLOCK FALSE
