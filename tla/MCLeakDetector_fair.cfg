CONSTANTS
    Detectors = {d1, d2}
    Names = {n1}
    Getters = {g1}
    Resetters = {r1}
    Nobody = nobody
SPECIFICATION FairSpec
INVARIANTS TypeOK SnapshotConsistent Exclusive OkHonest
PROPERTIES FinishCounts StatsReturn
CHECK_DEADLOCK FALSE
