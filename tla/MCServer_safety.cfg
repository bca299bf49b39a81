CONSTANTS
    LibraryUses <- Libraries
    Containers <- SomeContainers
    Sessions <- SomeSessions
    Given <- SomeGiven
    Requests <- SomeRequests
    PortSpan = 4
SPECIFICATION Spec
INVARIANTS TypeOK ServerAsConfigured SameContainer ForwardsConfigured
CHECK_DEADLOCK FALSE
