CONSTANTS
    h = h
    c1 = c1
    c2 = c2
    w = w
    nobody = nobody
    Handler = h
    Watcher = w
    NoOne = nobody
    Callers <- OneCaller
    Codes <- OneCode
    MaxPending = 1
    MaxWindow = 1
SPECIFICATION Spec
INVARIANT OutputComplete
CHECK_DEADLOCK FALSE
