CONSTANTS
    h = h
    c1 = c1
    c2 = c2
    w = w
    nobody = nobody
    Handler = h
    Watcher = w
    NoOne = nobody
    Callers <- ThreeCallers
    Codes <- TwoCodes
    MaxPending = 1
    MaxWindow = 1
SPECIFICATION Spec
SYMMETRY OtherCallers
INVARIANTS SessionInv CallOrder ExitFaithful LeakOkSound
PROPERTY CalledOnce
CHECK_DEADLOCK FALSE
