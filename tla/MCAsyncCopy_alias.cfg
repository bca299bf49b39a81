CONSTANTS
    Copies = {c1, c2}
    Buffers = {b1, b2}
    Nothing = nothing
SPECIFICATION Spec
INVARIANT Intact
CHECK_DEADLOCK FALSE
