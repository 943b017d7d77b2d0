CONSTANTS
    q1 = q1
    q2 = q2
    q3 = q3
    q4 = q4
    Queries = {q1, q2, q3, q4}
    Allowed = {q1, q2, q3}
    NoQuery = NoQuery
    IdSpace = 2
    Timeout = 2
    MaxTime = 4
    XorMask <- FlipLowBit
SYMMETRY QuerySymmetry
SPECIFICATION Spec
INVARIANTS TypeOK AtMostOneAnswer MisdeliveryNeedsReuse
CHECK_DEADLOCK FALSE
