CONSTANTS
    r1 = r1
    r2 = r2
    control = control
    transfer = transfer
    nobody = nobody
    Resolvers = {r1, r2}
    Control = control
    Transfer = transfer
    NoThread = nobody
    CheckInterval = TRUE
    CanBreak = FALSE
    MaxVersion = 2
    MaxState = 2
SYMMETRY Symmetric
SPECIFICATION Spec
INVARIANT LookupSeesWholeZone
