SPECIFICATION Spec
CONSTANTS
    d1 = d1
    d2 = d2
    Dev = {d1, d2}
    NFiles = 1
    Interval = 1
    Batch = 2
    Keep = 1
    MaxOps = 3
    MaxSeq = 2
    MaxPasses = 2
    MaxMishaps = 1
INVARIANTS TypeOK AppliedIsApplied RestoredUnlessExposed
PROPERTIES ActiveNeverRebuilds
SYMMETRY Symm
CHECK_DEADLOCK FALSE
