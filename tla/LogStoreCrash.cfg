SPECIFICATION Spec
CONSTANTS
    p1 = p1
    p2 = p2
    p3 = p3
    Nobody = Nobody
    Procs = {p1, p2}
    BatchSizes = {1, 2}
    KeepsWriting = FALSE
    MaxAppends = 2
    MaxKills = 2
    MaxLosses = 1
    MaxFaults = 1
    MaxCloses = 1
    MaxReads = 1
SYMMETRY Lives
INVARIANTS
    ConfirmedSurvives
    NeverCorrupt
    ServedStays
PROPERTIES
    ImplementsAtomicLog
CHECK_DEADLOCK FALSE
