SPECIFICATION Spec
CONSTANTS
    p1 = p1
    p2 = p2
    p3 = p3
    Nobody = Nobody
    Procs = {p1, p2, p3}
    BatchSizes = {1}
    KeepsWriting = FALSE
    MaxAppends = 1
    MaxKills = 0
    MaxLosses = 0
    MaxFaults = 0
    MaxCloses = 2
    MaxReads = 0
SYMMETRY Lives
INVARIANTS
    SingleWriter
CHECK_DEADLOCK FALSE
