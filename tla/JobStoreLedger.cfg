SPECIFICATION StoreSpec
CONSTANTS
    j1 = j1
    j2 = j2
    o1 = o1
    o2 = o2
    w1 = w1
    k1 = k1
    s1 = s1
    d1 = d1
    Jobs = {j1, j2}
    Occurrences = {o1, o2}
    Windows = {w1}
    Keys = {}
    SubmissionKeys = {}
    Digests = {d1}
    JobFor <- TwoBindings
    WindowOf <- OneWindow
    Amounts = {0, 1, 2}
    Ceilings = {1}
    Lease = 1
    MaxAttempts = 2
    MaxProgress = 0
    MaxNow = 1
SYMMETRY SlotSymmetry
INVARIANTS
    LedgerWithinCeiling
    FinalizationIsWhole
CHECK_DEADLOCK FALSE
