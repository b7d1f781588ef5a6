SPECIFICATION StoreSpec
CONSTANTS
    j1 = j1
    j2 = j2
    o1 = o1
    o2 = o2
    w1 = w1
    k1 = k1
    s1 = s1
    d1 = d1
    Jobs = {j1}
    Occurrences = {}
    Windows = {}
    Keys = {k1}
    SubmissionKeys = {s1}
    Digests = {d1}
    JobFor <- NoBinding
    WindowOf <- NoWindow
    Amounts = {0}
    Ceilings = {}
    Lease = 2
    MaxAttempts = 3
    MaxProgress = 1
    MaxNow = 6
INVARIANTS
    SingleLiveAttempt
    ReceiptMatchesDispatch
PROPERTIES
    OnlyLiveLeaseCommits
    FrontierNeverRegresses
CHECK_DEADLOCK FALSE
