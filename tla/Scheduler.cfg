SPECIFICATION SchedulerSpec
INVARIANTS
    OverlapIsAsDeclared
    ClaimedRunsExist
CHECK_DEADLOCK FALSE
SYMMETRY Peers
CONSTANTS
    t1 = t1
    Triggers = {t1}
    Slots <- Slots2
    Occurrences <- Occurrences2
    Jobs <- Occurrences2
    SubmissionKeys <- Occurrences2
    JobFor <- SameJob2
    Windows <- Slots2
    WindowOf <- OwnWindow2
    Keys = {}
    Digests = {d1}
    Amounts = {0, 1}
    Ceilings = {1}
    Budget = 1
    Lease = 1
    MaxAttempts = 2
    MaxProgress = 0
    MaxNow = 2
    Schedulers = {p1, p2}
    p1 = p1 p2 = p2
    Overlaps = {"skip", "queue", "cancel-previous"}
    MissedPolicies = {"run-once"}
    FirstCursors = {0}
    RunOutcomes = {"unknown"}
    MissedCap = 2
    MaxFaults = 1
