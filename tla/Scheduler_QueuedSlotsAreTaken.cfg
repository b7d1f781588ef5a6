SPECIFICATION FairSpec
PROPERTIES
    QueuedSlotsAreTaken
CHECK_DEADLOCK FALSE
CONSTANTS
    t1 = t1
    Triggers = {t1}
    Slots <- Slots3
    Occurrences <- Occurrences3
    Jobs <- Occurrences3
    SubmissionKeys <- Occurrences3
    JobFor <- SameJob3
    Windows <- Slots3
    WindowOf <- OwnWindow3
    Keys = {}
    Digests = {d1}
    Amounts = {0, 1}
    Ceilings = {1}
    Budget = 1
    Lease = 1
    MaxAttempts = 2
    MaxProgress = 0
    MaxNow = 3
    Schedulers = {p1}
    p1 = p1 p2 = p2
    Overlaps = {"queue"}
    MissedPolicies = {"skip", "run-once", "run-all"}
    FirstCursors = {0}
    RunOutcomes = {"unknown"}
    MissedCap = 2
    MaxFaults = 0
