SPECIFICATION FairSpec
CONSTANTS
    p1 = p1
    p2 = p2
    r1 = r1
    r2 = r2
    c1 = c1
    Callers = {c1}
    CommandLimit = 1
    None = None
    Submitters = {p1, p2}
    Requests = {r1, r2}
    MayAsk <- TwoComers
    Keyed = {r1}
    Modes = {"copy", "worktree"}
    FailPoints = {"prepared", "copy", "mark", "started", "snapshot", "sync", "config", "open", "append"}
    Mishaps = {"fail", "kill", "power"}
    MaxMishaps = 2
CONSTRAINT
    CrowdsPrepare
INVARIANTS
    PublishedStays
    NothingSleeps
PROPERTIES
    PreparationIsResumed
