SPECIFICATION FairHostSpec
CONSTANTS
    Hosts = {"h1", "h2"}
    Answers = {"a1"}
    Cancels = {"c1"}
    MaxWorkers = 2
    MaxAsks = 1
    MaxMishaps = 1
INVARIANTS
    OneCallInFlight
    DecisionsLandOnce
    StoreAgrees
PROPERTIES
    JobsAreTakenOver
CHECK_DEADLOCK FALSE
