SPECIFICATION FairSpec
INVARIANTS
    NothingRunsTwice
    ContextIsFrozen
PROPERTIES
    ImplementsGrant
    AuthorizationsEnd
CHECK_DEADLOCK FALSE
CONSTANTS
    Calls = {"a", "k", "d"}
    Policy <- Policy1
    Responses <- Responses1
    Presentations = {"p1", "p2"}
    Barriers = {TRUE, FALSE}
    MaxRounds = 2
    MaxFaults = 3
