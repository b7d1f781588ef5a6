SPECIFICATION FairSpec
INVARIANTS
    NeverRepeated
    RecoveryIsTrue
PROPERTIES
    ImplementsEffects
    RunsEnd
CHECK_DEADLOCK FALSE
CONSTANTS
    Decides <- Decides1
    Coordinations = {TRUE, FALSE}
    MaxAttempts = 3
    MaxFaults = 2
