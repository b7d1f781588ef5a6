SPECIFICATION Spec
CONSTANTS
    Members <- Trio
    Advisory = {"guard"}
    Coordinator = "lead"
    Stages <- Relay
    Watchers <- Guarded
    SteerTarget = "lead"
    Budget = 2
    MaxTurns = 6
    MaxDepth = 8
    TurnKinds = {"submits", "idles", "asks", "fails"}
    CallKinds = {"done"}
    Costs = {0, 1}
    HumanActs = {"raise", "prompt", "pause", "unpause"}
    Interrupted = FALSE
    ClockForgets = FALSE
    MaxInputs = 2
    Raise = 1
INVARIANTS
    TurnMarkerIsExact
    NobodyIsStranded
    SilenceIsDiagnosed
    WaitingIsAsked
PROPERTIES
    QuiescenceIsTrue
    TimedStagesEnd
CHECK_DEADLOCK FALSE
