SPECIFICATION Spec
CONSTANTS
    Members <- Trio
    Advisory = {"guard"}
    Coordinator = "lead"
    Stages <- Timed
    Watchers <- Reviewed
    SteerTarget = "lead"
    Budget = 0
    MaxTurns = 0
    MaxDepth = 8
    TurnKinds = {"submits", "idles"}
    CallKinds = {"done", "deny", "lost"}
    Costs = {0}
    HumanActs = {"prompt", "pause", "unpause", "reply", "cancel"}
    Interrupted = TRUE
    ClockForgets = TRUE
    MaxInputs = 3
    Raise = 1
INVARIANTS
    StageResolvesOnce
PROPERTIES
    PromptsAreServed
CHECK_DEADLOCK FALSE
