SPECIFICATION PrepFairSpec
CONSTANTS
    Logs <- History
    Body <- Bodies
    Text <- Texts
    Limits = {0, 8, 12, 16, 18, 20, 22, 24, 26, 28, 30, 32, 36, 40, 48, 64}
    Modes = {"summarize", "truncate"}
    Static = 2
    Input = 2
    Header = 4
    Frame = 1
    Bullet = 1
    Mark = 2
    NoCall = NoCall
INVARIANTS
    SelectionsPass
PROPERTIES
    PreparationSettles
CHECK_DEADLOCK FALSE
