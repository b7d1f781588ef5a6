SPECIFICATION MemorySpec
CONSTANTS
    w1 = w1
    w2 = w2
    Records = {"a"}
    Ephemeral = {"a"}
    Writers = {w1, w2}
    Origins = {"host"}
    OriginOf <- Common
    Mishaps = {"claim", "create", "write", "sync", "release", "crash", "power"}
    MaxMishaps = 1
    MaxVersions = 4
SYMMETRY WriterSymmetry
INVARIANTS
    CorrectionsAreExclusive
    WrittenSurvives
    DeletedStaysDeleted
CHECK_DEADLOCK FALSE
