CONSTANTS
    fileA = fileA
    fileB = fileB
    w1 = w1
    w2 = w2
    w3 = w3
    base = base
    None = None
    Base = base
    Workers = {w1, w2}
    Sources = {fileA}
    MaxVersion = 2
    MaxLines = 1
    MaxGeneration = 2
    Reading <- MCReading
    Worlds <- MCRecoveredRollups
    Lapses = "dead"
    Guarded = TRUE
    Starts = {"published"}
    MaxRollbacks = 0

SPECIFICATION Spec
SYMMETRY Alike
INVARIANTS RollupsMatchFacts

CHECK_DEADLOCK FALSE
