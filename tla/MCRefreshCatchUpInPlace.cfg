CONSTANTS
    fileA = fileA
    fileB = fileB
    w1 = w1
    w2 = w2
    w3 = w3
    base = base
    None = None
    Base = base
    Workers = {w1}
    Sources = {fileA}
    MaxVersion = 2
    MaxLines = 2
    MaxGeneration = 2
    Reading <- MCReading
    Worlds <- MCCatchUpInPlace
    Lapses = "dead"
    Guarded = TRUE
    Starts = {"published"}
    MaxRollbacks = 0

SPECIFICATION Spec
SYMMETRY Alike

PROPERTIES ReadersUndisturbed
CHECK_DEADLOCK FALSE
