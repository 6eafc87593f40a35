CONSTANTS
    fileA = fileA
    fileB = fileB
    w1 = w1
    w2 = w2
    w3 = w3
    base = base
    None = None
    Base = base
    Workers = {w1, w2}
    Sources = {fileA, fileB}
    MaxVersion = 1
    MaxLines = 1
    MaxGeneration = 2
    Reading <- MCReading
    Worlds <- MCLostSource
    Lapses = "dead"
    Guarded = TRUE
    Starts = {"published"}
    MaxRollbacks = 0

SPECIFICATION Spec
SYMMETRY Alike

PROPERTIES SuccessIsTrue
CHECK_DEADLOCK FALSE
