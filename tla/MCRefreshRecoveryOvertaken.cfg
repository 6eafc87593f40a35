CONSTANTS
    fileA = fileA
    fileB = fileB
    w1 = w1
    w2 = w2
    w3 = w3
    base = base
    None = None
    Base = base
    Workers = {w1, w2, w3}
    Sources = {fileA}
    MaxVersion = 1
    MaxLines = 2
    MaxGeneration = 2
    Reading <- MCReading
    Worlds <- MCDies
    Lapses = "unmaintained"
    Guarded = TRUE
    Starts = {"published"}
    MaxRollbacks = 0

SPECIFICATION Spec
SYMMETRY Alike

PROPERTIES RecoveryIsOwned
CHECK_DEADLOCK FALSE
