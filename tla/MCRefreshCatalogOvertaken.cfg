CONSTANTS
    fileA = fileA
    fileB = fileB
    w1 = w1
    w2 = w2
    w3 = w3
    base = base
    None = None
    Base = base
    Workers = {w1, w2}
    Sources = {fileA}
    MaxVersion = 1
    MaxLines = 2
    MaxGeneration = 3
    Reading <- MCReading
    Worlds <- MCGrows
    Lapses = "unmaintained"
    Guarded = TRUE
    Starts = {"published"}
    MaxRollbacks = 0

SPECIFICATION Spec
SYMMETRY Alike
INVARIANTS CoverageIsTruth

CHECK_DEADLOCK FALSE
