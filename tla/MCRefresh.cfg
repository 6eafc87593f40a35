\* Three workers, who may die over files that grow, or meet files that change in between.
CONSTANTS
    fileA = fileA
    fileB = fileB
    w1 = w1
    w2 = w2
    w3 = w3
    base = base
    None = None
    Base = base
    Workers = {w1, w2, w3}
    Sources = {fileA, fileB}
    MaxVersion = 2
    MaxLines = 2
    MaxGeneration = 3
    Reading <- MCReading
    Worlds <- MCWorlds
    Lapses = "dead"
    Guarded = TRUE
    Starts = {"empty", "published"}
    MaxRollbacks = 1

SPECIFICATION Spec
SYMMETRY Alike
INVARIANTS CoverageIsTruth RollupsMatchFacts
PROPERTIES SuccessIsTrue ReadersUndisturbed NextGeneration PublishedAllowance
CHECK_DEADLOCK FALSE
