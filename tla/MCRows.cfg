SPECIFICATION FairSpec
CONSTANTS
    None = None
    Sessions = {"a", "b", "c"}
    Tools = {"t"}
    Calls = {"k", "l"}
    Components = {"m"}
    Sources = {1, 2}
    Worlds <- MCWorlds
INVARIANTS RootsAreCurrent ArtifactValidates SameAsRebuilt
PROPERTIES DeltaIsTheDifference EverythingIsPublished
CHECK_DEADLOCK FALSE
