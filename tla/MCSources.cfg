\* Two refreshers over files that grow, or that change in every way.
CONSTANTS
    r1 = r1
    r2 = r2
    None = None
    Refreshers = {r1, r2}
    Paths = {1, 2}
    MaxFiles = 2
    MaxBytes = 5
    Habits <- MCHabits
    Malformed = {2}
    MaxEdits = 3

SPECIFICATION FairSpec
INVARIANTS PrefixIsPublished CoverageReconciles PlacesAreUnique
PROPERTIES CursorsAdvance EverythingIsPublished
CHECK_DEADLOCK FALSE
