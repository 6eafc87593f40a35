\* Three publications and a rollback at any time; workers may be overtaken and
\* may die before they announce anything.
CONSTANTS
    w1 = w1
    w2 = w2
    c1 = c1
    c2 = c2
    None = None
    Workers = {w1, w2}
    Consoles = {c1}
    Retention = 2
    Limit = 1
    MaxPublication = 3
    Rollbacks = "any"
    MaxAsked = 1
    MaxLost = 1
    MaxFailures = 1
    MaxDisturbances = 1
    Empty = FALSE

SPECIFICATION FairSpec
INVARIANTS AnnouncedOnce JournalIsSuffix
PROPERTIES SilenceIsCurrent ConsoleCatchesUp
CHECK_DEADLOCK FALSE
