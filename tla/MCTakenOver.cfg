\* A lease is taken over before recovery runs.
CONSTANTS
    s1 = s1
    s2 = s2
    i1 = i1
    i2 = i2
    r1 = r1
    r2 = r2
    None = None
    Base = base
    KeyOf <- MCKeyOf
    Small = {s1}
    Isolated = {i1}
    Recoverers = {r1}
    Recovery = "alone"
    Overrun = FALSE
    TTL = 2
    StaleAfter = 2
    MaxAttempts = 1
    MaxCrashes = 0
    MaxClock = 1
    MaxDamage = 0

SPECIFICATION FairSpec
PROPERTY RecoveryRequiredEnds
CHECK_DEADLOCK FALSE
