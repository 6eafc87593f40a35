\* A live publisher outlives its lease between its check and its commit.
CONSTANTS
    s1 = s1
    s2 = s2
    i1 = i1
    i2 = i2
    r1 = r1
    r2 = r2
    None = None
    Base = base
    KeyOf <- MCKeyOf
    Small = {s1}
    Isolated = {i1}
    Recoverers = {}
    Recovery = "anytime"
    Overrun = TRUE
    TTL = 1
    StaleAfter = 1
    MaxAttempts = 1
    MaxCrashes = 0
    MaxClock = 1
    MaxDamage = 0

SPECIFICATION Spec
INVARIANT RollbackSealed
CHECK_DEADLOCK FALSE
