\* Crashes, retries and recovery until everything has settled.
CONSTANTS
    s1 = s1
    s2 = s2
    i1 = i1
    i2 = i2
    r1 = r1
    r2 = r2
    None = None
    Base = base
    KeyOf <- MCKeyOf
    Small = {s1}
    Isolated = {i1}
    Recoverers = {r1}
    Recovery = "first"
    Overrun = FALSE
    TTL = 2
    StaleAfter = 2
    MaxAttempts = 2
    MaxCrashes = 1
    MaxClock = 1
    MaxDamage = 0

SPECIFICATION FairSpec
INVARIANTS RecoveryNeverRefused RecordedPairIsPointer
PROPERTIES EachGenerationOnce ImplementsRegister PublicationIsReported IntentSettles
CHECK_DEADLOCK FALSE
