\* Two operations, two workers, one lease: every sidecar call interleaved.
CONSTANTS
    o1 = o1
    o2 = o2
    w1 = w1
    w2 = w2
    p1 = p1
    None = None
    Ops = {o1, o2}
    Workers = {w1, w2}
    Recoveries = {}
    Pubs = {p1}
    Artifacts = {}
    LeaseNames = {"analytical_writer"}
    KeyOf <- MCKeyOf
    TTL = 1
    MaxClock = 1
    MaxToken = 2
    Targets <- MCTargets

SYMMETRY Symmetric
SPECIFICATION Spec
INVARIANTS TypeOK OneActivePerKey
PROPERTIES TerminalImmutable NoRevival TakeoverOnlyWhenStale
CHECK_DEADLOCK FALSE
