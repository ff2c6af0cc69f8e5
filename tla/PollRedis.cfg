SPECIFICATION SpecHistory
CONSTANTS
    Backend = "redis"
    e1 = e1
    e2 = e2
    k1 = k1
    Events = {e1, e2}
    InScope = {e1, e2}
    Signals = {k1}
    SignalsOf <- MCSignalsOf
    Actions = {"restart_deployment", "patch_probe"}
    MinSeverity = "medium"
    DedupeTTL = 2
    EventSeenTTL = 1
    SignalMaxAttempts = 1
    MaxEventsPerPoll = 1
    OllamaHTTPTimeout = 1
    PollContextTimeout = 3
    CallMargin = 1
    TimeoutGrace = 1
    NoSignal = NoSignal
    MaxClock = 3
    MaxVersion = 1
    MaxRestarts = 2
    MaxFailures = 2
INVARIANTS
    AttemptsBounded
    SeenIsAccounted
PROPERTIES
    ImplementsThrottle
    OneCallPerWindow
    PollsDoTheirShare
SYMMETRY EventSymmetry
CHECK_DEADLOCK FALSE
