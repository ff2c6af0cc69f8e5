SPECIFICATION Spec
CONSTANTS
    Backend = "memory"
    e1 = e1
    e2 = e2
    k1 = k1
    Events = {e1, e2}
    InScope = {e1}
    Signals = {k1}
    SignalsOf <- MCSignalsOf
    Actions = {"restart_deployment", "patch_probe"}
    MinSeverity = "medium"
    DedupeTTL = 1
    EventSeenTTL = 1
    SignalMaxAttempts = 4
    MaxEventsPerPoll = 1
    OllamaHTTPTimeout = 1
    PollContextTimeout = 2
    CallMargin = 0
    TimeoutGrace = 1
    NoSignal = NoSignal
    MaxClock = 16
    MaxVersion = 1
    MaxRestarts = 1
    MaxFailures = 0
INVARIANTS
    AttemptsBounded
    SilenceBounded
PROPERTIES
    ImplementsThrottle
CHECK_DEADLOCK FALSE
