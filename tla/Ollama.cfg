SPECIFICATION FairSpec
CONSTANTS
    OllamaMaxRetries = 2
    HttpTimeout = 4
    CallMargin = 2
    LookupTime = 1
    PollContextTimeout = 14
    TokenPeriod = 1
    Backoff <- MCBackoff
    Think = TRUE
    MaxClock = 20
INVARIANTS
    TypeOK
    AttemptsBounded
PROPERTIES
    FirstRequestHasItsTime
    DecideReturns
CHECK_DEADLOCK FALSE
