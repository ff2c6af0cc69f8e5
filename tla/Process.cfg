SPECIFICATION SpecLoop
CONSTANTS
    r1 = r1
    r2 = r2
    Nobody = Nobody
    s1 = s1
    Replicas = {r1, r2}
    Slots = {s1}
    SendTimeout = 2
    Severities = {1, 2}
    NotifyMinSeverity = 2
    MaxLeft = 1
    PollSec = 2
    PollContextTimeout = 3
    SyncTimeout = 2
    Overrun = 3
    Truncation = 1
    ProbePeriod = 2
    FailureThreshold = 2
    MaxFaults = 2
INVARIANTS
    LiveLoopIsHealthy
    StallIsNoticed
PROPERTIES
    PollingResumes
    SlotsComeBack
