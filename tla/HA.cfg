SPECIFICATION FairSpec
CONSTANTS
    s1 = s1
    Replicas = {r1, r2}
    Versions = {v1}
    Signals = {s1}
    SignalOf <- MCSignalOf
    SignalMaxAttempts = 1
    NoReplica = NoReplica
    NoVersion = NoVersion
    MaxCount = 3
INVARIANTS
    AttemptsBounded
    DecisionsPerWindow
PROPERTIES
    NewOnlyOnce
    OutageNeverBlocks
