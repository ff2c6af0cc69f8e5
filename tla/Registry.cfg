SPECIFICATION Spec
CONSTANTS
    v1_9 = v1_9
    v1_9_0 = v1_9_0
    v1_10 = v1_10
    v1_10_musl = v1_10_musl
    latest = latest
    edge = edge
    Tags = {v1_9, v1_9_0, v1_10, v1_10_musl, latest, edge}
    Latest = latest
    NoTag = NoTag
    NotVersion = NotVersion
    Version <- MCVersion
    Answers <- MCAnswers
    Schemes <- MCSchemes
    RequestTimeout = 2
    Budget = 3
INVARIANTS
    NewestWins
PROPERTIES
    LookupReturns
CHECK_DEADLOCK FALSE
