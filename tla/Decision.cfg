SPECIFICATION Spec
CONSTANTS
    Processes = {p1, p2}
    Capacity = 3
    Mirrored = TRUE
    MaxDecisions = 5
INVARIANTS
    NothingMissing
PROPERTY
    ImplementsRecent
SYMMETRY Symmetry
CHECK_DEADLOCK FALSE
