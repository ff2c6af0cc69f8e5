SPECIFICATION SpecKube
CONSTANTS
    c1 = c1
    c2 = c2
    Agents = {a1, a2, dry}
    DryRunAgents = {dry}
    Steps = 2
    MaxRV = 3
    Stamps = {1, 2, 3}
    MinScale = 1
    MaxScale = 5
    ProbeFieldBounds <- MCProbeFieldBounds
    QuantityBounds <- MCQuantityBounds
    InitialObject <- MCObject
    Requests <- MCMixedRequests
    EditOptIns <- MCOptIns
    EditReplicas = {}
    EditLimits = {2}
    EditImages = {}
    NoProbe = NoProbe
    NoChange = NoChange
    NoImage = NoImage
    NoRegistry = NoRegistry
    NoRef = NoRef
    NoRequest = NoRequest
    NoSnapshot = NoSnapshot
    Gone = Gone
INVARIANTS
    CopiesAreTrue
    RequestsStayWithinLimits
PROPERTIES
    NothingClobbered
    OptInAtCommit
    LastChangeReverts

