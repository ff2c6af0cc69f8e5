SPECIFICATION SpecExec
CONSTANTS
    c1 = c1
    c2 = c2
    Agents = {a1}
    DryRunAgents = {}
    Steps = 5
    MaxRV = 4
    Stamps = {1, 2, 3, 4, 5}
    MinScale = 1
    MaxScale = 5
    ProbeFieldBounds <- MCProbeFieldBounds
    QuantityBounds <- MCBounds
    InitialObject <- TwoContainers
    Requests = {}
    Decisions <- SidecarDecisions
    EditOptIns = {}
    EditReplicas = {}
    EditLimits = {}
    EditImages = {}
    AllowPatch <- SomePatches
    AllowImageUpdates = TRUE
    ImageTagDiscovery = TRUE
    RegistryTags = {"v2"}
    ImageFallbackTag = "stable"
    MemoryFloor = 8
    BumpFactor = 4
    RelaxedProbe <- MCRelaxedProbe
    SchedulableQuantities <- MCSchedulable
    NotSized = NotSized
    NoProbe = NoProbe
    NoProbeType = NoProbeType
    NoTag = NoTag
    NoChange = NoChange
    NoImage = NoImage
    NoRegistry = NoRegistry
    NoRef = NoRef
    NoRequest = NoRequest
    NoSnapshot = NoSnapshot
    Gone = Gone
PROPERTIES
    OOMPatchNeverLowers
