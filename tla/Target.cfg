SPECIFICATION Spec
CONSTANTS
    Pods = {"web-5f-x1", "web-2-y2", "db-main-0", "toolbox"}
    ReplicaSets = {"web-5f", "web-2-3d"}
    Deployments = {"web", "web-2", "db"}
    Others = {"node"}
    RSOf <- MCRSOf
    DeploymentOf <- MCDeploymentOf
    NamedRS <- MCNamedRS
    NamedDeployment <- MCNamedDeployment
    None = None
INVARIANTS
    TargetIsSignal
PROPERTY
    NameOnlyForOrphans
