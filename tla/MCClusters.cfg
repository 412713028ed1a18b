SPECIFICATION Spec
CONSTANTS
    None = None
    aks = aks
    gke = gke
    eks = eks
    ns = ns
    Threads = {t1, t2}
    ClusterNames = {aks, gke, eks}
    Unknown = unknown
    Namespaces = {ns}
    Tools = {"pods", "nodes", "mesh", "job_diagnosis"}
    Mode <- MCMode
    Allowed <- MCAllowed
    BuildErrors = {"ConfigException"}
    ReadErrors = {"ApiException 403"}
    TokenLife = 2
    CacheFor = 1
    MaxTime = 2
    MaxCalls = 2
INVARIANTS
    TypeOK
    RightClusterIfShared
    
PROPERTIES
    FreshWhenBuilt
    EveryCallEnds
CHECK_DEADLOCK FALSE
