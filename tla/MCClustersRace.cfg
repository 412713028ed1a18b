SPECIFICATION Spec
CONSTANTS
    None = None
    aks = aks
    gke = gke
    eks = eks
    ns = ns
    Threads = {t1, t2}
    ClusterNames = {aks, gke, eks}
    Unknown = unknown
    Namespaces = {ns}
    Tools = {"nodes"}
    Mode <- MCMode
    Allowed <- MCAllowed
    BuildErrors = {"ConfigException"}
    ReadErrors = {"ApiException 403"}
    TokenLife = 2
    CacheFor = 1
    MaxTime = 2
    MaxCalls = 2
INVARIANT ClientMatchesCluster
CHECK_DEADLOCK FALSE
