SPECIFICATION Spec
CONSTANTS
    d1 = d1
    d2 = d2
    ip1 = ip1
    product = product
    version = version
    path1 = path1
    path2 = path2
    vs = vs
    n1 = n1
    n2 = n2
    k1 = k1
    m1 = m1
    a1 = a1
    w1 = w1
    None = None
    Domain = {d1, d2}
    IP = {ip1}
    Product = {product}
    Version = {version}
    Port = {}
    Path = {path1, path2}
    Vserver = {vs}
    VserverOf <- OneVserver
    Subscriber = {"nuclei", "katana", "nmap"}
    Template = {"nuclei", "katana", "nmap"}
    Inputs <- MCInputs
    RateLimitType <- MCRateLimitType
    Instance = {n1, n2, k1, m1}
    TemplateOf <- MCTemplateOf
    IgnoreScope = {}
    ScopeDomains = {}
    ScopeIPs = {ip1}
    Resolve <- MCResolve
    Content <- Targets
    MaxArtifacts = 2
    ChannelCap = 1
    CtrlCap = 2
    Crashable = {}
INVARIANTS
    DispatchInv
    ClaimsExclusive
    ExactlyOnce
    NoFatal
    ScanHoldsKey
    OneTaskPerContainer
CHECK_DEADLOCK FALSE
