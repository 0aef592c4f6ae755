SPECIFICATION SchedFairSpec
CONSTANTS
    d1 = d1
    d2 = d2
    ip1 = ip1
    product = product
    version = version
    path1 = path1
    n1 = n1
    k1 = k1
    a1 = a1
    None = None
    Domain = {d1, d2}
    IP = {ip1}
    Product = {product}
    Version = {version}
    Port = {}
    Path = {path1}
    Vserver = {}
    VserverOf <- NoVserver
    Subscriber = {"nuclei", "katana", "wapalyzer"}
    Template = {"nuclei", "katana", "wapalyzer"}
    TemplateOrder <- ThreeTemplates
    Inputs <- MCInputs
    RateLimitType <- MCRateLimitType
    Instance = {n1, k1, a1}
    TemplateOf <- MCTemplateOf
    IgnoreScope = {"wapalyzer"}
    ScopeDomains = {d1}
    ScopeIPs = {ip1}
    Resolve <- MCResolve
    Content <- HostAndPage
    ScopeContent <- DomainScope
    MaxArtifacts = 4
    ChannelCap = 1
    CtrlCap = 2
    InputCap = 2
    MaxPosts = 3
    Settle = "always"
    Crashable = {}
INVARIANTS
    SchedInv
    FinishedMeansDone
    UploadComplete
PROPERTIES
    Terminates
CHECK_DEADLOCK FALSE
