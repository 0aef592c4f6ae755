SPECIFICATION SchedSpec
CONSTANTS
    d1 = d1
    d2 = d2
    ip1 = ip1
    product = product
    version = version
    path1 = path1
    n1 = n1
    k1 = k1
    a1 = a1
    None = None
    Domain = {d1, d2}
    IP = {ip1}
    Product = {product}
    Version = {version}
    Port = {}
    Path = {path1}
    Vserver = {}
    VserverOf <- NoVserver
    Subscriber = {"nuclei"}
    Template = {"nuclei"}
    TemplateOrder <- OneTemplate
    Inputs <- MCInputs
    RateLimitType <- MCRateLimitType
    Instance = {n1}
    TemplateOf <- MCTemplateOf
    IgnoreScope = {}
    ScopeDomains = {d1}
    ScopeIPs = {ip1}
    Resolve <- MCResolve
    Content <- OnlyDomains
    ScopeContent <- DomainScope
    MaxArtifacts = 2
    ChannelCap = 2
    CtrlCap = 2
    InputCap = 2
    MaxPosts = 1
    Settle = "sleep"
    Crashable = {}
INVARIANTS
    FinishedMeansDone
CHECK_DEADLOCK FALSE
