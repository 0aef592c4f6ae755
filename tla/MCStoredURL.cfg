SPECIFICATION Spec
CONSTANTS
    d1 = d1
    d2 = d2
    ip1 = ip1
    product = product
    version = version
    path1 = path1
    path2 = path2
    vs = vs
    n1 = n1
    n2 = n2
    k1 = k1
    m1 = m1
    a1 = a1
    w1 = w1
    None = None
    Domain = {d1, d2}
    IP = {ip1}
    Product = {product}
    Version = {version}
    Port = {}
    Path = {path1, path2}
    Vserver = {}
    VserverOf <- NoVserver
    Subscriber = {"wpscan"}
    Template = {"wpscan"}
    Inputs <- MCInputs
    RateLimitType <- MCRateLimitType
    Instance = {w1}
    TemplateOf <- MCTemplateOf
    IgnoreScope = {}
    ScopeDomains = {d1, d2}
    ScopeIPs = {ip1}
    Resolve <- MCResolve
    Content <- BothSchemes
    MaxArtifacts = 4
    ChannelCap = 1
    CtrlCap = 2
    Crashable = {}
INVARIANTS
    StoredURLNamesSite
CHECK_DEADLOCK FALSE
