SPECIFICATION PipelineSpec
CONSTANTS
    d1 = d1
    d2 = d2
    d3 = d3
    d4 = d4
    d5 = d5
    localhost = localhost
    ip1 = ip1
    ip2 = ip2
    ip3 = ip3
    loopback = loopback
    wp = wp
    theme = theme
    bug = bug
    leak = leak
    v1 = v1
    root = root
    blog = blog
    p80 = p80
    p443 = p443
    None = None
    Domain = {d1, d2, d3, d4, d5, localhost}
    IP = {ip1, ip2, ip3, loopback}
    Product = {wp, theme, bug, leak}
    Version = {v1}
    Port = {p80, p443}
    Path = {root, blog}
    WordPress = wp
    OpenPorts <- MCOpenPorts
    Loopback = loopback
    Localhost = localhost
    Protocols <- MCProtocols
    Redirects <- MCRedirects
    Pages <- MCPages
    Aborted <- MCAborted
    Fingerprints <- MCFingerprints
    Report <- MCReport
    Subdomains <- MCSubdomains
    PartOf <- MCPartOf
    Matches <- MCMatches
    Template = {"nuclei", "nmap", "subfinder", "katana", "wapalyzer", "wpscan"}
    Subscriber = {"nuclei", "nmap", "subfinder", "katana", "wapalyzer", "wpscan", "deriver"}
    Inputs <- MCInputs
    ChannelCap = 1
    Instances <- MCInstances
    IgnoreScope = {"wapalyzer"}
    ScopeDomains = {d1}
    ScopeIPs <- MCScopeIPs
    Resolve <- MCResolve
    Scopes <- MCScopes
    Event <- MCEvent
    MaxArtifacts = 12
INVARIANTS
    PipelineTypeOK
    WordPressScannedOnce
    FinishedMeansExplored

    
CHECK_DEADLOCK FALSE
