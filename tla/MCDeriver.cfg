SPECIFICATION DeriverFairSpec
CONSTANTS
    d1 = d1
    d2 = d2
    ip1 = ip1
    ip2 = ip2
    p1 = p1
    None = None
    Domain = {d1, d2}
    IP = {ip1, ip2}
    Product = {}
    Version = {}
    Path = {}
    Answers <- MCAnswers
    Subscriber = {"deriver"}
    Inputs <- MCInputs
    ChannelCap = 1
    Port = {p1}
    Given <- MCGiven
    Lapsing = {d2}
INVARIANTS
    Complete
    PanicNeedsLostEntry
PROPERTIES
    DerivedOnce
    DerivedEventually
CHECK_DEADLOCK FALSE
