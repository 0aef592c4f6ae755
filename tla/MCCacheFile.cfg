SPECIFICATION CacheFileSpec
CONSTANTS
    d1 = d1
    d2 = d2
    ip1 = ip1
    ip2 = ip2
    None = None
    Domain = {d1, d2}
    IP = {ip1, ip2}
    Product = {}
    Version = {}
    Port = {}
    Path = {}
    Answers <- MCAnswers
    Caller = {"scheduler", "deriver"}
INVARIANTS
    CacheFileInv
    AnswersKept
    FileIsCurrent
    UnreadableNeedsCrash
PROPERTIES
    ImplementsCache
CHECK_DEADLOCK FALSE
