SPECIFICATION ScopeFairSpec
CONSTANTS
    d1 = d1
    d2 = d2
    product = product
    version = version
    path1 = path1
    None = None
    Domain = {d1, d2}
    IP <- MCIP
    Product = {product}
    Version = {version}
    Port = {}
    Path = {path1}
    Width = 2
    Bits = 2
    Answers <- MCAnswers
    Config <- MCConfig
    Asked <- MCAsked
INVARIANTS
    IterationExact
    PublishedForReason
    OutOfBothStaysOut
PROPERTIES
    ScopeEnds
CHECK_DEADLOCK FALSE
