SPECIFICATION OpenVASSpec
CONSTANTS
    MaxRuns = 2
    MaxPosts = 2
    StuckLimit = 1
    MaxTries = 2
INVARIANTS
    OpenVASInv
    CleanRunsNotRefused
    FinishHonest
    LeftoversNeedDeath
    OneJobPerScan
    ReportOfEndedJob
    CleanedUp
PROPERTIES
    Answered
CHECK_DEADLOCK FALSE
