SPECIFICATION Spec
CONSTANTS
    MaxFd = 4
    PortSpan = 4
    FtpPort = 1
    FirstPort = 2
    Names = {"a", "b"}
    MaxPath = 3
    MaxDepth = 3
INVARIANTS
    LifeLines
    InStep
    PromiseKept
    NoneLost
    CwdLeadsWhereItSays
PROPERTIES
    SessionEnds
CHECK_DEADLOCK FALSE
