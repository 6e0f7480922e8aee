SPECIFICATION Spec
CONSTANTS
    MaxFd = 4
    PortSpan = 4
    FtpPort = 1
    FirstPort = 2
    Names = {"a", "b"}
    MaxPath = 3
    MaxDepth = 3
INVARIANT
    ExitIsNotified
CHECK_DEADLOCK FALSE
