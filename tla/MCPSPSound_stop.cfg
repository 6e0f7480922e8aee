SPECIFICATION FairSpec
CONSTANTS
    Types <- FilesOnly
    Contents <- AllContents
    MaxCalls = 2
PROPERTY StopReturns
CHECK_DEADLOCK FALSE
