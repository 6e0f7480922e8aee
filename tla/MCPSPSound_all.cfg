SPECIFICATION FairSpec
CONSTANTS
    Types <- MCTypes
    Contents <- AllContents
    MaxCalls = 4
INVARIANTS
    StopLeavesQuiet
    StoppedIsQuiet
PROPERTIES
    ImplementsObject
    StopReturnsUnlessStuck
CHECK_DEADLOCK FALSE
