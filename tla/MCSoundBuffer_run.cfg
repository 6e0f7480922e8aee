SPECIFICATION FairSpec
CONSTANTS
    DEFAULT_NUM_BUFFERS = 3
    PSP_BUFFER_SIZE_IN_FRAMES = 2
    Prebuffer = 2
    FrameCounts <- MCFrameCounts
    MaxEvents = 1
    MaxCount = 5
INVARIANTS
    CountCovers
PROPERTIES
    EventReceived
    PlayerProgress
