SPECIFICATION FairSpec
CONSTANTS
    ListScreens = {"playlist"}
    Fade = 1
    Hold = 0
    MaxThreads = 2
    MaxCalls = 2
INVARIANTS
    ShowsWhatIsAsked
    OneAtWork
PROPERTY
    DestructorEnds
CHECK_DEADLOCK FALSE
