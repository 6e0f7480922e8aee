SPECIFICATION FairSpec
CONSTANTS
    Tracks <- MCTracks
    Files <- MCFiles
    Library <- MCLibrary
    MaxEvents = 1
    MaxCommands = 1
INVARIANTS
    HeardIsShown
    StoppedIsSilent
PROPERTIES
    CursorsLeadSomewhere
    ImplementsObject
    PlayIsAnswered
CHECK_DEADLOCK FALSE
