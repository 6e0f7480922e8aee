SPECIFICATION FairSpec
CONSTANTS
    MaxUI = 3
    MaxPlugins = 2
    MaxLoads = 3
    MaxEvents = 2
INVARIANTS
    PointerSettles
    KeysMeetAUI
PROPERTIES
    PollingResumes
    KeysComeBack
CHECK_DEADLOCK FALSE
