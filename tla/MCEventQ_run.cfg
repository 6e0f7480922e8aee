SPECIFICATION FairSpec
CONSTANTS
    s1 = s1
    s2 = s2
    r = r
    NoEvent = NoEvent
    Senders <- MCSenders
    Receiver = r
    KindsOf <- MCKinds
    MaxSends = 2
    MaxResends = 5
INVARIANTS
    NoLostWakeup
PROPERTIES
    Received
    OKReturns
    ImplementsChannel
CHECK_DEADLOCK FALSE
