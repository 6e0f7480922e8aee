SPECIFICATION OpenFairSpec
CONSTANTS
    Sockets <- MCSockets
    NoFD <- MCNoFD
    Relocations = 2
    Ticks = 2
INVARIANT ReturnedIsAnswered
PROPERTIES LossesAreNamed HangupEndsOpen
