SPECIFICATION KeysSpec
CONSTANTS
    Buttons = {"L", "R", "HOLD"}
    Ignored = {"HOLD"}
    ResumeCombo = {"L", "R"}
    Interval = 2
    LongPress = 2
    MaxTime = 4
INVARIANTS
    ReleaseNamesTheKeys
    StuckOnlyAfterTap
    ComboWasPressed
