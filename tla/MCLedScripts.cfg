SPECIFICATION Spec
CONSTANTS
    Unit = 3
    Bursts <- MCBursts
    MaxBytes = 800
INVARIANTS
    BrightnessInRange
    OneColourAtATime
PROPERTIES
    CycleNeverDark
    LevelShowsInterval
    EachColourAgain
CHECK_DEADLOCK FALSE
