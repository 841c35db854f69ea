\* Control-C pressed twice, in any thread, and every failure.
CONSTANTS
    Width = 2
    Height = 2
    Divider = 2
    MaxByte = 3
    LOWER_TRESHOLD = 2
    UPPER_TRESHOLD = 8
    SATURATION_BIAS = 2
    Colors <- SomeColors
    Rate = 2
    MaxSignals = 2
    AnyThread = TRUE
    Faults = {"detect", "control", "transfer", "disable", "stack"}
SPECIFICATION FairSpec
CHECK_DEADLOCK FALSE
INVARIANTS
    KeyboardIsQuiet
    KeyboardFollows
    DominantIsBright
PROPERTIES
    TargetIsWhole
    InterruptEnds
