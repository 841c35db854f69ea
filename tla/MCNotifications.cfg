\* Two flashes over the thread of the screen, and a keyboard that may fail.
CONSTANTS
    Flashers = {f1, f2}
    Channels = 2
    MaxByte = 3
    Colors <- OneColor
    Garbage <- Extremes
    Speed = 2
    Levels = 1
    Repeat = 1
    Faults = {"create", "transfer"}
SPECIFICATION FairSpec
CHECK_DEADLOCK FALSE
INVARIANTS
    KeyboardIsQuiet
    OverrideIsFlash
    WholeUntilFlash
PROPERTIES
    FlashIsUndisturbed
    FadeApproaches
    StopReturns
