\* Every failure on any bus, and programs that set the global handle again.
CONSTANTS
    Handles = {h1, h2}
    NULL = NULL
    MaxBus = 2
    Buses <- MixedBuses
    Wanted = {"DEV_ANY", "DEV_RGB_S", "DEV_RGB_L"}
    Faults = {"list", "reopen", "memory", "create", "driver", "claim", "mode", "firmware", "transfer", "release", "reset"}
    Habits = {"replace_global"}
    Started <- StartedOn
SPECIFICATION ProgramsSpec
SYMMETRY Interchangeable
CHECK_DEADLOCK FALSE
INVARIANTS
    NothingDangles
    UsbHandlesKept
    KeyboardsAreGivenBack
    StructsAreFreed
    DeadIsTold
