\* Two keyboards and every failure but the two that lose a handle.
CONSTANTS
    Handles = {h1, h2}
    NULL = NULL
    MaxBus = 2
    Buses <- TwoKeyboards
    Wanted = {"DEV_ANY", "DEV_RGB_L", "DEV_RGB_S", "DEV_RGB_M"}
    Faults = {"list", "reopen", "memory", "driver", "claim", "mode", "transfer", "release", "reset"}
    Habits = {}
SPECIFICATION Spec
SYMMETRY Interchangeable
CHECK_DEADLOCK FALSE
INVARIANTS
    NothingLeaks
PROPERTIES
    LeaseSpec
