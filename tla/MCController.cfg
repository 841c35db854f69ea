\* Two documented clients, lists of up to two instructions, failing instructions.
CONSTANTS
    Clients = {c1, c2}
    Instrs = {i1, i2, i3}
    IdMod = 16
    MaxChain = 2
    Habits = {}
    Faults = {"exec"}
SPECIFICATION Spec
SYMMETRY Interchangeable
CHECK_DEADLOCK FALSE
INVARIANTS
    ListOwnsMemory
    IdsIncrease
    WaitKeepsPending
PROPERTIES
    HeadIsStable
    QueueSpec
