\* An instruction is scheduled a second time while it is pending.
CONSTANTS
    Clients = {c1}
    Instrs = {i1, i2}
    IdMod = 16
    MaxChain = 1
    Habits = {"reschedule"}
    Faults = {}
SPECIFICATION FairSpec
CHECK_DEADLOCK FALSE
PROPERTY
    RejectIsHarmless
