\* Liveness for documented clients.
CONSTANTS
    Clients = {c1}
    Instrs = {i1, i2}
    IdMod = 16
    MaxChain = 2
    Habits = {}
    Faults = {"exec", "disable"}
SPECIFICATION FairSpec
CHECK_DEADLOCK FALSE
PROPERTIES
    StopEnds
    WaitEnds
    ScheduledLeaves
    CallsReturn
