\* Every failure, and clients that free after a join or before a start, and
\* that may schedule an instruction a second time.
CONSTANTS
    Clients = {c1, c2}
    Instrs = {i1, i2}
    IdMod = 16
    MaxChain = 2
    Habits = {"reschedule"}
    Faults = {"enable", "create", "exec", "disable", "malloc"}
SPECIFICATION Spec
CHECK_DEADLOCK FALSE
SYMMETRY Interchangeable
INVARIANTS
    NoUseAfterFree
    HalfFreed
    ErrorTells
