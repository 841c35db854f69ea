\* Three calls, up to two late replies, transfers out that fail, commands
\* that the keyboard rejects.
CONSTANTS
    Calls <- AllCalls
    LedPackets = 2
    MaxCalls = 3
    MaxLate = 2
    Faults = {"late", "out", "reject"}
SPECIFICATION Spec
CHECK_DEADLOCK FALSE
INVARIANTS
    SuccessIsObeyed
    ObeyedInTheEnd
    Lagging
