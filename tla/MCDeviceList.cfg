\* Any links in the blocks: a bus of up to three keyboards, or of two devices of
\* five kinds, and a second call.
CONSTANTS
    Cells = {m1, m2, m3}
    NULL = NULL
    Wild = Wild
    Garbage <- Links
    Buses <- AllBuses
    MaxCalls = 2
    Lifo = FALSE
SPECIFICATION FairSpec
CHECK_DEADLOCK FALSE
INVARIANTS
    TypeOK
    DetectsTheBus
    StraysOnStale
    DevicesAreFreed
PROPERTIES
    DetectReturns
