SPECIFICATION OrderedSpec
CONSTANTS
    r1 = r1
    r2 = r2
    r3 = r3
    r4 = r4
    Stop = Stop
    Requests <- Four
    MaxConcurrent <- TwoSlots
INVARIANTS
    EachRequestInOnePlace
    SlotsAccounted
    QueueHasAWaker
    NoOvertaking
PROPERTIES
    EveryRequestAnswered
    ServiceSpec
CHECK_DEADLOCK FALSE
