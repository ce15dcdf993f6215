SPECIFICATION LiveSpec
CONSTANTS
    r1 = r1
    r2 = r2
    r3 = r3
    Req <- Requests
    Script <- Scripts
    Initial <- Rows
    FirstSku = 100
CHECK_DEADLOCK FALSE
INVARIANTS
    ForestUnlessMoves
    SkusAccounted
PROPERTIES
    DetachedOnlyByLateArrival
    EveryRequestEnds
