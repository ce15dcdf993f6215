SPECIFICATION LiveSpec
CONSTANTS
    x1 = x1
    x2 = x2
    x3 = x3
    Absent = Absent
    Seed = Seed
    r1 = r1
    r2 = r2
    r3 = r3
    Req <- Requests
    Pool = 3
    Row <- Three
    SoftRow <- SoftRows
    Seeded <- Existing
    Script <- Scripts
CHECK_DEADLOCK FALSE
INVARIANTS
    ChangesAudited
    PhantomOnlyFromTransaction
    OldValuesTrue
PROPERTY EveryRequestEnds
