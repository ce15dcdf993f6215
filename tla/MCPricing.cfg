SPECIFICATION FormSpec
CONSTANTS
    u1 = u1
    u2 = u2
    p1 = p1
    p2 = p2
    Unit = 100
    Sub = 10
    User <- Users
    Level <- Levels
    First = p1
    Bodies <- SomeBodies
    Patches <- SomePatches
    Created <- SomeCreated
    Budget = 3
    Costs = {100, 250}
    Prices = {335}
    Margins = {25}
    Edits = 2
    FormUser = {u1}
CHECK_DEADLOCK FALSE
INVARIANTS
    ProductAgrees
    HistoryTells
    TrioSquares
PROPERTY UntouchedKept
