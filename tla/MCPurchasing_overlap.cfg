SPECIFICATION OSpec
CONSTANTS
    p = p
    q = q
    n1 = n1
    n2 = n2
    n3 = n3
    None = None
    Tx = {t1, t2}
    Product <- Both
    Number <- TwoNumbers
    OrderLines <- ShortOrders
    Job <- Requests
    MaxLine = 3
    Budget = 5
CHECK_DEADLOCK FALSE
INVARIANTS
    ReceiptsKeepTheirOrder
    ReceiptsFitUnlessRace
    ClosedUnlessRace
SYMMETRY Sym
