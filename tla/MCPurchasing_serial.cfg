SPECIFICATION SerialSpec
CONSTANTS
    p = p
    q = q
    n1 = n1
    n2 = n2
    n3 = n3
    None = None
    Tx = {t1}
    Product <- Both
    Number <- ThreeNumbers
    OrderLines <- LongOrders
    Job <- OneByOne
    MaxLine = 4
INVARIANTS
    OldestLineFirst
PROPERTY ImplementsBook
