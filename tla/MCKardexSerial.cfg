SPECIFICATION SerialSpec
CONSTANTS
    p = p
    w1 = w1
    w2 = w2
    NoTx = NoTx
    Tx = {t1, t2, t3, t4}
    Product <- One
    Warehouse <- Two
    Request <- Requests
CHECK_DEADLOCK FALSE
SYMMETRY Sym
INVARIANTS
    CostWithinEntries
PROPERTY ImplementsLedger
