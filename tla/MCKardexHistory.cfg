SPECIFICATION HLiveSpec
CONSTANTS
    p = p
    w1 = w1
    w2 = w2
    NoTx = NoTx
    Tx = {t1, t2, t3}
    Product <- One
    Warehouse <- Two
    Request <- Requests
CHECK_DEADLOCK FALSE
INVARIANTS
    TransferPaired
    TransferAtOriginCost
    DriftOnlyByOverlap
PROPERTY FinishesOnceBegun
