SPECIFICATION HSpec
CONSTANTS
    p = p
    c1 = c1
    c2 = c2
    n1 = n1
    n2 = n2
    f1 = f1
    f2 = f2
    None = None
    Keep = Keep
    Tx = {t1, t2}
    Product <- OneProduct
    Customer <- TwoCustomers
    OrderNumber <- OrderNumbers
    InvoiceNumber <- InvoiceNumbers
    Content <- OnlyMixed
    Job <- Requests
    MaxDoc = 3
    MaxBatch = 4
    Budget = 7
CHECK_DEADLOCK FALSE
INVARIANTS
    OneOrderPerQuotation
    BilledOnce
    InvoicedHasInvoice
PROPERTIES
    OrderMatchesQuotation
    FrozenAfterDraft
SYMMETRY Sym
