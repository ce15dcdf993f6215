SPECIFICATION Spec
CONSTANTS
    p = p
    l1 = l1
    l2 = l2
    c1 = c1
    c2 = c2
    None = None
    First = l1
    Product <- OneProduct
    Level <- TwoLevels
    Price <- TwoPrices
INVARIANT OverrideRespected
