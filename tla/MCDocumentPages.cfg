\* The pages of documents: what is saved, pressed, created and shown.
SPECIFICATION PagesSpec
CONSTANTS
    d1 = d1
    d2 = d2
    Doc = {d1, d2}
    Shared = {d1}
    CallSlot = {1, 2}
    Pages <- MCPages
    Grants <- MCGrants
    MaxVersion = 3
    MaxOpening = 2
    MaxPresses <- MCMaxPresses
    None = None
INVARIANTS SavedWhereShown FreshPressAccepted CreatedOnce
PROPERTIES  ListCatchesUp
CHECK_DEADLOCK FALSE
