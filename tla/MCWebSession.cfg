SPECIFICATION Spec
CONSTANTS
    t1 = t1
    o1 = o1
    o2 = o2
    Tab <- MCTab
    Other <- MCOther
    Req <- MCReq
    OtherOps <- MCOps
    Password <- MCPassword
    FirstPassword = 1
    MaxAttempts = 2
    MaxSessions = 1
    MaxReloads = 1
INVARIANTS StoreIsOneSession LiveSessionsCurrent AttemptsLock
PROPERTY CallsEnd
CHECK_DEADLOCK FALSE
