SPECIFICATION Spec
CONSTANTS
    r1 = r1
    r2 = r2
    q1 = q1
    q2 = q2
    q3 = q3
    all = all
    b1 = b1
    b2 = b2
    Null = Null
    Keep = Keep
    AccessAll = all
    Req <- MCReq
    Role <- MCRole
    Permission <- MCPermission
    Branch <- MCBranch
    Operation <- MCOps
SYMMETRY MCSymmetry
INVARIANTS SetsAreWhole DefaultAllowed
PROPERTY AssignmentLostOnlyIfLate
CHECK_DEADLOCK FALSE
