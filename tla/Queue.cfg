SPECIFICATION Spec
CONSTANTS
    m1 = m1
    m2 = m2
    m3 = m3
    m4 = m4
    m5 = m5
    Msg <- MCMsg
    Null = Null
    BodyLen <- MCBodyLen
    InitialCap = 2
    Limits <- MCLimits
    HasDlx = TRUE
    MaxRequeues = 1
    MaxOoms = 1
SYMMETRY MCSymmetry
INVARIANT BytesExact
PROPERTY FifoOrder
CHECK_DEADLOCK FALSE
