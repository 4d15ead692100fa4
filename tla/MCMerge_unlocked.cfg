SPECIFICATION Spec
CONSTANTS
    x = x
    y = y
    z = z
    k = k
    Row = {x, y, z}
    Child = {}
    Key = {k}
    Admin = {a, b}
    None = none
    Locked = FALSE
    HeldAtFirst <- HeldByTwo
    MaxRecords = 3
    MaxItems = 4
SYMMETRY Symmetry
INVARIANT TombstonesReachALiveRow
CHECK_DEADLOCK FALSE
