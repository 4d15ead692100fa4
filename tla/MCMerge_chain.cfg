SPECIFICATION SerialSpec
CONSTANTS
    x = x
    y = y
    z = z
    k = k
    Row = {x, y, z}
    Child = {}
    Key = {k}
    Admin = {a}
    None = none
    Locked = TRUE
    HeldAtFirst <- HeldByTwo
    MaxRecords = 3
    MaxItems = 4
SYMMETRY Symmetry
INVARIANT ReversedIsRestored
CHECK_DEADLOCK FALSE
