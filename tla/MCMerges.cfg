SPECIFICATION MCSpec
CONSTANTS
    Row = {x, y, z}
    Child = {c}
    Key = {k}
    Admin = {a}
    AdminPair = {m, n}
    HeldAtFirst <- EachOnEvery
    None = none
    MaxRecords = 3
    MaxItems = 5
    MaxChanges = 2
    DealCount = 2
    RungCount = 2
    Contributed = {2}
    Window = 1
    Facts <- AlikeAndUnlike
SYMMETRY Symmetry
INVARIANTS
    TypesOK
    ChildrenFollow
    TombstonesHaveRecords
    TombstonesReachALiveRow
    FoldingIsSound
CHECK_DEADLOCK FALSE
