SPECIFICATION MCFairSpec
CONSTANTS
    rounds = rounds
    terms = terms
    stage = stage
    status = status
    Section = {rounds}
    Block = {}
    Field = {stage, status}
    PartnerOnlyColumn = {status}
    CardSections = {rounds}
    DefaultSection <- MCDefaultSection
    DefaultField <- MCDefaultField
    PreviewMax = 1
    Value = {a, b}
    NoOverride = none
    Process = {api1, api2}
    Request = {r1}
    Load = {l1, l2}
    TableCount = 1
    MaxWrites = 2
    MaxFailures = 1
    MaxRestarts = 1
    none = none
INVARIANTS
    TypesOK
    ReadsAreMonotone
    ReadsKeepHints
    ReadsMissNoLookup
    ReadsFilterBlindly
    OwnReloadIsServed
PROPERTIES
    NeverOlder
    WritesSpread
