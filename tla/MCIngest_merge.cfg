SPECIFICATION Spec
CONSTANTS
    Record = {p, q}
    Partner = {p, q}
    LegalId = {}
    Number = {}
    Domain = {d}
    Contributed = {}
    none = none
    DealCount = 2
    MaxMerges = 1
    MaxFailures = 0
SYMMETRY Symmetry
INVARIANT DealsAreVisible
CHECK_DEADLOCK FALSE
