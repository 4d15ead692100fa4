SPECIFICATION MCSpec
CONSTANTS
    Proposal = {i, j}
    Field = {f}
    Value = {blank, human, partner}
    PartnerValue = {partner}
    Blank = blank
    Unset = unset
    Url = {link}
    User = {u}
    Admin = {a}
    None = none
    MaxRevisions = 3
    companyRow = companyRow
    roleRow = roleRow
    holdingRow = holdingRow
    noRow = noRow
    Pair = {m, n}
    Address = {e1, e2}
    Link = {i, j}
    AccountRequest = {r1, r2}
    MaxVersion = 2
    Challenge = {i, j}
    Passkey = {key}
    Secret = {app}
    Code = {k1, k2}
    MfaRequest = {m, n}
    MaxStep = 1
    MaxAttempts = 1
    FailureLimit = 1
    none = none
SYMMETRY MCSymmetry
INVARIANTS
    TypesOK
    TimelineTellsTheRow
    ApprovedIsCited
    MarksCoverPartnerValues
    MailTellsTheStatus
    CountsInOrder
    RowsOnTimeline
    PeopleTypesOK
    RevokedStayRevoked
    VerifiedWasConfirmed
    EnabledMeansAFactor
    UsedOnce
    FailuresBounded
PROPERTIES
    CompanyEditsAreReversible
    FirmEditsAreReversible
    RequiredKeepsAFactor
CHECK_DEADLOCK FALSE
