SPECIFICATION PeopleSpec
CONSTANTS
    Address = {a, b}
    Link = {l1, l2}
    AccountRequest = {r1, r2}
    MaxVersion = 2
    Challenge = {c1, c2}
    Passkey = {p}
    Secret = {s}
    Code = {k1, k2}
    MfaRequest = {q1, q2}
    MaxStep = 1
    MaxAttempts = 1
    FailureLimit = 1
    none = none
SYMMETRY Symmetry
INVARIANT VerifiedWasConfirmed
CHECK_DEADLOCK FALSE
