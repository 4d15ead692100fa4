SPECIFICATION SerialSpec
CONSTANTS
    Proposal = {p, q}
    Field = {f}
    Value = {blank, human, partner}
    PartnerValue = {partner}
    Blank = blank
    Unset = unset
    Url = {link}
    User = {u}
    Admin = {a}
    None = none
    MaxRevisions = 3
SYMMETRY Symmetry
INVARIANTS
    PartnerValuesMasked
