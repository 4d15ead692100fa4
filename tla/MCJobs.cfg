SPECIFICATION MCSpec
CONSTANTS
    GroupCount = 2
    Cli = {c1, c2}
    Ingest = ingest
    none = none
    MaxChanges = 1
    p1 = p1
    p2 = p2
    r1 = r1
    given = given
    legal1 = legal1
    number1 = number1
    number2 = number2
    domain1 = domain1
    site1 = site1
    tech1 = tech1
SYMMETRY Symmetry
INVARIANTS
    TypesOK
    JournalTellsTheData
    LostLockStops
    DealsAreVisible
    RerunsLandAgain
    JoinedOnLegalEvidence
    SuppressedStaysHidden
    RetiredOnTwoAbsences
PROPERTIES
    RollbackOverwritesNothing
    RecordsStayWhole
