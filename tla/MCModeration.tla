---------------------------- MODULE MCModeration ----------------------------
(***************************************************************************)
(* The moderators' work for TLC, one kind of submission per behaviour      *)
(* (part): edits of a company, edits of a firm; contributed rows decided   *)
(* one at a time, a role and its people (rows) or while the contributor's  *)
(* account changes (mails); and rows on which two admins overlap (pairs).  *)
(* Beside them the accounts of the people who do it, the two parts of      *)
(* MCAccounts.  The variables of the other parts stay at one initial value.*)
(***************************************************************************)
EXTENDS ProposalModeration, MCAccounts

CONSTANTS
    companyRow, roleRow, holdingRow,  \* the contributed rows
    noRow,                            \* none of them
    Pair                              \* two admins at work on the same rows

VARIABLES
    firm, owner, firmKey, firmProp, firmReq, firmIngest,
    status, personOf, people, roleCount, firmStatus, entries, submitter, rowReq, mail, untold

Firm == INSTANCE FirmEdits WITH
    partnerKey <- firmKey, prop <- firmProp, req <- firmReq, ingest <- firmIngest

\* A company's own row and a role on it, with up to two people of its name.
Rows == INSTANCE RowModerationProofs WITH
    Row <- {companyRow, roleRow}, CompanyRow <- companyRow, RoleRow <- {roleRow},
    HoldingRow <- {}, NoRow <- noRow, MaxPeople <- 2, MaxEntries <- 2,
    firm <- firmStatus, timeline <- entries, req <- rowReq

\* A company's own row and a holding of it, decided by a pair of admins.
Pairs == INSTANCE RowModerationProofs WITH
    Row <- {companyRow, holdingRow}, CompanyRow <- companyRow, RoleRow <- {},
    HoldingRow <- {holdingRow}, Admin <- Pair, NoRow <- noRow, MaxPeople <- 0, MaxEntries <- 2,
    firm <- firmStatus, timeline <- entries, req <- rowReq

ASSUME PartsAssumption ==
    Firm!FirmAssumption /\ Rows!RowAssumption /\ Pairs!RowAssumption

firmVars == <<firm, owner, firmKey, firmProp, firmReq, firmIngest>>
rowVars == <<status, personOf, people, roleCount, firmStatus, entries, submitter, rowReq, mail, untold>>
allVars == <<part, vars, firmVars, rowVars, accountVars, mfaVars>>

\* One initial state of each part, for the behaviours that leave it alone.
companyAtRest ==
    /\ company = IdleRow /\ partnerKey = FALSE
    /\ prop = [p \in Proposal |-> NoRow] /\ timeline = [f \in Field |-> <<>>]
    /\ citation = {} /\ banned = {}
    /\ req = [a \in Admin |-> IdleRequest] /\ ingest = IdleIngest

firmAtRest ==
    /\ owner = "PUBLIC" /\ firm = Firm!NoRow /\ firmKey = FALSE
    /\ firmProp = [p \in Proposal |-> Firm!NoEdit]
    /\ firmReq = [a \in Admin |-> Firm!IdleRequest] /\ firmIngest = Firm!IdleIngest

rowsAtRest ==
    /\ status = [r \in {companyRow, roleRow} |-> "PENDING"]
    /\ personOf = [r \in {roleRow} |-> 0]
    /\ people = [p \in 1 .. 2 |-> [exists |-> FALSE, suppressed |-> FALSE, mergedInto |-> 0]]
    /\ roleCount = [p \in 1 .. 2 |-> 0]
    /\ firmStatus = <<>>
    /\ entries = [r \in {companyRow, roleRow} |-> <<>>]
    /\ submitter = [admin |-> FALSE, banned |-> FALSE, verified |-> TRUE]
    /\ rowReq = [a \in Admin |-> Rows!IdleRequest]
    /\ mail = [r \in {companyRow, roleRow} |-> <<>>]
    /\ untold = {}

peopleAtRest == accountAtRest /\ factorsAtRest

MCInit ==
    \/ part = "company" /\ Init /\ firmAtRest /\ rowsAtRest /\ peopleAtRest
    \/ part = "firm" /\ companyAtRest /\ Firm!Init /\ rowsAtRest /\ peopleAtRest
    \/ part = "rows" /\ companyAtRest /\ firmAtRest /\ Rows!Init /\ peopleAtRest
    \/ part = "mails" /\ companyAtRest /\ firmAtRest /\ Pairs!Init /\ peopleAtRest
    \/ /\ part = "pairs" /\ companyAtRest /\ firmAtRest
       /\ Pairs!Init /\ Pairs!Reachable /\ peopleAtRest
    \/ PeopleInit /\ companyAtRest /\ firmAtRest /\ rowsAtRest

\* Bound of the rows: of the contributor's account only a ban changes.  Of the
\* pairs: nothing does.
onlyBanned == submitter' # submitter => submitter' = [submitter EXCEPT !.banned = TRUE]

MCNext ==
    /\ part' = part
    /\ \/ /\ part = "company"
          /\ Next /\ OneAtATime'
          /\ UNCHANGED <<firmVars, rowVars, accountVars, mfaVars>>
       \/ /\ part = "firm"
          /\ Firm!Next /\ Firm!OneAtATime'
          /\ UNCHANGED <<vars, rowVars, accountVars, mfaVars>>
       \/ /\ part = "rows"
          /\ Rows!Next /\ Rows!OneAtATime' /\ onlyBanned
          /\ UNCHANGED <<vars, firmVars, accountVars, mfaVars>>
       \/ /\ part = "mails"
          /\ Pairs!Next /\ Pairs!OneAtATime'
          /\ UNCHANGED <<vars, firmVars, accountVars, mfaVars>>
       \/ /\ part = "pairs"
          /\ Pairs!Next /\ submitter' = submitter
          /\ UNCHANGED <<vars, firmVars, accountVars, mfaVars>>
       \/ PeopleSettingsNext /\ UNCHANGED <<vars, firmVars, rowVars>>

MCSpec == MCInit /\ [][MCNext]_allVars

\* Proposals, links and challenges are called by the same names, and pairs of
\* admins and of requests for 2FA: one permutation exchanges all of them.
MCSymmetry == Permutations(Proposal) \cup Permutations(Pair)

----------------------------------------------------------------------------
(* The properties of the parts, by the names they have there; those of       *)
(* accounts are MCAccounts' own.                                             *)

\* Every part of the moderators' work keeps its types.
TypesOK ==
    /\ part = "company" => TypeOK
    /\ part = "firm" => Firm!TypeOK
    /\ part = "rows" => Rows!TypeOK
    /\ part \in {"mails", "pairs"} => Pairs!TypeOK

\* ProposalModeration and FirmEdits: no partner value is shown unmarked, of a
\* company but for a second approval, of a firm at all.
MarksCoverPartnerValues == MaskedUnlessReapproved /\ Firm!FirmPartnerValuesMasked

\* FirmEdits: proposal rows and their previous values implement reversible
\* edits.
FirmEditsAreReversible == Firm!FirmEditsAreReversible

\* RowModeration: what is shown is on its timeline, with two admins at once
\* too; what left it has its RETRACT entry, one request at a time.
RowsOnTimeline ==
    /\ part = "rows" => Rows!ShownIsCreated /\ Rows!GoneIsRetracted
    /\ part = "mails" => Pairs!GoneIsRetracted
    /\ part \in {"mails", "pairs"} => Pairs!ShownIsCreated

\* RowModeration: the submitter was last told the status the row has, but for
\* changes made while they could not be mailed.
MailTellsTheStatus ==
    /\ part = "rows" => Rows!MailTellsTheStatus
    /\ part = "mails" => Pairs!MailTellsTheStatus

\* RowModeration: answered requests leave the stored counts right.
CountsInOrder == part = "rows" => Rows!CountsInOrder
=============================================================================
