----------------------------- MODULE FirmEdits -----------------------------
(***************************************************************************)
(* Edits to one investor firm.  A firm has no timeline: what an approval   *)
(* replaced is kept on the proposal row itself (previous), and approving   *)
(* again overwrites it.  moderate() is the same call as for a company, so  *)
(* a decision is again three steps: the status read outside, the read of   *)
(* proposal and firm that opens the transaction, and everything from the   *)
(* first UPDATE (which locks the firm) to the commit.                      *)
(*                                                                         *)
(* The ingest worker writes the firm it owns in two statements, the facts  *)
(* and then the marks, and only fills the blanks of a firm it matched.     *)
(***************************************************************************)
EXTENDS PartnerMarks

CONSTANTS
    Proposal,   \* ids of InvestorChangeProposal rows that may be created
    Admin,
    None        \* no proposal

FirmAssumption == None \notin Proposal

VARIABLES
    firm,       \* [val, marks (partnerFields), partnerOnly]
    owner,      \* the source whose key (externalSource) the firm row carries
    partnerKey, \* the firm has an EntityIdentifier of scheme PARTNER
    prop,       \* the InvestorChangeProposal rows
    req,        \* moderate() calls in flight, one per admin
    ingest      \* the ingest worker's firm write in flight

vars == <<firm, owner, partnerKey, prop, req, ingest>>

Source == {"PARTNER", "PUBLIC"}
ProposalRow == [status : {"NONE", "PENDING", "APPROVED", "REJECTED"}, changes : Changes,
                previous : Changes, cleared : Cleared]
Request == [pc : {"idle", "noticed", "read"}, proposal : Proposal \cup {None},
            status : {"APPROVED", "REJECTED"}, retracting : BOOLEAN, row : Entity,
            prop : ProposalRow]
IngestWrite == [pc : {"idle", "written", "read"}, source : Source, data : Changes, row : Entity]

TypeOK ==
    /\ firm \in Entity
    /\ owner \in Source
    /\ partnerKey \in BOOLEAN
    /\ prop \in [Proposal -> ProposalRow]
    /\ req \in [Admin -> Request]
    /\ \A a \in Admin : req[a].pc # "idle" => req[a].proposal \in Proposal
    /\ ingest \in IngestWrite

NoEdit == [status |-> "NONE", changes |-> NoChanges, previous |-> NoChanges,
           cleared |-> NotRecorded]
NoRow == [val |-> [f \in Field |-> Blank], marks |-> {}, partnerOnly |-> FALSE]
IdleRequest == [pc |-> "idle", proposal |-> None, status |-> "REJECTED",
                retracting |-> FALSE, row |-> NoRow, prop |-> NoEdit]
IdleIngest == [pc |-> "idle", source |-> "PUBLIC", data |-> NoChanges, row |-> NoRow]

\* The firm as a source created it (createdProvenance).
CreatedFirm ==
    /\ partnerKey = (owner = "PARTNER")
    /\ \E v \in [Field -> Supplied(owner)] :
          firm = [val |-> v, partnerOnly |-> partnerKey,
                  marks |-> IF partnerKey THEN {f \in Field : v[f] # Blank} ELSE {}]
    /\ prop = [p \in Proposal |-> NoEdit]

\* A proposal approved before its cleared marks were recorded.
LegacyApproved(p, f, old, new) ==
    /\ old # new /\ new \notin PartnerValue
    /\ partnerKey = (old \in PartnerValue)
    /\ firm = [val |-> [NoRow.val EXCEPT ![f] = new], marks |-> {}, partnerOnly |-> FALSE]
    /\ prop = [[q \in Proposal |-> NoEdit] EXCEPT ![p] =
                 [status |-> "APPROVED", changes |-> [NoChanges EXCEPT ![f] = new],
                  previous |-> [NoChanges EXCEPT ![f] = old], cleared |-> NotRecorded]]

Init ==
    /\ owner \in Source
    /\ \/ CreatedFirm
       \/ \E p \in Proposal, f \in Field, old, new \in Value : LegacyApproved(p, f, old, new)
    /\ req = [a \in Admin |-> IdleRequest]
    /\ ingest = IdleIngest

----------------------------------------------------------------------------
\* proposeChange: keys equal to the firm's current values are stripped, an
\* empty diff is refused.
proposeChange(p, changes) ==
    LET cleaned == [f \in Field |-> IF changes[f] = firm.val[f] THEN Unset ELSE changes[f]]
    IN  /\ prop[p].status = "NONE"
        /\ Keys(cleaned) # {}
        /\ prop' = [prop EXCEPT ![p] = [NoEdit EXCEPT !.status = "PENDING", !.changes = cleaned]]
        /\ UNCHANGED <<firm, owner, partnerKey, req, ingest>>

\* The submitter's ban rejects what is still pending.
rejectPending(p) ==
    /\ prop[p].status = "PENDING"
    /\ prop' = [prop EXCEPT ![p].status = "REJECTED"]
    /\ UNCHANGED <<firm, owner, partnerKey, req, ingest>>

----------------------------------------------------------------------------
(* moderate(), for an investor proposal. *)

loadSubmissionNotice(a, p, status) ==
    /\ req[a].pc = "idle"
    /\ prop[p].status # "NONE"
    /\ req' = [req EXCEPT ![a] = [IdleRequest EXCEPT
                 !.pc = "noticed", !.proposal = p, !.status = status,
                 !.retracting = (status = "REJECTED" /\ prop[p].status = "APPROVED")]]
    /\ UNCHANGED <<firm, owner, partnerKey, prop, ingest>>

\* findUniqueOrThrow({include: investor}), the first read of both transactions.
readProposal(a) ==
    /\ req[a].pc = "noticed"
    /\ req[a].status = "APPROVED" \/ req[a].retracting
    /\ req' = [req EXCEPT ![a].pc = "read", ![a].row = firm,
                          ![a].prop = prop[req[a].proposal]]
    /\ UNCHANGED <<firm, owner, partnerKey, prop, ingest>>

\* Mutant: the values are captured after the diff is applied.
TooLate(row, changes) == changes

\* pickInvestorFields: the firm's values for the keys of the diff.
Previous(row, changes) ==
    [f \in Field |-> IF f \in Keys(changes) THEN row.val[f] ELSE Unset]

applyInvestorProposal(a) ==
    LET p  == req[a].proposal
        e  == req[a].prop
        fs == Keys(e.changes)
    IN  /\ req[a].pc = "read" /\ req[a].status = "APPROVED"
        /\ firm' = [firm EXCEPT
                      !.val = Overlay(e.changes, @),
                      !.marks = IF req[a].row.marks \cap fs = {} THEN @
                                ELSE WithoutPartnerFields(req[a].row.marks, fs)]
        /\ prop' = [prop EXCEPT ![p].status = "APPROVED",
                                ![p].previous = Previous(req[a].row, e.changes),
                                ![p].cleared = ClearedMarks(req[a].row.marks, fs)]
        /\ req' = [req EXCEPT ![a] = IdleRequest]
        /\ UNCHANGED <<owner, partnerKey, ingest>>

\* Mutant: a newer value is not looked for.
RestoredAlways(e, current) ==
    [f \in Field |-> IF e.changes[f] # Unset THEN e.previous[f] ELSE Unset]

\* The loop of revertInvestorProposal.
Restored(e, current) ==
    [f \in Field |->
       IF /\ e.changes[f] # Unset
          /\ e.previous[f] # Unset
          /\ current[f] = e.changes[f]
          /\ e.previous[f] # e.changes[f]
       THEN e.previous[f] ELSE Unset]

\* touchedByPartner, for a firm.
TouchedByPartner(partnerOnly) == partnerOnly \/ partnerKey

revertInvestorProposal(a) ==
    LET row  == req[a].row
        e    == req[a].prop
        back == Restored(e, row.val)
        mark == MarksToRestore(e.cleared, back, TouchedByPartner(row.partnerOnly))
    IN  /\ req[a].pc = "read" /\ req[a].status = "REJECTED"
        /\ firm' = [firm EXCEPT
                      !.val = Overlay(back, @),
                      !.marks = IF mark \subseteq row.marks THEN @
                                ELSE WithPartnerFields(row.marks, mark)]
        /\ prop' = [prop EXCEPT ![req[a].proposal].status = "REJECTED"]
        /\ req' = [req EXCEPT ![a] = IdleRequest]
        /\ UNCHANGED <<owner, partnerKey, ingest>>

\* A rejection of what was not APPROVED when the notice was read.
reject(a) ==
    /\ req[a].pc = "noticed" /\ req[a].status = "REJECTED" /\ ~ req[a].retracting
    /\ prop' = [prop EXCEPT ![req[a].proposal].status = "REJECTED"]
    /\ req' = [req EXCEPT ![a] = IdleRequest]
    /\ UNCHANGED <<firm, owner, partnerKey, ingest>>

----------------------------------------------------------------------------
(* The ingest worker's write to the firm (one run at a time). *)

\* upsertInvestorFirm on the source's own row: every fact column is written,
\* the ones the record leaves out as null.
upsertInvestorFirm(facts) ==
    /\ ingest.pc = "idle"
    /\ firm' = [firm EXCEPT !.val = facts]
    /\ ingest' = [IdleIngest EXCEPT !.pc = "written", !.source = owner, !.data = facts]
    /\ UNCHANGED <<owner, partnerKey, prop, req>>

\* syncPartnerFields after it: the partner marks what it stated, any other
\* source unmarks every fact column.
SyncedMarks(marks, source, facts) ==
    IF source = "PARTNER" THEN marks \cup {f \in Field : facts[f] # Blank} ELSE {}

syncPartnerFields ==
    /\ ingest.pc = "written"
    /\ firm' = [firm EXCEPT !.marks = SyncedMarks(@, ingest.source, ingest.data)]
    /\ ingest' = IdleIngest
    /\ UNCHANGED <<owner, partnerKey, prop, req>>

\* enrichInvestor on a matched firm: read the row, then fill its blanks.
readInvestor(source, facts) ==
    /\ ingest.pc = "idle"
    /\ source # owner
    /\ \A f \in Keys(facts) : /\ facts[f] \in Supplied(source) \ {Blank}
                              /\ firm.val[f] = Blank
    /\ ingest' = [pc |-> "read", source |-> source, data |-> facts, row |-> firm]
    /\ UNCHANGED <<firm, owner, partnerKey, prop, req>>

enrichInvestor ==
    /\ ingest.pc = "read"
    /\ firm' = [val |-> Overlay(ingest.data, firm.val),
                marks |-> ProvenanceMarks(ingest.row, ingest.source, Keys(ingest.data), firm.marks),
                partnerOnly |-> ProvenanceOnly(ingest.row, ingest.source, firm.partnerOnly)]
    /\ ingest' = IdleIngest
    /\ partnerKey' = (partnerKey \/ ingest.source = "PARTNER")
    /\ UNCHANGED <<owner, prop, req>>

\* claimInvestor: a public source's holding or round names a partner-only firm.
claimInvestor ==
    /\ ingest.pc = "idle"
    /\ firm.partnerOnly
    /\ firm' = [firm EXCEPT !.partnerOnly = FALSE]
    /\ UNCHANGED <<owner, partnerKey, prop, req, ingest>>

----------------------------------------------------------------------------
Contribute ==
    \E p \in Proposal :
        \/ rejectPending(p)
        \/ \E c \in Changes : /\ \A f \in Field : c[f] \notin PartnerValue
                              /\ proposeChange(p, c)

Moderate(a) ==
    \/ \E p \in Proposal, s \in {"APPROVED", "REJECTED"} : loadSubmissionNotice(a, p, s)
    \/ readProposal(a)
    \/ applyInvestorProposal(a)
    \/ revertInvestorProposal(a)
    \/ reject(a)

Ingest ==
    \/ \E v \in [Field -> Supplied(owner)] : upsertInvestorFirm(v)
    \/ syncPartnerFields
    \/ \E s \in Source, c \in Changes : readInvestor(s, c)
    \/ enrichInvestor
    \/ claimInvestor

Next == Contribute \/ (\E a \in Admin : Moderate(a)) \/ Ingest

Spec == Init /\ [][Next]_vars

\* The same handlers when no two of them overlap.
Busy == {a \in Admin : req[a].pc # "idle"}
OneAtATime == /\ \A a, b \in Busy : a = b
              /\ ingest.pc = "idle" \/ Busy = {}
SerialSpec == Init /\ [][Next /\ OneAtATime']_vars

----------------------------------------------------------------------------
(* Properties. *)

\* The proposal rows alone implement reversible edits: a retraction puts
\* back, field by field, what the last approval replaced, and never touches
\* a field that shows something newer (revertInvestorProposal: "the same
\* compare-and-restore against the previous values the approval kept").
Edits == INSTANCE ReversibleEdit WITH
    Edit     <- Proposal,
    KeepsFirst <- FALSE,
    shown    <- firm.val,
    diff     <- [p \in Proposal |-> prop[p].changes],
    replaced <- [p \in Proposal |-> prop[p].previous],
    applied  <- {p \in Proposal : prop[p].status = "APPROVED"}

FirmEditsAreReversible == Edits!Spec

\* A partner value that a firm shows is marked (so masked) once the write
\* that brought it is complete, retractions included: previous and the
\* cleared marks are overwritten together, so what a retraction puts back
\* and what it marks come from one read (unlike a company's, whose
\* timeline outlives the record of the marks).
FirmPartnerValuesMasked ==
    ingest.pc # "written" =>
        \A f \in Field : firm.val[f] \in PartnerValue => f \in firm.marks
=============================================================================
