------------------------- MODULE ProposalModeration -------------------------
(***************************************************************************)
(* Edits to one company profile: contributors propose field changes,       *)
(* moderators approve and reject them (AdminService.moderate), the ingest  *)
(* worker writes the same columns, and a ban rejects a contributor's       *)
(* queue.  A decision is not one step: moderate() reads the row's status   *)
(* outside any transaction, and the transaction it then opens runs at READ *)
(* COMMITTED, so it reads the company before it takes the row lock with    *)
(* its first UPDATE.  From that UPDATE on the company row is locked and    *)
(* the rest of the transaction is one step.                                *)
(***************************************************************************)
EXTENDS Naturals, Sequences, FiniteSets, PartnerMarks

CONSTANTS
    Proposal,      \* ids of ChangeProposal rows that may be created
    Url,           \* source links a contributor may attach
    User, Admin,
    None,          \* SQL null
    MaxRevisions   \* bound: no new request starts once a field has this many

ASSUME ProposalAssumption ==
    /\ None \notin Url \cup Proposal \cup User
    /\ MaxRevisions \in Nat

VARIABLES
    company,    \* [val, marks (partnerFields), partnerOnly]
    partnerKey, \* the company has an EntityIdentifier of scheme PARTNER
    prop,       \* the ChangeProposal rows
    timeline,   \* the company's Revision rows by field, oldest first
    citation,   \* field-level Citation rows of this company
    banned,     \* users with bannedAt set
    req,        \* moderate() calls in flight, one per admin
    ingest      \* the ingest worker's company write in flight

vars == <<company, partnerKey, prop, timeline, citation, banned, req, ingest>>

----------------------------------------------------------------------------
Status == {"NONE", "PENDING", "APPROVED", "REJECTED"}

ProposalRow == [status : Status, changes : Changes, url : Url \cup {None},
                by : User \cup {None}, cleared : Cleared]

Revision == [before : Value, after : Value, action : {"UPDATE", "RETRACT"},
             proposal : Proposal \cup {None}]

Citation == [url : Url, field : Field, by : User \cup {None}]

Pc == {"idle", "noticed", "read", "revisions"}

Request == [pc : Pc, proposal : Proposal \cup {None}, status : {"APPROVED", "REJECTED"},
            retracting : BOOLEAN, row : Entity,
            cleared : Cleared, restored : Changes]

IngestWrite == [pc : {"idle", "read"}, source : {"PARTNER", "PUBLIC"},
                data : Changes, row : Entity]

TypeOK ==
    /\ company \in Entity
    /\ partnerKey \in BOOLEAN
    /\ prop \in [Proposal -> ProposalRow]
    /\ timeline \in [Field -> Seq(Revision)]
    /\ citation \in SUBSET Citation
    /\ banned \in SUBSET User
    /\ req \in [Admin -> Request]
    /\ \A a \in Admin : req[a].pc # "idle" => req[a].proposal \in Proposal
    /\ ingest \in IngestWrite

----------------------------------------------------------------------------
(* Operators of the service. *)

\* touchedByPartner, for a company.
TouchedByPartner(partnerOnly) == partnerOnly \/ partnerKey

\* Mutant: a retraction leaves no entry.
RecordUpdatesOnly(tl, fs, before, after, act, p) ==
    [f \in Field |->
       IF f \in fs /\ act = "UPDATE"
       THEN Append(tl[f], [before |-> before[f], after |-> after[f],
                           action |-> act, proposal |-> p])
       ELSE tl[f]]

\* One createMany: a revision for each field of fs.
Record(tl, fs, before, after, act, p) ==
    [f \in Field |->
       IF f \in fs
       THEN Append(tl[f], [before |-> before[f], after |-> after[f],
                           action |-> act, proposal |-> p])
       ELSE tl[f]]

\* The UPDATE revisions of proposal p on field f, and the real ones of them.
Mine(p, f) == {i \in DOMAIN timeline[f] : /\ timeline[f][i].proposal = p
                                          /\ timeline[f][i].action = "UPDATE"}
Real(f) == {i \in DOMAIN timeline[f] : timeline[f][i].before # timeline[f][i].after}
Newest(s) == CHOOSE i \in s : \A j \in s : j <= i

\* Mutant: the newest entry, whether it changed something or not.
ReplacedLast(p, f) == timeline[f][Newest(Mine(p, f))]

\* "replaced": the newest entry that changed something, else the newest.
Replaced(p, f) ==
    LET real == Mine(p, f) \cap Real(f)
    IN  timeline[f][IF real # {} THEN Newest(real) ELSE Newest(Mine(p, f))]

\* The loop of revertProposal: the fields that go back, and to which value.
Restored(p, current) ==
    LET c == prop[p].changes
    IN  [f \in Field |->
           IF /\ c[f] # Unset
              /\ Mine(p, f) # {}
              /\ current[f] = c[f]
              /\ Replaced(p, f).before # c[f]
           THEN Replaced(p, f).before
           ELSE Unset]

\* Mutant: the proposal's missing link is cited too.
CiteMissingLink(cites, u, fs, by) ==
    cites \cup {[url |-> u, field |-> f, by |-> by] : f \in fs}

\* createMany({skipDuplicates}) on the unique key (source, field).
Cite(cites, u, fs, by) ==
    IF u = None THEN cites
    ELSE cites \cup {[url |-> u, field |-> f, by |-> by] :
                       f \in {g \in fs : ~ \E x \in cites : x.url = u /\ x.field = g}}

\* Mutant: other approved proposals are not asked.
StillCitedByNobody(p) == {}

\* deleteProposalCitations: drop what the approval minted for fs, except
\* where another approved proposal cites the same URL for the same field.
StillCited(p) ==
    {f \in Field : \E q \in Proposal \ {p} : /\ prop[q].status = "APPROVED"
                                             /\ prop[q].url = prop[p].url
                                             /\ f \in Keys(prop[q].changes)}
DeleteProposalCitations(p, fs) ==
    {x \in citation : ~ /\ x.url = prop[p].url
                        /\ x.field \in fs \ StillCited(p)
                        /\ x.by = prop[p].by}

----------------------------------------------------------------------------
IdleRow == [val |-> [f \in Field |-> Blank], marks |-> {}, partnerOnly |-> FALSE]

NoRow == [status |-> "NONE", changes |-> NoChanges, url |-> None, by |-> None,
          cleared |-> NotRecorded]
IdleRequest == [pc |-> "idle", proposal |-> None, status |-> "REJECTED",
                retracting |-> FALSE, row |-> IdleRow, cleared |-> NotRecorded,
                restored |-> NoChanges]
IdleIngest == [pc |-> "idle", source |-> "PUBLIC", data |-> NoChanges, row |-> IdleRow]

\* The company as created: by a contributor or a public source, or by the
\* partner (createdProvenance), every column it supplied then marked.
CreatedCompany ==
    \E v \in [Field -> Value] :
        \/ /\ \A f \in Field : v[f] \notin PartnerValue
           /\ company = [val |-> v, marks |-> {}, partnerOnly |-> FALSE]
           /\ partnerKey = FALSE
        \/ /\ \A f \in Field : v[f] \in PartnerValue \cup {Blank}
           /\ company = [val |-> v, marks |-> {f \in Field : v[f] # Blank},
                         partnerOnly |-> TRUE]
           /\ partnerKey = TRUE

\* A proposal approved before its cleared marks were recorded: its edit is
\* on the row, in the timeline and cited; clearedPartnerFields is null.
LegacyApproved(p, f, old, new, u, by) ==
    /\ old # new /\ new \notin PartnerValue
    /\ company = [val |-> [g \in Field |-> IF g = f THEN new ELSE Blank],
                  marks |-> {}, partnerOnly |-> FALSE]
    /\ partnerKey = (old \in PartnerValue)
    /\ prop = [q \in Proposal |->
                 IF q = p THEN [status |-> "APPROVED",
                                changes |-> [NoChanges EXCEPT ![f] = new],
                                url |-> u, by |-> by, cleared |-> NotRecorded]
                 ELSE NoRow]
    /\ timeline = [g \in Field |->
                     IF g = f THEN <<[before |-> old, after |-> new,
                                      action |-> "UPDATE", proposal |-> p]>>
                     ELSE <<>>]
    /\ citation = Cite({}, u, {f}, by)

Init ==
    /\ \/ /\ CreatedCompany
          /\ prop = [q \in Proposal |-> NoRow]
          /\ timeline = [f \in Field |-> <<>>]
          /\ citation = {}
       \/ \E p \in Proposal, f \in Field, old, new \in Value, u \in Url \cup {None}, by \in User :
             LegacyApproved(p, f, old, new, u, by)
    /\ banned = {}
    /\ req = [a \in Admin |-> IdleRequest]
    /\ ingest = IdleIngest

----------------------------------------------------------------------------
(* Contributors and bans. *)

\* proposeChange: keys equal to the company's current values are stripped,
\* an empty diff is refused.  (The company may move between the read and
\* the create; that is the same as moving right after the create.)
proposeChange(p, u, changes, url) ==
    LET cleaned == [f \in Field |-> IF changes[f] = company.val[f] THEN Unset ELSE changes[f]]
    IN  /\ prop[p].status = "NONE"
        /\ u \notin banned
        /\ Keys(cleaned) # {}
        /\ prop' = [prop EXCEPT ![p] = [status |-> "PENDING", changes |-> cleaned,
                                        url |-> url, by |-> u, cleared |-> NotRecorded]]
        /\ UNCHANGED <<company, partnerKey, timeline, citation, banned, req, ingest>>

\* The ban sweep (rejectPending): the user's PENDING rows become REJECTED.
rejectPending(u) ==
    prop' = [p \in Proposal |->
               IF prop[p].by = u /\ prop[p].status = "PENDING"
               THEN [prop[p] EXCEPT !.status = "REJECTED"] ELSE prop[p]]

ban(u) ==
    /\ u \notin banned
    /\ banned' = banned \cup {u}
    /\ rejectPending(u)
    /\ UNCHANGED <<company, partnerKey, timeline, citation, req, ingest>>

unban(u) ==
    /\ u \in banned
    /\ banned' = banned \ {u}
    /\ UNCHANGED <<company, partnerKey, prop, timeline, citation, req, ingest>>

----------------------------------------------------------------------------
(* moderate(), for a company proposal. *)

Room == \A f \in Field : Len(timeline[f]) < MaxRevisions

\* loadSubmissionNotice, outside the transaction: the status read here
\* decides whether a rejection is a retraction.
loadSubmissionNotice(a, p, status) ==
    /\ req[a].pc = "idle"
    /\ Room
    /\ prop[p].status # "NONE"
    /\ req' = [req EXCEPT ![a].pc = "noticed", ![a].proposal = p, ![a].status = status,
                          ![a].retracting = (status = "REJECTED" /\ prop[p].status = "APPROVED")]
    /\ UNCHANGED <<company, partnerKey, prop, timeline, citation, banned, ingest>>

\* findUniqueOrThrow({include: company}), the first read of both transactions.
readProposal(a) ==
    /\ req[a].pc = "noticed"
    /\ req[a].status = "APPROVED" \/ req[a].retracting
    /\ req' = [req EXCEPT ![a].pc = "read", ![a].row = company,
                          ![a].cleared = prop[req[a].proposal].cleared]
    /\ UNCHANGED <<company, partnerKey, prop, timeline, citation, banned, ingest>>

\* applyProposal, from the company UPDATE to the commit.
applyProposal(a) ==
    LET p    == req[a].proposal
        row  == req[a].row
        diff == prop[p].changes
        fs   == Keys(diff)
    IN  /\ req[a].pc = "read" /\ req[a].status = "APPROVED"
        /\ company' = [company EXCEPT
                         !.val = Overlay(diff, @),
                         !.marks = IF row.marks \cap fs = {} THEN @
                                   ELSE WithoutPartnerFields(row.marks, fs)]
        /\ prop' = [prop EXCEPT ![p].status = "APPROVED",
                                ![p].cleared = ClearedMarks(row.marks, fs)]
        /\ timeline' = Record(timeline, fs, row.val, diff, "UPDATE", p)
        /\ citation' = Cite(citation, prop[p].url, fs, prop[p].by)
        /\ req' = [req EXCEPT ![a] = IdleRequest]
        /\ UNCHANGED <<partnerKey, banned, ingest>>

\* revertProposal: the second read, of the proposal's revisions.
readRevisions(a) ==
    /\ req[a].pc = "read" /\ req[a].status = "REJECTED"
    /\ req' = [req EXCEPT ![a].pc = "revisions",
                          ![a].restored = Restored(req[a].proposal, req[a].row.val)]
    /\ UNCHANGED <<company, partnerKey, prop, timeline, citation, banned, ingest>>

\* revertProposal, from the company UPDATE (none when nothing goes back) to
\* the commit.
revertProposal(a) ==
    LET p     == req[a].proposal
        row   == req[a].row
        back  == req[a].restored
        fs    == Keys(back)
        marks == MarksToRestore(req[a].cleared, back, TouchedByPartner(row.partnerOnly))
    IN  /\ req[a].pc = "revisions"
        /\ company' = [company EXCEPT
                         !.val = Overlay(back, @),
                         !.marks = IF marks \subseteq row.marks THEN @
                                   ELSE WithPartnerFields(row.marks, marks)]
        /\ timeline' = Record(timeline, fs, row.val, back, "RETRACT", p)
        /\ citation' = DeleteProposalCitations(p, fs)
        /\ prop' = [prop EXCEPT ![p].status = "REJECTED"]
        /\ req' = [req EXCEPT ![a] = IdleRequest]
        /\ UNCHANGED <<partnerKey, banned, ingest>>

\* A rejection of what was not APPROVED when the notice was read.
reject(a) ==
    /\ req[a].pc = "noticed" /\ req[a].status = "REJECTED" /\ ~ req[a].retracting
    /\ prop' = [prop EXCEPT ![req[a].proposal].status = "REJECTED"]
    /\ req' = [req EXCEPT ![a] = IdleRequest]
    /\ UNCHANGED <<company, partnerKey, timeline, citation, banned, ingest>>

----------------------------------------------------------------------------
(* The ingest worker's write to a company it matched (one run at a time).  *)

\* writeCompany on the source's own row (any column may move), or enrich on
\* a matched row (only blank columns are filled): read the row, then write.
readCompany(source, data) ==
    /\ ingest.pc = "idle"
    /\ Room
    /\ \A f \in Keys(data) : data[f] \in Supplied(source)
    /\ ingest' = [pc |-> "read", source |-> source, data |-> data, row |-> company]
    /\ UNCHANGED <<company, partnerKey, prop, timeline, citation, banned, req>>

ownKeyUpdate(source, data) ==
    /\ Keys(data) # {}
    /\ readCompany(source, data)

enrich(source, data) ==
    /\ \A f \in Keys(data) : company.val[f] = Blank /\ data[f] # Blank
    /\ readCompany(source, data)

writeCompany ==
    LET fs    == Keys(ingest.data)
        row   == ingest.row
        moved == {f \in fs : row.val[f] # ingest.data[f]}
    IN  /\ ingest.pc = "read"
        /\ company' = [val |-> Overlay(ingest.data, company.val),
                       marks |-> ProvenanceMarks(row, ingest.source, fs, company.marks),
                       partnerOnly |-> ProvenanceOnly(row, ingest.source, company.partnerOnly)]
        /\ timeline' = Record(timeline, moved, row.val, ingest.data, "UPDATE", None)
        /\ partnerKey' = (partnerKey \/ ingest.source = "PARTNER")
        /\ ingest' = IdleIngest
        /\ UNCHANGED <<prop, citation, banned, req>>

----------------------------------------------------------------------------
Contribute ==
    \E p \in Proposal, u \in User, url \in Url \cup {None}, c \in Changes :
        /\ \A f \in Field : c[f] \notin PartnerValue
        /\ proposeChange(p, u, c, url)

Ban == \E u \in User : ban(u) \/ unban(u)

Moderate(a) ==
    \/ \E p \in Proposal, s \in {"APPROVED", "REJECTED"} : loadSubmissionNotice(a, p, s)
    \/ readProposal(a)
    \/ applyProposal(a)
    \/ readRevisions(a)
    \/ revertProposal(a)
    \/ reject(a)

Ingest ==
    \/ \E s \in {"PARTNER", "PUBLIC"}, d \in Changes : ownKeyUpdate(s, d) \/ enrich(s, d)
    \/ writeCompany

Next == Contribute \/ Ban \/ (\E a \in Admin : Moderate(a)) \/ Ingest

Spec == Init /\ [][Next]_vars

\* The same handlers when no two of them overlap: what they promise one by one.
Busy == {a \in Admin : req[a].pc # "idle"}
OneAtATime == /\ \A a, b \in Busy : a = b
              /\ ingest.pc = "idle" \/ Busy = {}
SerialSpec == Init /\ [][Next /\ OneAtATime']_vars

----------------------------------------------------------------------------
(* Properties. *)

\* However decisions overlap, an approved edit that came with a source is
\* cited for every field it changed: rejecting another edit that minted the
\* shared citation must not take it away (deleteProposalCitations).
ApprovedIsCited ==
    \A p \in Proposal :
        prop[p].status = "APPROVED" /\ prop[p].url # None
            => \A f \in Keys(prop[p].changes) :
                  \E x \in citation : x.url = prop[p].url /\ x.field = f

\* The timeline of a field is a chain that ends in the value shown: each
\* entry replaces what the one before it left.  revertProposal goes back
\* along this chain (writeCompany, applyProposal: one entry per real move).
TimelineTellsTheRow ==
    \A f \in Field :
        LET tl == timeline[f]
        IN  /\ \A i \in 1 .. Len(tl) - 1 : tl[i].after = tl[i + 1].before
            /\ Len(tl) > 0 => tl[Len(tl)].after = company.val[f]

\* A value only the partner supplied is masked (partnerFields) whenever it
\* is shown, retractions included (revertProposal: "so a partner value is
\* masked again").
PartnerValuesMasked ==
    \A f \in Field : company.val[f] \in PartnerValue => f \in company.marks

\* The one way to show it unmasked: the edit that replaced it was approved
\* twice.  Marks survive everything else, legacy approvals included.
MaskedUnlessReapproved ==
    \A f \in Field :
        company.val[f] \in PartnerValue /\ f \notin company.marks
            => \E p \in Proposal : Cardinality(Mine(p, f)) > 1

\* Company edits implement reversible edits too; here it is the timeline
\* that keeps what an approval replaced, and approving again keeps it
\* (revertProposal: "the newest entry that actually changed something").
Edits == INSTANCE ReversibleEdit WITH
    Edit     <- Proposal,
    KeepsFirst <- TRUE,
    shown    <- company.val,
    diff     <- [p \in Proposal |-> prop[p].changes],
    replaced <- [p \in Proposal |-> [f \in Field |->
                    IF Mine(p, f) = {} THEN Unset ELSE Replaced(p, f).before]],
    applied  <- {p \in Proposal : prop[p].status = "APPROVED"}

CompanyEditsAreReversible == Edits!Spec
=============================================================================
