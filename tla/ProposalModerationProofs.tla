---------------------- MODULE ProposalModerationProofs ----------------------
(***************************************************************************)
(* Theorems of ProposalModeration and FirmEdits, for any proposals, fields,*)
(* values, links, users and admins: types and citations with every         *)
(* overlap of handlers; the timeline, the marks and the reversal of edits  *)
(* without any.  At the end, these and those of RowModeration for the run  *)
(* the parts share (MCModeration).                                         *)
(***************************************************************************)
EXTENDS MCModeration, WellFoundedInduction, FiniteSetTheorems, TLAPS

USE DEF Pc, Status

\* A nonempty set of positions of a list has a greatest one.
LEMMA NewestExists ==
    ASSUME NEW n \in Nat, NEW s \in SUBSET (1 .. n), s # {}
    PROVE  Newest(s) \in s /\ \A j \in s : j <= Newest(s)
<1> DEFINE T == {k \in Nat : \E j \in s : k = n - j}
<1>1. T # {}
  <2>1. PICK j \in s : TRUE
    OBVIOUS
  <2>2. n - j \in Nat
    BY <2>1
  <2> QED
    BY <2>1, <2>2
<1>2. PICK k \in T : \A y \in T : ~ (<<y, k>> \in OpToRel(<, Nat))
  <2>1. T \subseteq Nat
    OBVIOUS
  <2> HIDE DEF T
  <2> QED
    BY <1>1, <2>1, NatLessThanWellFounded, WFMin
<1>3. PICK i \in s : k = n - i
  BY <1>2
<1>4. \A j \in s : j <= i
  <2> TAKE j \in s
  <2>1. n - j \in T
    BY DEF T
  <2>2. ~ (n - j < k)
    BY <1>2, <2>1 DEF OpToRel
  <2> QED
    BY <1>3, <2>2
<1> QED
  BY <1>4 DEF Newest

\* What one createMany leaves of the timeline is a timeline again.
LEMMA RecordType ==
    ASSUME NEW tl \in [Field -> Seq(Revision)], NEW fs \in SUBSET Field,
           NEW before, NEW after, NEW act \in {"UPDATE", "RETRACT"},
           NEW p \in Proposal \cup {None},
           \A f \in fs : before[f] \in Value /\ after[f] \in Value
    PROVE  Record(tl, fs, before, after, act, p) \in [Field -> Seq(Revision)]
<1>1. ASSUME NEW f \in fs
      PROVE  Append(tl[f], [before |-> before[f], after |-> after[f],
                            action |-> act, proposal |-> p]) \in Seq(Revision)
  <2>1. [before |-> before[f], after |-> after[f], action |-> act, proposal |-> p] \in Revision
    BY DEF Revision
  <2>2. tl[f] \in Seq(Revision)
    OBVIOUS
  <2> QED
    BY <2>1, <2>2
<1> QED
  BY <1>1 DEF Record

\* A retraction restores values of the columns' range.
LEMMA RestoredType ==
    ASSUME TypeOK, NEW p \in Proposal, NEW current
    PROVE  Restored(p, current) \in Changes
<1>1. ASSUME NEW f \in Field, Mine(p, f) # {}
      PROVE  Replaced(p, f).before \in Value
  <2>1. timeline[f] \in Seq(Revision)
    BY DEF TypeOK
  <2>2. Len(timeline[f]) \in Nat /\ DOMAIN timeline[f] = 1 .. Len(timeline[f])
    BY <2>1
  <2>3. Mine(p, f) \in SUBSET (1 .. Len(timeline[f]))
    BY <2>2 DEF Mine
  <2>4. Newest(Mine(p, f)) \in DOMAIN timeline[f]
    BY <1>1, <2>2, <2>3, NewestExists
  <2>5. Mine(p, f) \cap Real(f) # {} => Newest(Mine(p, f) \cap Real(f)) \in DOMAIN timeline[f]
    <3>1. Mine(p, f) \cap Real(f) \in SUBSET (1 .. Len(timeline[f]))
      BY <2>3
    <3> QED
      BY <2>2, <3>1, NewestExists
  <2>6. PICK i \in DOMAIN timeline[f] : Replaced(p, f) = timeline[f][i]
    BY <2>4, <2>5 DEF Replaced
  <2>7. timeline[f][i] \in Revision
    BY <2>1, <2>2, <2>6
  <2> QED
    BY <2>6, <2>7 DEF Revision
<1> QED
  BY <1>1 DEF Restored, Changes

LEMMA OverlayType ==
    ASSUME NEW c \in Changes, NEW old \in [Field -> Value]
    PROVE  Overlay(c, old) \in [Field -> Value]
BY DEF Overlay, Changes

LEMMA KeysValues ==
    ASSUME NEW c \in Changes
    PROVE  /\ Keys(c) \in SUBSET Field
           /\ \A f \in Keys(c) : c[f] \in Value
BY DEF Keys, Changes

LEMMA CiteType ==
    ASSUME NEW cites \in SUBSET Citation, NEW u \in Url \cup {None},
           NEW fs \in SUBSET Field, NEW by \in User \cup {None}
    PROVE  Cite(cites, u, fs, by) \in SUBSET Citation
BY DEF Cite, Citation

LEMMA IdleTypes ==
    /\ IdleRow \in Entity
    /\ NoChanges \in Changes
    /\ NotRecorded \in Cleared
    /\ NoRow \in ProposalRow
    /\ IdleRequest \in Request
    /\ IdleIngest \in IngestWrite
<1>1. IdleRow \in Entity
  BY ValueAssumption, ProposalAssumption DEF IdleRow, Entity
<1>2. NoChanges \in Changes /\ NotRecorded \in Cleared
  BY DEF NoChanges, Changes, NotRecorded, Cleared
<1>3. NoRow \in ProposalRow
  BY <1>2 DEF NoRow, ProposalRow
<1>4. IdleRequest \in Request
  BY <1>1, <1>2 DEF IdleRequest, Request
<1>5. IdleIngest \in IngestWrite
  BY <1>1, <1>2 DEF IdleIngest, IngestWrite
<1> QED
  BY <1>1, <1>2, <1>3, <1>4, <1>5

----------------------------------------------------------------------------
LEMMA InitType == Init => TypeOK
<1> SUFFICES ASSUME Init PROVE TypeOK
  OBVIOUS
<1> USE IdleTypes
<1>1. req \in [Admin -> Request] /\ \A a \in Admin : req[a].pc = "idle"
  BY DEF Init, IdleRequest
<1>2. banned \in SUBSET User /\ ingest \in IngestWrite
  BY DEF Init
<1>3. CASE /\ CreatedCompany
           /\ prop = [q \in Proposal |-> NoRow]
           /\ timeline = [f \in Field |-> <<>>]
           /\ citation = {}
  <2>1. company \in Entity /\ partnerKey \in BOOLEAN
    <3>1. PICK v \in [Field -> Value] :
             \/ /\ company = [val |-> v, marks |-> {}, partnerOnly |-> FALSE]
                /\ partnerKey = FALSE
             \/ /\ company = [val |-> v, marks |-> {f \in Field : v[f] # Blank},
                              partnerOnly |-> TRUE]
                /\ partnerKey = TRUE
      BY <1>3 DEF CreatedCompany
    <3>2. {f \in Field : v[f] # Blank} \in SUBSET Field
      OBVIOUS
    <3>3. partnerKey \in BOOLEAN
      BY <3>1
    <3>4. CASE company = [val |-> v, marks |-> {}, partnerOnly |-> FALSE]
      BY <3>3, <3>4 DEF Entity
    <3>5. CASE company = [val |-> v, marks |-> {f \in Field : v[f] # Blank}, partnerOnly |-> TRUE]
      <4> DEFINE ms == {f \in Field : v[f] # Blank}
      <4>1. company = [val |-> v, marks |-> ms, partnerOnly |-> TRUE]
        BY <3>5
      <4>2. ms \in SUBSET Field
        BY <3>2
      <4> HIDE DEF ms
      <4> QED
        BY <3>3, <4>1, <4>2 DEF Entity
    <3> QED
      BY <3>1, <3>4, <3>5
  <2>2. prop \in [Proposal -> ProposalRow]
    BY <1>3
  <2>3. timeline \in [Field -> Seq(Revision)] /\ citation \in SUBSET Citation
    BY <1>3
  <2> QED
    BY <1>1, <1>2, <2>1, <2>2, <2>3 DEF TypeOK
<1>4. ASSUME NEW p \in Proposal, NEW f \in Field, NEW old \in Value, NEW new \in Value,
             NEW u \in Url \cup {None}, NEW by \in User, LegacyApproved(p, f, old, new, u, by)
      PROVE  TypeOK
  <2>1. company \in Entity /\ partnerKey \in BOOLEAN
    BY <1>4, ValueAssumption, ProposalAssumption DEF LegacyApproved, Entity
  <2>2. [NoChanges EXCEPT ![f] = new] \in Changes
    BY DEF Changes
  <2>3. prop \in [Proposal -> ProposalRow]
    BY <1>4, <2>2 DEF LegacyApproved, ProposalRow
  <2>4. [before |-> old, after |-> new, action |-> "UPDATE", proposal |-> p] \in Revision
    BY DEF Revision
  <2>5. timeline \in [Field -> Seq(Revision)]
    BY <1>4, <2>4 DEF LegacyApproved
  <2>6. citation \in SUBSET Citation
    BY <1>4, CiteType DEF LegacyApproved
  <2> QED
    BY <1>1, <1>2, <2>1, <2>3, <2>5, <2>6 DEF TypeOK
<1> QED
  BY <1>3, <1>4 DEF Init

\* The values a request holds once it has read the row.
LEMMA RequestType ==
    ASSUME TypeOK, NEW a \in Admin, req[a].pc # "idle"
    PROVE  LET p == req[a].proposal
           IN  /\ p \in Proposal
               /\ prop[p] \in ProposalRow
               /\ prop[p].changes \in Changes
               /\ prop[p].url \in Url \cup {None}
               /\ prop[p].by \in User \cup {None}
               /\ req[a].row \in Entity
               /\ req[a].restored \in Changes
               /\ req[a].cleared \in Cleared
<1>1. req[a] \in Request /\ req[a].proposal \in Proposal
  BY DEF TypeOK
<1>2. prop[req[a].proposal] \in ProposalRow
  BY <1>1 DEF TypeOK
<1> QED
  BY <1>1, <1>2 DEF Request, ProposalRow

LEMMA NextType == TypeOK /\ [Next]_vars => TypeOK'
<1> SUFFICES ASSUME TypeOK, [Next]_vars PROVE TypeOK'
  OBVIOUS
<1> USE IdleTypes
<1>1. ASSUME NEW p \in Proposal, NEW u \in User, NEW url \in Url \cup {None},
             NEW c \in Changes, proposeChange(p, u, c, url)
      PROVE  TypeOK'
  <2> DEFINE cleaned == [f \in Field |-> IF c[f] = company.val[f] THEN Unset ELSE c[f]]
  <2>1. cleaned \in Changes
    BY DEF Changes
  <2>2. [status |-> "PENDING", changes |-> cleaned, url |-> url, by |-> u,
         cleared |-> NotRecorded] \in ProposalRow
    BY <2>1 DEF ProposalRow
  <2>3. prop' \in [Proposal -> ProposalRow]
    BY <1>1, <2>2 DEF proposeChange, TypeOK
  <2> QED
    BY <1>1, <2>3 DEF proposeChange, TypeOK
<1>2. ASSUME NEW u \in User, ban(u) \/ unban(u) PROVE TypeOK'
  <2>1. ASSUME ban(u) PROVE prop' \in [Proposal -> ProposalRow]
    BY <2>1 DEF ban, rejectPending, TypeOK, ProposalRow
  <2> QED
    BY <1>2, <2>1 DEF ban, unban, TypeOK
<1>3. ASSUME NEW a \in Admin, Moderate(a) PROVE TypeOK'
  <2>1. ASSUME NEW p \in Proposal, NEW s \in {"APPROVED", "REJECTED"},
               loadSubmissionNotice(a, p, s)
        PROVE  TypeOK'
    <3> DEFINE late == s = "REJECTED" /\ prop[p].status = "APPROVED"
    <3>1. late \in BOOLEAN
      OBVIOUS
    <3>2. req' = [req EXCEPT ![a].pc = "noticed", ![a].proposal = p, ![a].status = s,
                             ![a].retracting = late]
      BY <2>1 DEF loadSubmissionNotice
    <3> HIDE DEF late
    <3> DEFINE r == [req[a] EXCEPT !.pc = "noticed", !.proposal = p, !.status = s,
                                   !.retracting = late]
    <3>4. r \in Request /\ r.proposal = p
      BY <3>1 DEF TypeOK, Request
    <3>5. req' = [req EXCEPT ![a] = r]
      BY <3>2 DEF TypeOK
    <3> HIDE DEF r
    <3>3. /\ req' \in [Admin -> Request]
          /\ \A b \in Admin : req'[b].pc # "idle" => req'[b].proposal \in Proposal
      BY <3>4, <3>5 DEF TypeOK
    <3> QED
      BY <2>1, <3>3 DEF loadSubmissionNotice, TypeOK
  <2>2. ASSUME readProposal(a) PROVE TypeOK'
    <3>1. prop[req[a].proposal].cleared \in Cleared /\ company \in Entity
      BY <2>2, RequestType DEF readProposal, ProposalRow, TypeOK
    <3> QED
      BY <2>2, <3>1 DEF readProposal, TypeOK, Request
  <2>3. ASSUME applyProposal(a) PROVE TypeOK'
    <3> DEFINE p == req[a].proposal
               fs == Keys(prop[p].changes)
               row == req[a].row
    <3>1. /\ p \in Proposal /\ prop[p] \in ProposalRow /\ prop[p].changes \in Changes
          /\ prop[p].url \in Url \cup {None} /\ prop[p].by \in User \cup {None}
          /\ row \in Entity
      BY <2>3, RequestType DEF applyProposal
    <3>2. fs \in SUBSET Field /\ \A f \in fs : prop[p].changes[f] \in Value
      BY <3>1, KeysValues
    <3>3. company' \in Entity
      <4>1. company.val \in [Field -> Value]
        BY DEF TypeOK, Entity
      <4>2. Overlay(prop[p].changes, company.val) \in [Field -> Value]
        BY <3>1, <4>1, OverlayType
      <4> QED
        BY <2>3, <3>1, <4>2 DEF applyProposal, TypeOK, Entity, WithoutPartnerFields
    <3>4. prop' \in [Proposal -> ProposalRow]
      <4>1. ClearedMarks(row.marks, fs) \in Cleared
        BY <3>1 DEF ClearedMarks, Cleared, Entity
      <4> QED
        BY <2>3, <3>1, <4>1 DEF applyProposal, TypeOK, ProposalRow
    <3>5. timeline' \in [Field -> Seq(Revision)]
      <4>1. timeline' = Record(timeline, fs, row.val, prop[p].changes, "UPDATE", p)
        BY <2>3 DEF applyProposal
      <4>2. \A f \in fs : row.val[f] \in Value
        BY <3>1, <3>2 DEF Entity
      <4>3. timeline \in [Field -> Seq(Revision)]
        BY DEF TypeOK
      <4> HIDE DEF p, fs, row
      <4> QED
        BY <3>1, <3>2, <4>1, <4>2, <4>3, RecordType
    <3>6. citation' \in SUBSET Citation
      BY <2>3, <3>1, <3>2, CiteType DEF applyProposal, TypeOK
    <3>7. req' \in [Admin -> Request] /\ \A b \in Admin : req'[b].pc # "idle" => req'[b].proposal \in Proposal
      BY <2>3 DEF applyProposal, TypeOK, IdleRequest
    <3> QED
      BY <2>3, <3>3, <3>4, <3>5, <3>6, <3>7 DEF applyProposal, TypeOK
  <2>4. ASSUME readRevisions(a) PROVE TypeOK'
    <3>1. Restored(req[a].proposal, req[a].row.val) \in Changes
      BY <2>4, RequestType, RestoredType DEF readRevisions
    <3> QED
      BY <2>4, <3>1 DEF readRevisions, TypeOK, Request
  <2>5. ASSUME revertProposal(a) PROVE TypeOK'
    <3> DEFINE p == req[a].proposal
               back == req[a].restored
               fs == Keys(back)
               row == req[a].row
               marks == MarksToRestore(req[a].cleared, back, TouchedByPartner(row.partnerOnly))
    <3>1. /\ p \in Proposal /\ prop[p] \in ProposalRow /\ back \in Changes /\ row \in Entity
      BY <2>5, RequestType DEF revertProposal
    <3>2. fs \in SUBSET Field /\ \A f \in fs : back[f] \in Value
      BY <3>1, KeysValues
    <3>3. marks \in SUBSET Field
      BY <3>2 DEF MarksToRestore
    <3>4. company' \in Entity
      <4>1. company.val \in [Field -> Value]
        BY DEF TypeOK, Entity
      <4>2. Overlay(back, company.val) \in [Field -> Value]
        BY <3>1, <4>1, OverlayType
      <4> HIDE DEF marks
      <4>3. company' = [company EXCEPT !.val = Overlay(back, @),
                                       !.marks = IF marks \subseteq row.marks THEN @
                                                 ELSE WithPartnerFields(row.marks, marks)]
        BY <2>5 DEF revertProposal, marks
      <4> QED
        BY <3>1, <3>3, <4>2, <4>3 DEF TypeOK, Entity, WithPartnerFields
    <3>5. prop' \in [Proposal -> ProposalRow]
      BY <2>5, <3>1 DEF revertProposal, TypeOK, ProposalRow
    <3>6. timeline' \in [Field -> Seq(Revision)]
      <4>1. timeline' = Record(timeline, fs, row.val, back, "RETRACT", p)
        BY <2>5 DEF revertProposal
      <4>2. \A f \in fs : row.val[f] \in Value
        BY <3>1, <3>2 DEF Entity
      <4>3. timeline \in [Field -> Seq(Revision)]
        BY DEF TypeOK
      <4> HIDE DEF p, fs, row, back
      <4> QED
        BY <3>1, <3>2, <4>1, <4>2, <4>3, RecordType
    <3>7. citation' \in SUBSET Citation
      BY <2>5 DEF revertProposal, DeleteProposalCitations, TypeOK
    <3>8. req' \in [Admin -> Request] /\ \A b \in Admin : req'[b].pc # "idle" => req'[b].proposal \in Proposal
      BY <2>5 DEF revertProposal, TypeOK, IdleRequest
    <3> QED
      BY <2>5, <3>4, <3>5, <3>6, <3>7, <3>8 DEF revertProposal, TypeOK
  <2>6. ASSUME reject(a) PROVE TypeOK'
    <3>1. prop' \in [Proposal -> ProposalRow]
      BY <2>6 DEF reject, TypeOK, ProposalRow
    <3> QED
      BY <2>6, <3>1 DEF reject, TypeOK, IdleRequest
  <2> QED
    BY <1>3, <2>1, <2>2, <2>3, <2>4, <2>5, <2>6 DEF Moderate
<1>4. ASSUME NEW s \in {"PARTNER", "PUBLIC"}, NEW d \in Changes,
             ownKeyUpdate(s, d) \/ enrich(s, d)
      PROVE  TypeOK'
  <2>1. readCompany(s, d)
    BY <1>4 DEF ownKeyUpdate, enrich
  <2>2. [pc |-> "read", source |-> s, data |-> d, row |-> company] \in IngestWrite
    BY DEF IngestWrite, TypeOK
  <2> QED
    BY <2>1, <2>2 DEF readCompany, TypeOK
<1>5. ASSUME writeCompany PROVE TypeOK'
  <2> DEFINE fs == Keys(ingest.data)
             row == ingest.row
             moved == {f \in fs : row.val[f] # ingest.data[f]}
  <2>1. ingest.data \in Changes /\ row \in Entity
    BY DEF TypeOK, IngestWrite
  <2>2. fs \in SUBSET Field /\ \A f \in fs : ingest.data[f] \in Value
    BY <2>1, KeysValues
  <2>3. company' \in Entity
    <3>1. company.val \in [Field -> Value] /\ company.marks \in SUBSET Field /\ company.partnerOnly \in BOOLEAN
      BY DEF TypeOK, Entity
    <3>2. Overlay(ingest.data, company.val) \in [Field -> Value]
      BY <2>1, <3>1, OverlayType
    <3>3. ProvenanceMarks(row, ingest.source, fs, company.marks) \in SUBSET Field
      BY <2>1, <2>2, <3>1 DEF ProvenanceMarks, Entity
    <3>4. ProvenanceOnly(row, ingest.source, company.partnerOnly) \in BOOLEAN
      BY <3>1 DEF ProvenanceOnly
    <3> QED
      BY <1>5, <3>2, <3>3, <3>4 DEF writeCompany, Entity
  <2>4. timeline' \in [Field -> Seq(Revision)]
    <3>1. timeline' = Record(timeline, moved, row.val, ingest.data, "UPDATE", None)
      BY <1>5 DEF writeCompany
    <3>2. moved \in SUBSET Field /\ \A f \in moved : row.val[f] \in Value /\ ingest.data[f] \in Value
      BY <2>1, <2>2 DEF Entity
    <3>3. timeline \in [Field -> Seq(Revision)]
      BY DEF TypeOK
    <3> HIDE DEF moved, fs, row
    <3> QED
      BY <3>1, <3>2, <3>3, RecordType
  <2> QED
    BY <1>5, <2>3, <2>4 DEF writeCompany, TypeOK
<1>6. CASE UNCHANGED vars
  BY <1>6 DEF vars, TypeOK
<1> QED
  BY <1>1, <1>2, <1>3, <1>4, <1>5, <1>6 DEF Next, Contribute, Ban, Ingest

\* Every handler keeps the rows, the timeline and the requests well formed.
THEOREM TypeCorrect == Spec => []TypeOK
BY InitType, NextType, PTL DEF Spec

----------------------------------------------------------------------------
(* ApprovedIsCited is inductive once the rows are well formed: an approval  *)
(* cites all its fields in one step, and a retraction keeps what another    *)
(* approved proposal with the same link still needs.                        *)

Cited(cites, u, f) == \E x \in cites : x.url = u /\ x.field = f

LEMMA CiteKeepsAndAdds ==
    ASSUME NEW cites, NEW u \in Url, NEW fs, NEW by
    PROVE  /\ cites \subseteq Cite(cites, u, fs, by)
           /\ \A f \in fs : Cited(Cite(cites, u, fs, by), u, f)
<1>1. u # None
  BY ValueAssumption, ProposalAssumption
<1>2. cites \subseteq Cite(cites, u, fs, by)
  BY <1>1 DEF Cite
<1>3. ASSUME NEW f \in fs PROVE Cited(Cite(cites, u, fs, by), u, f)
  <2>1. CASE \E x \in cites : x.url = u /\ x.field = f
    BY <1>2, <2>1 DEF Cited
  <2>2. CASE ~ \E x \in cites : x.url = u /\ x.field = f
    <3> DEFINE new == [url |-> u, field |-> f, by |-> by]
    <3>1. new \in Cite(cites, u, fs, by)
      BY <1>1, <2>2 DEF Cite
    <3>2. new.url = u /\ new.field = f
      OBVIOUS
    <3> QED
      BY <3>1, <3>2 DEF Cited
  <2> QED
    BY <2>1, <2>2
<1> QED
  BY <1>2, <1>3

\* The invariant, with its existential named.
CitedInv ==
    \A q \in Proposal :
        prop[q].status = "APPROVED" /\ prop[q].url # None
            => \A f \in Keys(prop[q].changes) : Cited(citation, prop[q].url, f)

LEMMA InitCited == Init => CitedInv
<1> SUFFICES ASSUME Init PROVE CitedInv
  OBVIOUS
<1>1. CASE prop = [q \in Proposal |-> NoRow]
  BY <1>1 DEF CitedInv, NoRow
<1>2. ASSUME NEW p \in Proposal, NEW f \in Field, NEW old \in Value, NEW new \in Value,
             NEW u \in Url \cup {None}, NEW by \in User, LegacyApproved(p, f, old, new, u, by)
      PROVE  CitedInv
  <2> SUFFICES ASSUME NEW q \in Proposal, prop[q].status = "APPROVED", prop[q].url # None,
                      NEW g \in Keys(prop[q].changes)
               PROVE  Cited(citation, prop[q].url, g)
    BY DEF CitedInv
  <2>1. q = p /\ prop[q].url = u /\ u \in Url /\ prop[q].changes = [NoChanges EXCEPT ![f] = new]
    BY <1>2 DEF LegacyApproved, NoRow
  <2>2. g = f
    BY <2>1 DEF Keys, NoChanges
  <2> QED
    BY <1>2, <2>1, <2>2, CiteKeepsAndAdds DEF LegacyApproved
<1> QED
  BY <1>1, <1>2 DEF Init

LEMMA NextCited == TypeOK /\ CitedInv /\ [Next]_vars => CitedInv'
<1> SUFFICES ASSUME TypeOK, CitedInv, [Next]_vars,
                    NEW q \in Proposal, prop'[q].status = "APPROVED", prop'[q].url # None,
                    NEW f \in Keys(prop'[q].changes)
             PROVE  Cited(citation', prop'[q].url, f)
  BY DEF CitedInv
<1>0. prop \in [Proposal -> ProposalRow]
  BY DEF TypeOK
\* Steps that neither approve nor touch a citation.
<1>1. ASSUME prop'[q] = prop[q], citation' = citation
      PROVE  Cited(citation', prop'[q].url, f)
  BY <1>1 DEF CitedInv
<1>2. ASSUME NEW p \in Proposal, NEW u \in User, NEW url \in Url \cup {None},
             NEW c \in Changes, proposeChange(p, u, c, url)
      PROVE  Cited(citation', prop'[q].url, f)
  <2>1. q # p
    BY <1>0, <1>2 DEF proposeChange
  <2> QED
    BY <1>0, <1>1, <1>2, <2>1 DEF proposeChange
<1>3. ASSUME NEW u \in User, ban(u) \/ unban(u)
      PROVE  Cited(citation', prop'[q].url, f)
  <2>1. prop'[q] = prop[q]
    BY <1>0, <1>3 DEF ban, unban, rejectPending, ProposalRow
  <2> QED
    BY <1>1, <1>3, <2>1 DEF ban, unban
<1>4. ASSUME NEW a \in Admin, Moderate(a)
      PROVE  Cited(citation', prop'[q].url, f)
  <2>1. ASSUME \/ \E p \in Proposal, s \in {"APPROVED", "REJECTED"} : loadSubmissionNotice(a, p, s)
               \/ readProposal(a)
               \/ readRevisions(a)
        PROVE  Cited(citation', prop'[q].url, f)
    BY <1>1, <2>1 DEF loadSubmissionNotice, readProposal, readRevisions
  <2>2. ASSUME applyProposal(a) PROVE Cited(citation', prop'[q].url, f)
    <3> DEFINE p == req[a].proposal
    <3>1. p \in Proposal /\ prop[p].url \in Url \cup {None}
      BY <2>2, RequestType DEF applyProposal
    <3>2. citation' = Cite(citation, prop[p].url, Keys(prop[p].changes), prop[p].by)
      BY <2>2 DEF applyProposal
    <3>3. citation \subseteq citation'
      BY <3>2 DEF Cite
    <3>4. prop'[q].url = prop[q].url /\ prop'[q].changes = prop[q].changes
      BY <1>0, <2>2, <3>1 DEF applyProposal, ProposalRow
    <3>5. CASE q = p
      <4>1. prop[p].url \in Url
        BY <3>1, <3>4, <3>5
      <4> HIDE DEF p
      <4> QED
        BY <3>2, <3>4, <3>5, <4>1, CiteKeepsAndAdds
    <3>6. CASE q # p
      <4>1. prop'[q] = prop[q]
        BY <1>0, <2>2, <3>1, <3>6 DEF applyProposal
      <4>2. Cited(citation, prop[q].url, f)
        BY <4>1 DEF CitedInv
      <4> QED
        BY <3>3, <3>4, <4>2 DEF Cited
    <3> QED
      BY <3>5, <3>6
  <2>3. ASSUME revertProposal(a) PROVE Cited(citation', prop'[q].url, f)
    <3> DEFINE p == req[a].proposal
               fs == Keys(req[a].restored)
    <3>1. p \in Proposal
      BY <2>3, RequestType DEF revertProposal
    <3>2. q # p
      BY <1>0, <2>3, <3>1 DEF revertProposal, ProposalRow
    <3>3. prop'[q] = prop[q]
      BY <1>0, <2>3, <3>1, <3>2 DEF revertProposal
    <3>4. PICK x \in citation : x.url = prop[q].url /\ x.field = f
      BY <3>3 DEF CitedInv, Cited
    <3>5. citation' = DeleteProposalCitations(p, fs)
      BY <2>3 DEF revertProposal
    <3>6. f \in Field
      BY <3>3 DEF Keys
    <3>7. x.url = prop[p].url => f \in StillCited(p)
      BY <3>2, <3>3, <3>4, <3>6 DEF StillCited
    <3>8. x \in citation'
      BY <3>4, <3>5, <3>7 DEF DeleteProposalCitations
    <3> QED
      BY <3>3, <3>4, <3>8 DEF Cited
  <2>4. ASSUME reject(a) PROVE Cited(citation', prop'[q].url, f)
    <3>1. req[a].proposal \in Proposal
      BY <2>4, RequestType DEF reject
    <3>2. q # req[a].proposal
      BY <1>0, <2>4, <3>1 DEF reject, ProposalRow
    <3>3. prop'[q] = prop[q]
      BY <1>0, <2>4, <3>1, <3>2 DEF reject
    <3> QED
      BY <1>1, <2>4, <3>3 DEF reject
  <2> QED
    BY <1>4, <2>1, <2>2, <2>3, <2>4 DEF Moderate
<1>5. ASSUME Ingest PROVE Cited(citation', prop'[q].url, f)
  BY <1>1, <1>5 DEF Ingest, ownKeyUpdate, enrich, readCompany, writeCompany
<1>6. CASE UNCHANGED vars
  BY <1>1, <1>6 DEF vars
<1> QED
  BY <1>2, <1>3, <1>4, <1>5, <1>6 DEF Next, Contribute, Ban

\* Whatever overlaps, an approved edit with a source stays cited for every
\* field it changed.
THEOREM ApprovedStaysCited == Spec => []ApprovedIsCited
<1>1. CitedInv => ApprovedIsCited
  BY DEF CitedInv, ApprovedIsCited, Cited
<1> QED
  BY <1>1, InitCited, NextCited, TypeCorrect, InitType, NextType, PTL DEF Spec

----------------------------------------------------------------------------
(* Handlers that do not overlap: what one of them read is still so when it *)
(* writes, so the timeline it extends ends in the value shown.             *)

ReadsInv ==
    /\ \A a \in Admin : req[a].pc \in {"read", "revisions"} => req[a].row = company
    /\ ingest.pc = "read" => ingest.row = company

LEMMA OnlyBusy ==
    ASSUME OneAtATime, NEW a \in Admin, req[a].pc # "idle"
    PROVE  ingest.pc = "idle" /\ \A b \in Admin \ {a} : req[b].pc = "idle"
BY DEF OneAtATime, Busy

LEMMA InitReads == Init => OneAtATime /\ ReadsInv
BY DEF Init, OneAtATime, Busy, ReadsInv, IdleRequest, IdleIngest

LEMMA NextReads ==
    TypeOK /\ OneAtATime /\ ReadsInv /\ [Next /\ OneAtATime']_vars => OneAtATime' /\ ReadsInv'
<1> SUFFICES ASSUME TypeOK, OneAtATime, ReadsInv, [Next /\ OneAtATime']_vars
             PROVE  OneAtATime' /\ ReadsInv'
  OBVIOUS
<1>t. req \in [Admin -> Request] /\ ingest \in IngestWrite
  BY DEF TypeOK
<1>1. ASSUME UNCHANGED <<company, req, ingest>> PROVE OneAtATime' /\ ReadsInv'
  BY <1>1 DEF OneAtATime, Busy, ReadsInv
<1>2. ASSUME NEW a \in Admin, NEW r, req' = [req EXCEPT ![a] = r], UNCHANGED <<company, ingest>>,
             r.pc \in {"read", "revisions"} => r.row = company
      PROVE  ReadsInv'
  BY <1>t, <1>2 DEF ReadsInv
<1>3. ASSUME NEW a \in Admin, req[a].pc # "idle", req' = [req EXCEPT ![a] = IdleRequest],
             ingest' = ingest
      PROVE  ReadsInv'
  BY <1>t, <1>3, OnlyBusy DEF ReadsInv, IdleRequest
<1>4. ASSUME NEW a \in Admin, Moderate(a) PROVE ReadsInv'
  <2>1. ASSUME NEW p \in Proposal, NEW s \in {"APPROVED", "REJECTED"}, loadSubmissionNotice(a, p, s)
        PROVE  ReadsInv'
    <3> DEFINE late == s = "REJECTED" /\ prop[p].status = "APPROVED"
               r == [req[a] EXCEPT !.pc = "noticed", !.proposal = p, !.status = s, !.retracting = late]
    <3>1. r.pc = "noticed"
      BY <1>t DEF Request
    <3>2. req' = [req EXCEPT ![a] = r] /\ UNCHANGED <<company, ingest>>
      BY <1>t, <2>1 DEF loadSubmissionNotice
    <3> HIDE DEF r
    <3> QED BY <1>2, <3>1, <3>2
  <2>2. CASE readProposal(a)
    <3> DEFINE r == [req[a] EXCEPT !.pc = "read", !.row = company, !.cleared = prop[req[a].proposal].cleared]
    <3>1. r.row = company
      BY <1>t DEF Request
    <3>2. req' = [req EXCEPT ![a] = r] /\ UNCHANGED <<company, ingest>>
      BY <1>t, <2>2 DEF readProposal
    <3> HIDE DEF r
    <3> QED BY <1>2, <3>1, <3>2
  <2>3. CASE readRevisions(a)
    <3> DEFINE r == [req[a] EXCEPT !.pc = "revisions",
                                   !.restored = Restored(req[a].proposal, req[a].row.val)]
    <3>1. r.row = req[a].row /\ req[a].row = company
      BY <1>t, <2>3 DEF Request, readRevisions, ReadsInv
    <3>2. req' = [req EXCEPT ![a] = r] /\ UNCHANGED <<company, ingest>>
      BY <1>t, <2>3 DEF readRevisions
    <3> HIDE DEF r
    <3> QED BY <1>2, <3>1, <3>2
  <2> QED BY <1>3, <1>4, <2>1, <2>2, <2>3 DEF Moderate, applyProposal, revertProposal, reject
<1>5. CASE Ingest /\ OneAtATime'
  <2>1. ASSUME NEW s, NEW d, readCompany(s, d) PROVE ReadsInv'
    BY <2>1 DEF readCompany, ReadsInv
  <2>2. CASE writeCompany
    BY <2>2 DEF writeCompany, ReadsInv, IdleIngest, OneAtATime, Busy
  <2> QED BY <1>5, <2>1, <2>2 DEF Ingest, ownKeyUpdate, enrich
<1>6. CASE UNCHANGED vars
  BY <1>1, <1>6 DEF vars
<1>7. CASE Contribute \/ Ban
  BY <1>1, <1>7 DEF Contribute, Ban, proposeChange, ban, unban
<1> QED BY <1>4, <1>5, <1>6, <1>7 DEF Next

\* One more entry, that replaces the value shown with the one shown next.
LEMMA ChainGrows ==
    ASSUME TypeOK, TimelineTellsTheRow, NEW fs \in SUBSET Field, NEW after,
           NEW act \in {"UPDATE", "RETRACT"}, NEW p \in Proposal \cup {None},
           \A f \in fs : after[f] \in Value /\ company'.val[f] = after[f],
           \A f \in Field \ fs : company'.val[f] = company.val[f],
           timeline' = Record(timeline, fs, company.val, after, act, p)
    PROVE  TimelineTellsTheRow'
<1> SUFFICES ASSUME NEW f \in Field
             PROVE  /\ \A i \in 1 .. Len(timeline'[f]) - 1 : timeline'[f][i].after = timeline'[f][i + 1].before
                    /\ Len(timeline'[f]) > 0 => timeline'[f][Len(timeline'[f])].after = company'.val[f]
  BY DEF TimelineTellsTheRow
<1> DEFINE tl == timeline[f]
<1>1. tl \in Seq(Revision) /\ company.val[f] \in Value
  BY DEF TypeOK, Entity
<1>2. /\ \A i \in 1 .. Len(tl) - 1 : tl[i].after = tl[i + 1].before
      /\ Len(tl) > 0 => tl[Len(tl)].after = company.val[f]
  BY DEF TimelineTellsTheRow
<1>3. CASE f \in fs
  <2> DEFINE e == [before |-> company.val[f], after |-> after[f], action |-> act, proposal |-> p]
  <2>1. timeline'[f] = Append(tl, e)
    BY <1>3 DEF Record
  <2>2. e.before = company.val[f] /\ e.after = after[f] /\ e \in Revision
    BY <1>1, <1>3 DEF Revision
  <2> HIDE DEF tl, e
  <2>3. /\ Len(timeline'[f]) = Len(tl) + 1 /\ Len(tl) \in Nat
        /\ \A i \in 1 .. Len(tl) : timeline'[f][i] = tl[i]
        /\ timeline'[f][Len(tl) + 1] = e
    BY <1>1, <2>1, <2>2
  <2>4. company'.val[f] = e.after
    BY <1>3, <2>2
  <2>5. ASSUME NEW i \in 1 .. Len(tl) PROVE timeline'[f][i].after = timeline'[f][i + 1].before
    <3>1. CASE i = Len(tl)
      BY <1>2, <2>2, <2>3, <3>1
    <3>2. CASE i < Len(tl)
      <4>1. i \in 1 .. Len(tl) - 1 /\ i + 1 \in 1 .. Len(tl)
        BY <2>3, <3>2
      <4> QED BY <1>2, <2>3, <4>1
    <3> QED BY <2>3, <3>1, <3>2
  <2> QED BY <2>3, <2>4, <2>5
<1>4. CASE f \notin fs
  BY <1>2, <1>4 DEF Record
<1> QED BY <1>3, <1>4

LEMMA InitChain == Init => TimelineTellsTheRow
<1> SUFFICES ASSUME Init, NEW f \in Field
             PROVE  /\ \A i \in 1 .. Len(timeline[f]) - 1 : timeline[f][i].after = timeline[f][i + 1].before
                    /\ Len(timeline[f]) > 0 => timeline[f][Len(timeline[f])].after = company.val[f]
  BY DEF TimelineTellsTheRow
<1>1. CASE timeline[f] = <<>>
  BY <1>1
<1>2. ASSUME NEW e, timeline[f] = <<e>>, e.after = company.val[f]
      PROVE  /\ \A i \in 1 .. Len(timeline[f]) - 1 : timeline[f][i].after = timeline[f][i + 1].before
             /\ Len(timeline[f]) > 0 => timeline[f][Len(timeline[f])].after = company.val[f]
  BY <1>2
<1>3. ASSUME NEW p \in Proposal, NEW g \in Field, NEW old \in Value, NEW new \in Value,
             NEW u \in Url \cup {None}, NEW by \in User, LegacyApproved(p, g, old, new, u, by)
      PROVE  \/ timeline[f] = <<>>
             \/ \E e : timeline[f] = <<e>> /\ e.after = company.val[f]
  <2>1. company.val[g] = new
    BY <1>3 DEF LegacyApproved
  <2>2. timeline[f] = IF f = g THEN <<[before |-> old, after |-> new, action |-> "UPDATE", proposal |-> p]>>
                      ELSE <<>>
    BY <1>3 DEF LegacyApproved
  <2> QED BY <2>1, <2>2
<1> QED BY <1>1, <1>2, <1>3 DEF Init

LEMMA NextChain ==
    TypeOK /\ ReadsInv /\ TimelineTellsTheRow /\ [Next]_vars => TimelineTellsTheRow'
<1> SUFFICES ASSUME TypeOK, ReadsInv, TimelineTellsTheRow, [Next]_vars PROVE TimelineTellsTheRow'
  OBVIOUS
<1>1. ASSUME UNCHANGED <<company, timeline>> PROVE TimelineTellsTheRow'
  BY <1>1 DEF TimelineTellsTheRow
<1>2. company.val \in [Field -> Value]
  BY DEF TypeOK, Entity
<1>3. ASSUME NEW c \in Changes, company'.val = Overlay(c, company.val)
      PROVE  /\ \A f \in Keys(c) : c[f] \in Value /\ company'.val[f] = c[f]
             /\ \A f \in Field \ Keys(c) : company'.val[f] = company.val[f]
  BY <1>3, KeysValues DEF Overlay, Keys
<1>4. ASSUME NEW a \in Admin, applyProposal(a) PROVE TimelineTellsTheRow'
  <2>1. PICK p \in Proposal, c \in Changes : p = req[a].proposal /\ c = prop[p].changes
    BY <1>4, RequestType DEF applyProposal
  <2>2. req[a].row = company
    BY <1>4 DEF applyProposal, ReadsInv
  <2>3. /\ company'.val = Overlay(c, company.val)
        /\ timeline' = Record(timeline, Keys(c), company.val, c, "UPDATE", p)
    BY <1>4, <2>1, <2>2 DEF applyProposal, TypeOK, Entity
  <2>4. /\ Keys(c) \in SUBSET Field
        /\ \A f \in Keys(c) : c[f] \in Value /\ company'.val[f] = c[f]
        /\ \A f \in Field \ Keys(c) : company'.val[f] = company.val[f]
    BY <1>3, <2>3, KeysValues
  <2> QED BY <2>3, <2>4, ChainGrows
<1>5. ASSUME NEW a \in Admin, revertProposal(a) PROVE TimelineTellsTheRow'
  <2>1. PICK p \in Proposal, c \in Changes : p = req[a].proposal /\ c = req[a].restored
    BY <1>5, RequestType DEF revertProposal
  <2>2. req[a].row = company
    BY <1>5 DEF revertProposal, ReadsInv
  <2>3. /\ company'.val = Overlay(c, company.val)
        /\ timeline' = Record(timeline, Keys(c), company.val, c, "RETRACT", p)
    BY <1>5, <2>1, <2>2 DEF revertProposal, TypeOK, Entity
  <2>4. /\ Keys(c) \in SUBSET Field
        /\ \A f \in Keys(c) : c[f] \in Value /\ company'.val[f] = c[f]
        /\ \A f \in Field \ Keys(c) : company'.val[f] = company.val[f]
    BY <1>3, <2>3, KeysValues
  <2> QED BY <2>3, <2>4, ChainGrows
<1>6. CASE writeCompany
  <2>1. PICK c \in Changes : c = ingest.data
    BY DEF TypeOK, IngestWrite
  <2>2. ingest.row = company
    BY <1>6 DEF writeCompany, ReadsInv
  <2> DEFINE moved == {f \in Keys(c) : company.val[f] # c[f]}
  <2>3. /\ company'.val = Overlay(c, company.val)
        /\ timeline' = Record(timeline, moved, company.val, c, "UPDATE", None)
    BY <1>6, <2>1, <2>2 DEF writeCompany
  <2>4. /\ moved \in SUBSET Field
        /\ \A f \in moved : c[f] \in Value /\ company'.val[f] = c[f]
        /\ \A f \in Field \ moved : company'.val[f] = company.val[f]
    BY <1>3, <2>3, KeysValues
  <2> HIDE DEF moved
  <2> QED BY <2>3, <2>4, ChainGrows
<1> QED BY <1>1, <1>4, <1>5, <1>6
        DEF Next, Contribute, Ban, Moderate, Ingest, proposeChange, ban, unban, loadSubmissionNotice,
            readProposal, readRevisions, reject, ownKeyUpdate, enrich, readCompany, vars

\* When handlers do not overlap, the timeline of every field is a chain that
\* ends in the value shown (applyProposal, revertProposal, writeCompany).
THEOREM TimelineIsAChain == SerialSpec => []TimelineTellsTheRow
<1>1. [Next /\ OneAtATime']_vars => [Next]_vars
  OBVIOUS
<1> QED BY <1>1, InitType, NextType, InitReads, NextReads, InitChain, NextChain, PTL DEF SerialSpec

----------------------------------------------------------------------------
(* Company edits implement ReversibleEdit: the timeline keeps what each    *)
(* approval replaced.                                                      *)

\* What the timeline keeps for field f of proposal p.
Was(p, f) == IF Mine(p, f) = {} THEN Unset ELSE Replaced(p, f).before

\* The entries of others, and of retractions, are not a proposal's own.
LEMMA OthersStay ==
    ASSUME TypeOK, NEW fs \in SUBSET Field, NEW before, NEW after, NEW act, NEW q,
           \A g \in fs : before[g] \in Value /\ after[g] \in Value,
           act \in {"UPDATE", "RETRACT"}, q \in Proposal \cup {None},
           timeline' = Record(timeline, fs, before, after, act, q),
           NEW p \in Proposal, NEW f \in Field, f \notin fs \/ act # "UPDATE" \/ q # p
    PROVE  /\ Mine(p, f)' = Mine(p, f) /\ Was(p, f)' = Was(p, f)
           /\ \A i \in Mine(p, f) : timeline'[f][i] = timeline[f][i]
<1> DEFINE tl == timeline[f]
           n == Len(tl)
           e == [before |-> before[f], after |-> after[f], action |-> act, proposal |-> q]
           real == Mine(p, f) \cap Real(f)
<1>1. tl \in Seq(Revision) /\ n \in Nat /\ DOMAIN tl = 1 .. n
  BY DEF TypeOK
<1>2. Mine(p, f) \in SUBSET (1 .. n) /\ real \in SUBSET Mine(p, f)
  BY <1>1 DEF Mine
<1>3. CASE f \notin fs
  <2>1. timeline'[f] = timeline[f]
    BY <1>3 DEF Record
  <2> QED BY <2>1 DEF Mine, Was, Replaced, Real
<1>4. CASE f \in fs
  <2>1. timeline'[f] = Append(tl, e) /\ e \in Revision
    BY <1>4 DEF Record, Revision
  <2>2. e.action = act /\ e.proposal = q
    OBVIOUS
  <2> HIDE DEF e
  <2>3. /\ DOMAIN timeline'[f] = 1 .. n + 1 /\ timeline'[f][n + 1] = e
        /\ \A i \in 1 .. n : timeline'[f][i] = timeline[f][i]
    BY <1>1, <2>1
  <2> HIDE DEF tl, n
  <2>4. Mine(p, f)' = Mine(p, f)
    BY <1>1, <1>4, <2>2, <2>3 DEF Mine, tl
  <2>5. (Mine(p, f) \cap Real(f))' = Mine(p, f) \cap Real(f)
    BY <1>1, <1>2, <2>3, <2>4 DEF Real, tl
  <2>6. ASSUME Mine(p, f) # {} PROVE Replaced(p, f)' = Replaced(p, f)
    <3>1. Newest(Mine(p, f)) \in 1 .. n /\ (real # {} => Newest(real) \in 1 .. n)
      BY <1>1, <1>2, <2>6, NewestExists
    <3> QED BY <2>3, <2>4, <2>5, <3>1 DEF Replaced
  <2> QED BY <1>2, <2>3, <2>4, <2>6 DEF Was
<1> QED BY <1>3, <1>4

\* An approval's entry is the newest that says what it replaced, unless it
\* replaced nothing and an older one says it.
LEMMA MineGrows ==
    ASSUME TypeOK, NEW fs \in SUBSET Field, NEW before, NEW after, NEW p \in Proposal,
           \A g \in fs : before[g] \in Value /\ after[g] \in Value,
           timeline' = Record(timeline, fs, before, after, "UPDATE", p), NEW f \in fs
    PROVE  /\ Mine(p, f)' # {}
           /\ \A i \in Mine(p, f)' : \/ i \in Mine(p, f) /\ timeline'[f][i] = timeline[f][i]
                                     \/ timeline'[f][i].after = after[f]
           /\ Was(p, f)' = IF before[f] = after[f] /\ Mine(p, f) \cap Real(f) # {}
                           THEN Was(p, f) ELSE before[f]
<1> DEFINE tl == timeline[f]
           n == Len(tl)
           e == [before |-> before[f], after |-> after[f], action |-> "UPDATE", proposal |-> p]
           real == Mine(p, f) \cap Real(f)
<1>1. tl \in Seq(Revision) /\ n \in Nat /\ DOMAIN tl = 1 .. n
  BY DEF TypeOK
<1>2. Mine(p, f) \in SUBSET (1 .. n) /\ real \in SUBSET Mine(p, f)
  BY <1>1 DEF Mine
<1>3. timeline'[f] = Append(tl, e) /\ e \in Revision
  BY DEF Record, Revision
<1>4. e.before = before[f] /\ e.after = after[f] /\ e.action = "UPDATE" /\ e.proposal = p
  OBVIOUS
<1> HIDE DEF e
<1>5. /\ DOMAIN timeline'[f] = 1 .. n + 1 /\ timeline'[f][n + 1] = e
      /\ \A i \in 1 .. n : timeline'[f][i] = timeline[f][i]
  BY <1>1, <1>3
<1> HIDE DEF tl, n
<1>6. Mine(p, f)' = Mine(p, f) \cup {n + 1}
  BY <1>1, <1>4, <1>5 DEF Mine, tl
<1>7. (Mine(p, f) \cap Real(f))' = IF before[f] = after[f] THEN real ELSE real \cup {n + 1}
  BY <1>1, <1>2, <1>4, <1>5, <1>6 DEF Real, tl
<1>8. ASSUME NEW s \in SUBSET (1 .. n) PROVE Newest(s \cup {n + 1}) = n + 1
  <2>1. s \cup {n + 1} \in SUBSET (1 .. n + 1) /\ n + 1 \in Nat
    BY <1>1
  <2>2. PICK x : x = Newest(s \cup {n + 1})
    OBVIOUS
  <2>3. x \in s \cup {n + 1} /\ n + 1 <= x
    BY <2>1, <2>2, NewestExists
  <2>4. s \subseteq 1 .. n /\ n \in Nat
    BY <1>1
  <2>5. x \notin s
    BY <2>3, <2>4
  <2> QED BY <2>2, <2>3, <2>5
<1>9. /\ Mine(p, f)' # {} /\ Was(p, f)' = Replaced(p, f)'.before
      /\ \A i \in Mine(p, f)' : \/ i \in Mine(p, f) /\ timeline'[f][i] = timeline[f][i]
                                \/ timeline'[f][i].after = after[f]
  BY <1>2, <1>4, <1>5, <1>6 DEF Was
<1>10. CASE before[f] # after[f]
  <2>1. (Mine(p, f) \cap Real(f))' = real \cup {n + 1} /\ Newest(real \cup {n + 1}) = n + 1
    BY <1>2, <1>7, <1>8, <1>10
  <2>2. Replaced(p, f)' = e
    BY <1>5, <2>1 DEF Replaced
  <2>3. Was(p, f)' = before[f]
    BY <1>4, <1>9, <2>2
  <2> QED BY <1>9, <1>10, <2>3
<1>11. CASE before[f] = after[f] /\ real # {}
  <2>1. (Mine(p, f) \cap Real(f))' = real /\ Newest(real) \in 1 .. n
    BY <1>1, <1>2, <1>7, <1>11, NewestExists
  <2>2. Replaced(p, f)' = Replaced(p, f)
    BY <1>5, <1>11, <2>1 DEF Replaced
  <2>3. Was(p, f)' = Was(p, f)
    BY <1>2, <1>9, <1>11, <2>2 DEF Was
  <2> QED BY <1>9, <1>11, <2>3
<1>12. CASE before[f] = after[f] /\ real = {}
  <2>1. (Mine(p, f) \cap Real(f))' = {} /\ Newest(Mine(p, f)') = n + 1
    BY <1>2, <1>6, <1>7, <1>8, <1>12
  <2>2. Replaced(p, f)' = e
    BY <1>5, <2>1 DEF Replaced
  <2>3. Was(p, f)' = before[f]
    BY <1>4, <1>9, <2>2
  <2> QED BY <1>9, <1>12, <2>3
<1> QED BY <1>10, <1>11, <1>12

\* A row that is not an edit yet is empty; what the timeline says of an edit
\* is what the edit sets, and of an approved one it says all.
EditsInv ==
    \A p \in Proposal :
        /\ prop[p].status = "NONE" =>
             prop[p].changes = NoChanges /\ \A f \in Field : Mine(p, f) = {}
        /\ prop[p].status = "APPROVED" => \A f \in Keys(prop[p].changes) : Mine(p, f) # {}
        /\ \A f \in Field : \A i \in Mine(p, f) : timeline[f][i].after = prop[p].changes[f]

\* A decision in flight: what it read of its proposal is still so.
Knows(r) ==
    /\ prop[r.proposal].status # "NONE"
    /\ r.retracting => prop[r.proposal].status = "APPROVED"
    /\ r.status = "REJECTED" /\ ~ r.retracting => prop[r.proposal].status # "APPROVED"
    /\ r.pc \in {"read", "revisions"} /\ r.status = "REJECTED" => r.retracting
    /\ r.pc = "revisions" => r.status = "REJECTED" /\ r.restored = Restored(r.proposal, company.val)
DecisionsInv == \A a \in Admin : req[a].pc # "idle" => Knows(req[a])

\* What the timeline keeps is a value, and, of an edit that changed nothing
\* since, the value it sets.
LEMMA KeptValue ==
    ASSUME TypeOK, EditsInv, NEW p \in Proposal, NEW f \in Field
    PROVE  /\ Was(p, f) \in Value \cup {Unset}
           /\ Mine(p, f) # {} => Was(p, f) \in Value
           /\ Mine(p, f) # {} /\ Mine(p, f) \cap Real(f) = {} => Was(p, f) = prop[p].changes[f]
<1>1. timeline[f] \in Seq(Revision) /\ Len(timeline[f]) \in Nat
      /\ DOMAIN timeline[f] = 1 .. Len(timeline[f])
  BY DEF TypeOK
<1>2. Mine(p, f) \in SUBSET (1 .. Len(timeline[f]))
  BY <1>1 DEF Mine
<1>3. ASSUME Mine(p, f) # {}
      PROVE  /\ Was(p, f) \in Value
             /\ Mine(p, f) \cap Real(f) = {} => Was(p, f) = prop[p].changes[f]
  <2>1. Newest(Mine(p, f)) \in Mine(p, f)
    BY <1>1, <1>2, <1>3, NewestExists
  <2>2. Mine(p, f) \cap Real(f) # {} => Newest(Mine(p, f) \cap Real(f)) \in Mine(p, f)
    BY <1>1, <1>2, NewestExists
  <2>3. PICK i \in Mine(p, f) : /\ Replaced(p, f) = timeline[f][i]
                                /\ Mine(p, f) \cap Real(f) = {} => i \notin Real(f)
    BY <2>1, <2>2 DEF Replaced
  <2>4. timeline[f][i] \in Revision /\ i \in DOMAIN timeline[f]
    BY <1>1, <1>2, <2>3
  <2>5. Was(p, f) = timeline[f][i].before
    BY <1>3, <2>3 DEF Was
  <2>6. i \notin Real(f) => timeline[f][i].before = timeline[f][i].after
    BY <2>4 DEF Real
  <2>7. timeline[f][i].after = prop[p].changes[f]
    BY <2>3 DEF EditsInv
  <2> QED BY <2>3, <2>4, <2>5, <2>6, <2>7 DEF Revision
<1> QED BY <1>3 DEF Was

----------------------------------------------------------------------------
(* The refinement mapping, by the names of ReversibleEdit. *)

Kept == [p \in Proposal |-> [f \in Field |-> Was(p, f)]]
Diffs == [p \in Proposal |-> prop[p].changes]
Applied == {p \in Proposal : prop[p].status = "APPROVED"}
Touches(p) == {f \in Field : Diffs[p][f] # Unset}
Keeps(p, f) == IF company.val[f] = Diffs[p][f] /\ Kept[p][f] # Unset THEN Kept[p][f] ELSE company.val[f]

Quiet == UNCHANGED <<company.val, Diffs, Kept, Applied>>

LEMMA MapQuiet == Quiet => UNCHANGED Edits!vars
BY DEF Quiet, Edits!vars, Kept, Was, Diffs, Applied

LEMMA MapOverwrite ==
    ASSUME company'.val \in [Field -> Value], UNCHANGED <<Diffs, Kept, Applied>>
    PROVE  Edits!Next
<1>1. Edits!Overwrite
  BY DEF Edits!Overwrite, Kept, Was, Diffs, Applied
<1> QED BY <1>1 DEF Edits!Next

LEMMA MapPropose ==
    ASSUME NEW p \in Proposal, NEW c \in Changes,
           p \notin Applied, \A f \in Field : Diffs[p][f] = Unset /\ Kept[p][f] = Unset,
           Diffs' = [Diffs EXCEPT ![p] = c], UNCHANGED <<company.val, Kept, Applied>>
    PROVE  Edits!Next
<1>1. Edits!Propose(p)
  BY DEF Edits!Propose, Edits!Part, Changes, Kept, Was, Diffs, Applied
<1> QED BY <1>1 DEF Edits!Next

LEMMA MapApprove ==
    ASSUME NEW p \in Proposal,
           Applied' = Applied \cup {p},
           company'.val = [f \in Field |-> IF f \in Touches(p) THEN Diffs[p][f] ELSE company.val[f]],
           Kept' = [Kept EXCEPT ![p] = [f \in Field |-> IF f \in Touches(p) THEN Keeps(p, f)
                                                        ELSE Kept[p][f]]],
           Diffs' = Diffs
    PROVE  Edits!Next
<1>1. Edits!Touched(p) = Touches(p)
  BY DEF Edits!Touched, Touches, Diffs
<1>2. ASSUME NEW f \in Field PROVE Edits!Replaces(p, f) = Keeps(p, f)
  BY DEF Edits!Replaces, Keeps, Kept, Was, Diffs
<1>3. [f \in Field |-> IF f \in Touches(p) THEN Keeps(p, f) ELSE Kept[p][f]]
      = [f \in Field |-> IF f \in Edits!Touched(p) THEN Edits!Replaces(p, f) ELSE Kept[p][f]]
  BY <1>1, <1>2
<1>4. Kept' = [Kept EXCEPT ![p] = [f \in Field |-> IF f \in Edits!Touched(p) THEN Edits!Replaces(p, f)
                                                   ELSE Kept[p][f]]]
  BY <1>3
<1>5. Edits!Approve(p)
  BY <1>1, <1>4 DEF Edits!Approve, Kept, Was, Diffs, Applied
<1> QED BY <1>5 DEF Edits!Next

LEMMA MapRetract ==
    ASSUME NEW p \in Proposal, p \in Applied,
           Applied' = Applied \ {p},
           company'.val = [f \in Field |-> IF f \in Touches(p) /\ company.val[f] = Diffs[p][f]
                                           THEN Kept[p][f] ELSE company.val[f]],
           UNCHANGED <<Diffs, Kept>>
    PROVE  Edits!Next
<1>1. Edits!Touched(p) = Touches(p)
  BY DEF Edits!Touched, Touches, Diffs
<1>2. Edits!Retract(p)
  BY <1>1 DEF Edits!Retract, Kept, Was, Diffs, Applied
<1> QED BY <1>2 DEF Edits!Next

SerialInv == TypeOK /\ OneAtATime /\ ReadsInv /\ EditsInv /\ DecisionsInv

LEMMA InitSerial == Init => SerialInv
<1> SUFFICES ASSUME Init PROVE EditsInv /\ DecisionsInv
  BY InitType, InitReads DEF SerialInv
<1>1. DecisionsInv
  BY DEF Init, DecisionsInv, IdleRequest
<1>2. CASE /\ prop = [q \in Proposal |-> NoRow]
           /\ timeline = [f \in Field |-> <<>>]
  <2>1. \A q \in Proposal : prop[q].status = "NONE" /\ prop[q].changes = NoChanges
    BY <1>2 DEF NoRow
  <2>2. \A f \in Field : timeline[f] = <<>>
    BY <1>2
  <2>3. ASSUME NEW q \in Proposal, NEW f \in Field PROVE Mine(q, f) = {}
    <3>1. PICK tl : tl = timeline[f]
      OBVIOUS
    <3>2. tl = <<>> /\ Mine(q, f) \subseteq DOMAIN tl
      BY <2>2, <3>1 DEF Mine
    <3> QED BY <3>2
  <2>4. NoChanges = [f \in Field |-> Unset] /\ ~ ("NONE" = "APPROVED")
    BY DEF NoChanges
  <2>5. \A q \in Proposal : Keys(prop[q].changes) = {}
    BY <2>1, <2>4 DEF Keys
  <2> SUFFICES ASSUME NEW q \in Proposal
               PROVE  /\ prop[q].status = "NONE" =>
                           prop[q].changes = NoChanges /\ \A f \in Field : Mine(q, f) = {}
                      /\ prop[q].status = "APPROVED" => \A f \in Keys(prop[q].changes) : Mine(q, f) # {}
                      /\ \A f \in Field : \A i \in Mine(q, f) : timeline[f][i].after = prop[q].changes[f]
    BY <1>1 DEF EditsInv
  <2> QED BY <2>1, <2>3, <2>5
<1>3. ASSUME NEW p \in Proposal, NEW g \in Field, NEW old \in Value, NEW new \in Value,
             NEW u \in Url \cup {None}, NEW by \in User, LegacyApproved(p, g, old, new, u, by)
      PROVE  EditsInv
  <2> DEFINE e == [before |-> old, after |-> new, action |-> "UPDATE", proposal |-> p]
             c == [NoChanges EXCEPT ![g] = new]
  <2>1. /\ timeline = [f \in Field |-> IF f = g THEN <<e>> ELSE <<>>]
        /\ \A q \in Proposal : q # p => prop[q] = NoRow
        /\ prop[p].status = "APPROVED" /\ prop[p].changes = c
    BY <1>3 DEF LegacyApproved
  <2>2. e.after = new /\ e.action = "UPDATE" /\ e.proposal = p
    OBVIOUS
  <2>3. c[g] = new /\ Keys(c) \subseteq {g}
    BY DEF NoChanges, Keys
  <2> HIDE DEF e, c
  <2>4. ASSUME NEW q \in Proposal, NEW f \in Field
        PROVE  Mine(q, f) = IF f = g /\ q = p THEN {1} ELSE {}
    <3>1. CASE f = g
      <4>1. timeline[f] = <<e>>
        BY <2>1, <3>1
      <4>2. DOMAIN timeline[f] = {1} /\ timeline[f][1] = e
        BY <4>1
      <4> QED BY <2>2, <3>1, <4>2 DEF Mine
    <3>2. CASE f # g
      BY <2>1, <3>2 DEF Mine
    <3> QED BY <3>1, <3>2
  <2>5. timeline[g][1].after = new
    BY <2>1, <2>2
  <2>6. NoRow.status = "NONE" /\ NoRow.changes = NoChanges
    BY DEF NoRow
  <2>7. ASSUME NEW q \in Proposal
        PROVE  /\ prop[q].status = "NONE" => prop[q].changes = NoChanges /\ \A f \in Field : Mine(q, f) = {}
               /\ prop[q].status = "APPROVED" => \A f \in Keys(prop[q].changes) : Mine(q, f) # {}
               /\ \A f \in Field : \A i \in Mine(q, f) : timeline[f][i].after = prop[q].changes[f]
    <3>1. CASE q = p
      BY <2>1, <2>3, <2>4, <2>5, <3>1 DEF Keys
    <3>2. CASE q # p
      BY <2>1, <2>4, <2>6, <3>2
    <3> QED BY <3>1, <3>2
  <2> QED BY <2>7 DEF EditsInv
<1> QED BY <1>1, <1>2, <1>3 DEF Init

LEMMA InitMaps == SerialInv => Edits!Init
<1> SUFFICES ASSUME SerialInv PROVE Edits!Init
  OBVIOUS
<1>1. company.val \in [Field -> Value]
  BY DEF SerialInv, TypeOK, Entity
<1>2. Diffs \in [Proposal -> Edits!Part]
  BY DEF SerialInv, TypeOK, ProposalRow, Changes, Diffs, Edits!Part
<1>3. Kept \in [Proposal -> Edits!Part]
  BY KeptValue DEF SerialInv, Kept, Edits!Part
<1>4. \A p \in Applied : \A f \in Touches(p) : Kept[p][f] # Unset
  <2> SUFFICES ASSUME NEW p \in Proposal, prop[p].status = "APPROVED",
                      NEW f \in Field, prop[p].changes[f] # Unset
               PROVE  Was(p, f) # Unset
    BY DEF Applied, Touches, Diffs, Kept
  <2>1. Mine(p, f) # {}
    BY DEF SerialInv, EditsInv, Keys
  <2> QED BY <2>1, KeptValue, ValueAssumption DEF SerialInv
<1>5. \A p \in Proposal : Edits!Touched(p) = Touches(p)
  BY DEF Edits!Touched, Touches, Diffs
<1>6. /\ Applied \in SUBSET Proposal
      /\ \A p \in Applied : \A f \in Edits!Touched(p) : Kept[p][f] # Unset
  BY <1>4, <1>5 DEF Applied
<1> QED BY <1>1, <1>2, <1>3, <1>6 DEF Edits!Init, Kept, Was, Diffs, Applied

----------------------------------------------------------------------------
(* Steps that leave the timeline alone. *)

\* A look at a proposal, not a write.
LEMMA LooksOnly ==
    ASSUME SerialInv, UNCHANGED <<company, prop, timeline>>
    PROVE  EditsInv' /\ Quiet
<1>1. EditsInv'
  BY DEF SerialInv, EditsInv, Mine
<1>2. Kept' = Kept
  BY DEF Kept, Was, Mine, Replaced, Real
<1> QED BY <1>1, <1>2 DEF Quiet, Diffs, Applied

\* What a retraction would put back, while nothing is written.
LEMMA RestoredSame ==
    ASSUME NEW p \in Proposal, company'.val = company.val, timeline' = timeline,
           prop'[p].changes = prop[p].changes
    PROVE  Restored(p, company.val)' = Restored(p, company.val)
BY DEF Restored, Mine, Replaced, Real

\* A request goes on, and nothing else moves.
LEMMA GoesOn ==
    ASSUME SerialInv, OneAtATime', NEW a \in Admin, NEW r, req' = [req EXCEPT ![a] = r],
           r.pc # "idle", r.proposal \in Proposal, Knows(r),
           UNCHANGED <<company, prop, timeline>>
    PROVE  DecisionsInv'
<1>1. DOMAIN req = Admin /\ req'[a] = r
  BY DEF SerialInv, TypeOK
<1>2. a \in Busy' /\ \A b \in Busy' : b = a
  BY <1>1 DEF Busy, OneAtATime
<1>3. PICK p \in Proposal : p = r.proposal
  OBVIOUS
<1>4. Restored(p, company.val)' = Restored(p, company.val)
  BY RestoredSame
<1>5. Knows(r)'
  BY <1>3, <1>4 DEF Knows
<1> QED BY <1>1, <1>2, <1>5 DEF DecisionsInv, Busy

\* A decision ends.
LEMMA Decided ==
    ASSUME SerialInv, NEW a \in Admin, req[a].pc # "idle", req' = [req EXCEPT ![a] = IdleRequest]
    PROVE  DecisionsInv'
<1>1. \A b \in Admin : req'[b].pc = "idle"
  BY OnlyBusy DEF SerialInv, TypeOK, IdleRequest
<1> QED BY <1>1 DEF DecisionsInv

\* No decision is in flight while the worker writes.
LEMMA NobodyDecides ==
    ASSUME SerialInv, ingest.pc # "idle", req' = req
    PROVE  DecisionsInv'
BY DEF SerialInv, OneAtATime, Busy, DecisionsInv

LEMMA Proposes ==
    ASSUME SerialInv, NEW p \in Proposal, NEW u \in User, NEW url \in Url \cup {None},
           NEW c \in Changes, proposeChange(p, u, c, url)
    PROVE  EditsInv' /\ DecisionsInv' /\ Edits!Next
<1> DEFINE cleaned == [f \in Field |-> IF c[f] = company.val[f] THEN Unset ELSE c[f]]
           e == [status |-> "PENDING", changes |-> cleaned, url |-> url, by |-> u, cleared |-> NotRecorded]
<1>1. /\ prop[p].status = "NONE" /\ prop' = [prop EXCEPT ![p] = e]
      /\ UNCHANGED <<company, timeline, req>>
  BY DEF proposeChange
<1>2. cleaned \in Changes /\ e.status = "PENDING" /\ e.changes = cleaned
  BY DEF Changes
<1> HIDE DEF cleaned, e
<1>3. \A q \in Proposal : prop'[q] = IF q = p THEN e ELSE prop[q]
  BY <1>1 DEF SerialInv, TypeOK
<1>4. \A f \in Field : Mine(p, f) = {}
  BY <1>1 DEF SerialInv, EditsInv
<1>5. \A q \in Proposal, f \in Field : Mine(q, f)' = Mine(q, f) /\ Was(q, f)' = Was(q, f)
  BY <1>1 DEF Mine, Was, Replaced, Real
<1>6. EditsInv'
  <2> SUFFICES ASSUME NEW q \in Proposal
        PROVE  /\ prop'[q].status = "NONE" => prop'[q].changes = NoChanges /\ \A f \in Field : Mine(q, f) = {}
               /\ prop'[q].status = "APPROVED" => \A f \in Keys(prop'[q].changes) : Mine(q, f) # {}
               /\ \A f \in Field : \A i \in Mine(q, f) : timeline[f][i].after = prop'[q].changes[f]
    <3>1. \A q \in Proposal, f \in Field : Mine(q, f)' = Mine(q, f)
      BY <1>5
    <3> QED BY <1>1, <3>1 DEF EditsInv, Keys
  <2>1. CASE q = p
    BY <1>2, <1>3, <1>4, <2>1
  <2>2. CASE q # p
    BY <1>3, <2>2 DEF SerialInv, EditsInv
  <2> QED BY <2>1, <2>2
<1>7. DecisionsInv'
  <2> SUFFICES ASSUME NEW a \in Admin, req[a].pc # "idle", NEW r, r = req[a] PROVE Knows(r)'
    BY <1>1 DEF DecisionsInv
  <2>1. Knows(r) /\ r.proposal \in Proposal
    BY DEF SerialInv, DecisionsInv, TypeOK
  <2>2. PICK q \in Proposal : q = r.proposal
    BY <2>1
  <2>3. prop'[q] = prop[q]
    BY <1>1, <1>3, <2>1, <2>2 DEF Knows
  <2>4. Restored(q, company.val)' = Restored(q, company.val)
    BY <1>1, <2>3, RestoredSame
  <2> QED BY <2>1, <2>2, <2>3, <2>4 DEF Knows
<1>8. Edits!Next
  <2>1. p \notin Applied /\ \A f \in Field : Diffs[p][f] = Unset /\ Kept[p][f] = Unset
    BY <1>1, <1>4 DEF Applied, Diffs, Kept, Was, SerialInv, EditsInv, NoChanges
  <2>2. Diffs' = [Diffs EXCEPT ![p] = cleaned]
    BY <1>2, <1>3 DEF Diffs
  <2>3. Kept' = Kept /\ company'.val = company.val
    BY <1>1, <1>5 DEF Kept
  <2>4. Applied' = Applied
    BY <1>1, <1>2, <1>3 DEF Applied
  <2> QED BY <1>2, <2>1, <2>2, <2>3, <2>4, MapPropose
<1> QED BY <1>6, <1>7, <1>8

\* A ban rejects what was pending.
LEMMA Bans ==
    ASSUME SerialInv, NEW u \in User, ban(u) \/ unban(u)
    PROVE  EditsInv' /\ DecisionsInv' /\ Quiet
<1>1. UNCHANGED <<company, timeline, req>>
  BY DEF ban, unban
<1>2. \A q \in Proposal : /\ prop'[q].changes = prop[q].changes
                          /\ \/ prop'[q].status = prop[q].status
                             \/ prop[q].status = "PENDING" /\ prop'[q].status = "REJECTED"
  <2>1. CASE unban(u)
    BY <2>1 DEF unban
  <2>2. CASE ban(u)
    <3>1. prop \in [Proposal -> ProposalRow]
      BY DEF SerialInv, TypeOK
    <3>2. \A q \in Proposal : prop'[q] = IF prop[q].by = u /\ prop[q].status = "PENDING"
                                         THEN [prop[q] EXCEPT !.status = "REJECTED"] ELSE prop[q]
      BY <2>2 DEF ban, rejectPending
    <3> QED BY <3>1, <3>2 DEF ProposalRow
  <2> QED BY <2>1, <2>2
<1>3. \A q \in Proposal, f \in Field : Mine(q, f)' = Mine(q, f) /\ Was(q, f)' = Was(q, f)
  BY <1>1 DEF Mine, Was, Replaced, Real
<1>4. EditsInv'
  <2>1. \A q \in Proposal, f \in Field : Mine(q, f)' = Mine(q, f)
    BY <1>3
  <2> QED BY <1>1, <1>2, <2>1 DEF SerialInv, EditsInv, Keys
<1>5. DecisionsInv'
  <2> SUFFICES ASSUME NEW a \in Admin, req[a].pc # "idle", NEW r, r = req[a] PROVE Knows(r)'
    BY <1>1 DEF DecisionsInv
  <2>1. Knows(r) /\ r.proposal \in Proposal
    BY DEF SerialInv, DecisionsInv, TypeOK
  <2>2. PICK q \in Proposal : q = r.proposal
    BY <2>1
  <2>3. Restored(q, company.val)' = Restored(q, company.val)
    BY <1>1, <1>2, RestoredSame
  <2> QED BY <1>2, <2>1, <2>2, <2>3 DEF Knows
<1>6. Quiet
  <2>1. Kept' = Kept
    BY <1>3 DEF Kept
  <2>2. Diffs' = Diffs /\ Applied' = Applied
    BY <1>2 DEF Diffs, Applied
  <2> QED BY <1>1, <2>1, <2>2 DEF Quiet
<1> QED BY <1>4, <1>5, <1>6

LEMMA NoticeLoaded ==
    ASSUME SerialInv, OneAtATime', NEW a \in Admin, NEW p \in Proposal,
           NEW decision \in {"APPROVED", "REJECTED"}, loadSubmissionNotice(a, p, decision)
    PROVE  DecisionsInv'
<1> DEFINE retracting == (decision = "REJECTED" /\ prop[p].status = "APPROVED")
           r == [req[a] EXCEPT !.pc = "noticed", !.proposal = p, !.status = decision,
                               !.retracting = retracting]
<1>1. /\ prop[p].status # "NONE" /\ req' = [req EXCEPT ![a] = r]
      /\ UNCHANGED <<company, prop, timeline>>
  BY DEF loadSubmissionNotice, SerialInv, TypeOK
<1> HIDE DEF retracting
<1>2. r.pc = "noticed" /\ r.proposal = p /\ r.status = decision /\ r.retracting = retracting
  BY DEF SerialInv, TypeOK, Request
<1> HIDE DEF r
<1>3. Knows(r)
  BY <1>1, <1>2 DEF Knows, retracting
<1> QED BY <1>1, <1>2, <1>3, GoesOn

LEMMA ProposalRead ==
    ASSUME SerialInv, OneAtATime', NEW a \in Admin, readProposal(a)
    PROVE  DecisionsInv'
<1> DEFINE old == req[a]
           r == [old EXCEPT !.pc = "read", !.row = company, !.cleared = prop[old.proposal].cleared]
<1>1. /\ old.pc = "noticed" /\ (old.status = "APPROVED" \/ old.retracting)
      /\ req' = [req EXCEPT ![a] = r]
      /\ UNCHANGED <<company, prop, timeline>>
  BY DEF readProposal, SerialInv, TypeOK
<1>2. old \in Request /\ Knows(old) /\ old.proposal \in Proposal
  BY <1>1 DEF SerialInv, TypeOK, DecisionsInv
<1> HIDE DEF old
<1>3. r.pc = "read" /\ r.proposal = old.proposal /\ r.status = old.status /\ r.retracting = old.retracting
  BY <1>2 DEF Request
<1> HIDE DEF r
<1>4. Knows(r)
  BY <1>1, <1>2, <1>3 DEF Knows
<1> QED BY <1>1, <1>2, <1>3, <1>4, GoesOn

LEMMA RevisionsRead ==
    ASSUME SerialInv, OneAtATime', NEW a \in Admin, readRevisions(a)
    PROVE  DecisionsInv'
<1> DEFINE old == req[a]
           back == Restored(old.proposal, old.row.val)
           r == [old EXCEPT !.pc = "revisions", !.restored = back]
<1>1. /\ old.pc = "read" /\ old.status = "REJECTED" /\ req' = [req EXCEPT ![a] = r]
      /\ UNCHANGED <<company, prop, timeline>>
  BY DEF readRevisions, SerialInv, TypeOK
<1>2. old \in Request /\ Knows(old) /\ old.proposal \in Proposal /\ old.row = company
  BY <1>1 DEF SerialInv, TypeOK, DecisionsInv, ReadsInv
<1>3. back = Restored(old.proposal, company.val)
  BY <1>2
<1> HIDE DEF old, back
<1>4. /\ r.pc = "revisions" /\ r.proposal = old.proposal /\ r.status = old.status
      /\ r.retracting = old.retracting /\ r.restored = back
  BY <1>2 DEF Request
<1> HIDE DEF r
<1>5. Knows(r)
  BY <1>1, <1>2, <1>3, <1>4 DEF Knows
<1> QED BY <1>1, <1>2, <1>4, <1>5, GoesOn

----------------------------------------------------------------------------
(* Steps that write. *)

\* A row's status moves on; what it sets, and its entries, do not.
LEMMA EditsStay ==
    ASSUME SerialInv, NEW p \in Proposal, prop[p].status # "NONE", NEW s \in Status, s # "NONE",
           \A q \in Proposal : /\ prop'[q].changes = prop[q].changes
                               /\ prop'[q].status = IF q = p THEN s ELSE prop[q].status,
           s = "APPROVED" => \A f \in Keys(prop[p].changes) : Mine(p, f)' # {},
           \A q \in Proposal, f \in Field :
              \/ Mine(q, f)' = Mine(q, f) /\ \A i \in Mine(q, f) : timeline'[f][i] = timeline[f][i]
              \/ /\ q = p /\ Mine(q, f)' # {}
                 /\ \A i \in Mine(q, f)' : \/ i \in Mine(q, f) /\ timeline'[f][i] = timeline[f][i]
                                           \/ timeline'[f][i].after = prop[q].changes[f]
    PROVE  EditsInv'
<1>1. ASSUME NEW q \in Proposal
      PROVE  /\ prop'[q].status = "NONE" => prop'[q].changes = NoChanges /\ \A f \in Field : Mine(q, f)' = {}
             /\ prop'[q].status = "APPROVED" => \A f \in Keys(prop'[q].changes) : Mine(q, f)' # {}
             /\ \A f \in Field : \A i \in Mine(q, f)' : timeline'[f][i].after = prop'[q].changes[f]
  <2>1. /\ prop[q].status = "NONE" => prop[q].changes = NoChanges /\ \A f \in Field : Mine(q, f) = {}
        /\ prop[q].status = "APPROVED" => \A f \in Keys(prop[q].changes) : Mine(q, f) # {}
        /\ \A f \in Field : \A i \in Mine(q, f) : timeline[f][i].after = prop[q].changes[f]
    BY DEF SerialInv, EditsInv
  <2>2. \A f \in Field : Mine(q, f) # {} => Mine(q, f)' # {}
    OBVIOUS
  <2>3. Keys(prop'[q].changes) = Keys(prop[q].changes) /\ Keys(prop[q].changes) \subseteq Field
    BY DEF Keys
  <2>4. ASSUME NEW f \in Field, NEW i \in Mine(q, f)' PROVE timeline'[f][i].after = prop'[q].changes[f]
    BY <2>1
  <2> QED BY <2>1, <2>2, <2>3, <2>4
<1> QED BY <1>1 DEF EditsInv

\* The approval: what it replaces enters the timeline, once it changes something.
LEMMA Approves ==
    ASSUME SerialInv, NEW a \in Admin, applyProposal(a)
    PROVE  EditsInv' /\ Edits!Next
<1>1. PICK p \in Proposal, c \in Changes : p = req[a].proposal /\ c = prop[p].changes
  BY RequestType DEF SerialInv, applyProposal
<1>2. req[a].row = company /\ prop[p].status # "NONE"
  BY <1>1 DEF applyProposal, SerialInv, ReadsInv, DecisionsInv, Knows
<1>3. /\ company'.val = Overlay(c, company.val)
      /\ timeline' = Record(timeline, Keys(c), company.val, c, "UPDATE", p)
      /\ prop' = [prop EXCEPT ![p].status = "APPROVED", ![p].cleared = ClearedMarks(company.marks, Keys(c))]
  BY <1>1, <1>2 DEF applyProposal, SerialInv, TypeOK, Entity
<1>4. \A q \in Proposal : /\ prop'[q].changes = prop[q].changes
                          /\ prop'[q].status = IF q = p THEN "APPROVED" ELSE prop[q].status
  BY <1>3 DEF SerialInv, TypeOK, ProposalRow
<1>5. /\ Keys(c) \in SUBSET Field
      /\ \A f \in Keys(c) : company.val[f] \in Value /\ c[f] \in Value
  BY KeysValues DEF SerialInv, TypeOK, Entity
<1>6. ASSUME NEW q \in Proposal, NEW f \in Field
      PROVE  /\ f \notin Keys(c) \/ q # p
                => /\ Mine(q, f)' = Mine(q, f) /\ Was(q, f)' = Was(q, f)
                   /\ \A i \in Mine(q, f) : timeline'[f][i] = timeline[f][i]
             /\ f \in Keys(c) /\ q = p
                => /\ Mine(q, f)' # {}
                   /\ \A i \in Mine(q, f)' : \/ i \in Mine(q, f) /\ timeline'[f][i] = timeline[f][i]
                                             \/ timeline'[f][i].after = c[f]
                   /\ Was(q, f)' = IF company.val[f] = c[f] /\ Mine(q, f) \cap Real(f) # {}
                                   THEN Was(q, f) ELSE company.val[f]
  <2>1. TypeOK /\ p \in Proposal \cup {None} /\ "UPDATE" \in {"UPDATE", "RETRACT"}
    BY DEF SerialInv
  <2>0. PICK v : v = company.val
    OBVIOUS
  <2>2. PICK fs \in SUBSET Field : fs = Keys(c)
    BY <1>5
  <2>3. timeline' = Record(timeline, fs, v, c, "UPDATE", p) /\ \A g \in fs : v[g] \in Value /\ c[g] \in Value
    BY <1>3, <1>5, <2>2, <2>0
  <2>4. ASSUME f \notin fs \/ q # p
        PROVE  /\ Mine(q, f)' = Mine(q, f) /\ Was(q, f)' = Was(q, f)
               /\ \A i \in Mine(q, f) : timeline'[f][i] = timeline[f][i]
    BY <2>1, <2>3, <2>4, OthersStay
  <2>5. ASSUME f \in fs
        PROVE  /\ Mine(p, f)' # {}
               /\ \A i \in Mine(p, f)' : \/ i \in Mine(p, f) /\ timeline'[f][i] = timeline[f][i]
                                         \/ timeline'[f][i].after = c[f]
               /\ Was(p, f)' = IF v[f] = c[f] /\ Mine(p, f) \cap Real(f) # {}
                               THEN Was(p, f) ELSE v[f]
    BY <2>1, <2>3, <2>5, MineGrows
  <2> QED BY <2>0, <2>2, <2>4, <2>5
<1>7. EditsInv'
  <2>1. \A f \in Keys(prop[p].changes) : Mine(p, f)' # {}
    BY <1>1, <1>5, <1>6
  <2>2. \A q \in Proposal, f \in Field :
              \/ Mine(q, f)' = Mine(q, f) /\ \A i \in Mine(q, f) : timeline'[f][i] = timeline[f][i]
              \/ /\ q = p /\ Mine(q, f)' # {}
                 /\ \A i \in Mine(q, f)' : \/ i \in Mine(q, f) /\ timeline'[f][i] = timeline[f][i]
                                           \/ timeline'[f][i].after = prop[q].changes[f]
    BY <1>1, <1>6
  <2> QED BY <1>2, <1>4, <2>1, <2>2, EditsStay
<1>8. Edits!Next
  <2>1. Applied' = Applied \cup {p} /\ Diffs' = Diffs
    BY <1>4 DEF Applied, Diffs
  <2>2. Touches(p) = Keys(c) /\ Diffs[p] = c
    BY <1>1 DEF Touches, Diffs, Keys
  <2>3. company'.val = [f \in Field |-> IF f \in Touches(p) THEN Diffs[p][f] ELSE company.val[f]]
    BY <1>3, <2>2 DEF Overlay, Keys
  <2>4. ASSUME NEW f \in Field
        PROVE  Was(p, f)' = IF f \in Touches(p) THEN Keeps(p, f) ELSE Was(p, f)
    <3>1. CASE f \notin Keys(c)
      BY <1>6, <2>2, <3>1
    <3>2. CASE f \in Keys(c)
      <4>1. /\ Was(p, f) \in Value \cup {Unset}
            /\ Mine(p, f) # {} => Was(p, f) \in Value
            /\ Mine(p, f) # {} /\ Mine(p, f) \cap Real(f) = {} => Was(p, f) = c[f]
        BY <1>1, KeptValue DEF SerialInv
      <4>2. Mine(p, f) = {} => Was(p, f) = Unset
        BY DEF Was
      <4>3. Keeps(p, f) = IF company.val[f] = c[f] /\ Was(p, f) # Unset THEN Was(p, f) ELSE company.val[f]
        BY <2>2 DEF Keeps, Kept
      <4>4. Was(p, f)' = IF company.val[f] = c[f] /\ Mine(p, f) \cap Real(f) # {}
                         THEN Was(p, f) ELSE company.val[f]
        BY <1>6, <3>2
      <4>5. Was(p, f)' = Keeps(p, f)
        BY <4>1, <4>2, <4>3, <4>4, ValueAssumption
      <4> QED BY <2>2, <3>2, <4>5
    <3> QED BY <3>1, <3>2
  <2>5. \A q \in Proposal \ {p}, f \in Field : Was(q, f)' = Was(q, f)
    BY <1>6
  <2>6. Kept' = [Kept EXCEPT ![p] = [f \in Field |-> IF f \in Touches(p) THEN Keeps(p, f) ELSE Kept[p][f]]]
    <3>1. Kept' = [q \in Proposal |-> [f \in Field |-> Was(q, f)']]
      BY DEF Kept
    <3>2. [f \in Field |-> Was(p, f)'] = [f \in Field |-> IF f \in Touches(p) THEN Keeps(p, f) ELSE Kept[p][f]]
      BY <2>4 DEF Kept
    <3>3. \A q \in Proposal \ {p} : [f \in Field |-> Was(q, f)'] = Kept[q]
      BY <2>5 DEF Kept
    <3> QED BY <3>1, <3>2, <3>3 DEF Kept
  <2> QED BY <2>1, <2>3, <2>6, MapApprove
<1> QED BY <1>7, <1>8

\* The retraction: what the timeline keeps comes back, where the edit is shown.
LEMMA Reverts ==
    ASSUME SerialInv, NEW a \in Admin, revertProposal(a)
    PROVE  EditsInv' /\ Edits!Next
<1>1. PICK p \in Proposal, c \in Changes : p = req[a].proposal /\ c = req[a].restored
  BY RequestType DEF SerialInv, revertProposal
<1>2. req[a].row = company /\ prop[p].status = "APPROVED" /\ c = Restored(p, company.val)
  BY <1>1 DEF revertProposal, SerialInv, ReadsInv, DecisionsInv, Knows
<1>3. /\ company'.val = Overlay(c, company.val)
      /\ timeline' = Record(timeline, Keys(c), company.val, c, "RETRACT", p)
      /\ prop' = [prop EXCEPT ![p].status = "REJECTED"]
  BY <1>1, <1>2 DEF revertProposal, SerialInv, TypeOK, Entity
<1>4. \A q \in Proposal : /\ prop'[q].changes = prop[q].changes
                          /\ prop'[q].status = IF q = p THEN "REJECTED" ELSE prop[q].status
  BY <1>3 DEF SerialInv, TypeOK, ProposalRow
<1>5. /\ Keys(c) \in SUBSET Field
      /\ \A f \in Keys(c) : company.val[f] \in Value /\ c[f] \in Value
  BY KeysValues DEF SerialInv, TypeOK, Entity
<1>6. ASSUME NEW q \in Proposal, NEW f \in Field
      PROVE  /\ Mine(q, f)' = Mine(q, f) /\ Was(q, f)' = Was(q, f)
             /\ \A i \in Mine(q, f) : timeline'[f][i] = timeline[f][i]
  <2>1. TypeOK /\ p \in Proposal \cup {None} /\ "RETRACT" \in {"UPDATE", "RETRACT"} /\ "RETRACT" # "UPDATE"
    BY DEF SerialInv
  <2>0. PICK v : v = company.val
    OBVIOUS
  <2>2. PICK fs \in SUBSET Field : fs = Keys(c)
    BY <1>5
  <2>3. timeline' = Record(timeline, fs, v, c, "RETRACT", p) /\ \A g \in fs : v[g] \in Value /\ c[g] \in Value
    BY <1>3, <1>5, <2>2, <2>0
  <2>4. PICK act : act = "RETRACT" /\ act # "UPDATE"
    OBVIOUS
  <2>5. timeline' = Record(timeline, fs, v, c, act, p)
    BY <2>3, <2>4
  <2>6. /\ f \notin fs \/ act # "UPDATE" \/ p # q
        /\ act \in {"UPDATE", "RETRACT"} /\ p \in Proposal \cup {None}
    BY <2>4
  <2>7. \A g \in fs : v[g] \in Value /\ c[g] \in Value
    BY <2>3
  <2> QED BY <2>1, <2>5, <2>6, <2>7, OthersStay
<1>7. EditsInv'
  <2>1. \A q \in Proposal, f \in Field :
           Mine(q, f)' = Mine(q, f) /\ \A i \in Mine(q, f) : timeline'[f][i] = timeline[f][i]
    BY <1>6
  <2> QED BY <1>2, <1>4, <2>1, EditsStay
<1>8. Edits!Next
  <2>1. p \in Applied /\ Applied' = Applied \ {p} /\ Diffs' = Diffs
    BY <1>2, <1>4 DEF Applied, Diffs
  <2>2. Kept' = Kept
    BY <1>6 DEF Kept
  <2>3. ASSUME NEW f \in Field
        PROVE  Overlay(c, company.val)[f] = IF f \in Touches(p) /\ company.val[f] = Diffs[p][f]
                                            THEN Kept[p][f] ELSE company.val[f]
    <3>1. Kept[p][f] = Was(p, f) /\ Diffs[p][f] = prop[p].changes[f]
      BY DEF Kept, Diffs
    <3>2. f \in Touches(p) => Mine(p, f) # {} /\ Was(p, f) = Replaced(p, f).before /\ Was(p, f) # Unset
      <4>1. f \in Touches(p) => Mine(p, f) # {}
        BY <1>2 DEF Touches, Diffs, SerialInv, EditsInv, Keys
      <4>2. Mine(p, f) # {} => Was(p, f) # Unset
        BY KeptValue, ValueAssumption DEF SerialInv
      <4> QED BY <4>1, <4>2 DEF Was
    <3>3. f \in Touches(p) <=> prop[p].changes[f] # Unset
      BY DEF Touches, Diffs
    <3>4. c[f] = IF /\ prop[p].changes[f] # Unset
                    /\ Mine(p, f) # {}
                    /\ company.val[f] = prop[p].changes[f]
                    /\ Replaced(p, f).before # prop[p].changes[f]
                 THEN Replaced(p, f).before ELSE Unset
      BY <1>2 DEF Restored
    <3>5. Overlay(c, company.val)[f] = IF c[f] = Unset THEN company.val[f] ELSE c[f]
      BY DEF Overlay
    <3> QED BY <3>1, <3>2, <3>3, <3>4, <3>5
  <2>4. company'.val = [f \in Field |-> IF f \in Touches(p) /\ company.val[f] = Diffs[p][f]
                                        THEN Kept[p][f] ELSE company.val[f]]
    BY <1>3, <2>3 DEF Overlay
  <2> QED BY <2>1, <2>2, <2>4, MapRetract
<1> QED BY <1>7, <1>8

\* A rejection of what was not approved when it was looked at.
LEMMA Rejects ==
    ASSUME SerialInv, NEW a \in Admin, reject(a)
    PROVE  EditsInv' /\ Quiet
<1>1. PICK p \in Proposal : p = req[a].proposal
  BY RequestType DEF SerialInv, reject
<1>2. /\ prop[p].status \notin {"NONE", "APPROVED"}
      /\ prop' = [prop EXCEPT ![p].status = "REJECTED"] /\ UNCHANGED <<company, timeline>>
  BY <1>1 DEF reject, SerialInv, DecisionsInv, Knows
<1>3. \A q \in Proposal : /\ prop'[q].changes = prop[q].changes
                          /\ prop'[q].status = IF q = p THEN "REJECTED" ELSE prop[q].status
  BY <1>2 DEF SerialInv, TypeOK, ProposalRow
<1>4. \A q \in Proposal, f \in Field : Mine(q, f)' = Mine(q, f) /\ Was(q, f)' = Was(q, f)
  BY <1>2 DEF Mine, Was, Replaced, Real
<1>5. EditsInv'
  <2>1. \A q \in Proposal, f \in Field :
           Mine(q, f)' = Mine(q, f) /\ \A i \in Mine(q, f) : timeline'[f][i] = timeline[f][i]
    BY <1>2, <1>4
  <2> QED BY <1>2, <1>3, <2>1, EditsStay
<1>6. Quiet
  <2>1. Kept' = Kept
    BY <1>4 DEF Kept
  <2>2. Diffs' = Diffs /\ Applied' = Applied
    BY <1>2, <1>3 DEF Diffs, Applied
  <2> QED BY <1>2, <2>1, <2>2 DEF Quiet
<1> QED BY <1>5, <1>6

\* The worker's write: its entries are nobody's proposal.
LEMMA Overwrites ==
    ASSUME SerialInv, writeCompany
    PROVE  EditsInv' /\ Edits!Next
<1>1. PICK c \in Changes : c = ingest.data
  BY DEF SerialInv, TypeOK, IngestWrite
<1>2. ingest.row = company
  BY DEF writeCompany, SerialInv, ReadsInv
<1> DEFINE moved == {f \in Keys(c) : company.val[f] # c[f]}
<1>3. /\ company'.val = Overlay(c, company.val) /\ prop' = prop
      /\ timeline' = Record(timeline, moved, company.val, c, "UPDATE", None)
  BY <1>1, <1>2 DEF writeCompany
<1>4. /\ moved \in SUBSET Field
      /\ \A f \in moved : company.val[f] \in Value /\ c[f] \in Value
  BY KeysValues DEF SerialInv, TypeOK, Entity
<1> HIDE DEF moved
<1>5. ASSUME NEW q \in Proposal, NEW f \in Field
      PROVE  /\ Mine(q, f)' = Mine(q, f) /\ Was(q, f)' = Was(q, f)
             /\ \A i \in Mine(q, f) : timeline'[f][i] = timeline[f][i]
  <2>1. TypeOK /\ None # q /\ None \in Proposal \cup {None} /\ "UPDATE" \in {"UPDATE", "RETRACT"}
    BY ProposalAssumption DEF SerialInv
  <2>0. PICK v : v = company.val
    OBVIOUS
  <2>2. PICK fs \in SUBSET Field : fs = moved
    BY <1>4
  <2>3. timeline' = Record(timeline, fs, v, c, "UPDATE", None) /\ \A g \in fs : v[g] \in Value /\ c[g] \in Value
    BY <1>3, <1>4, <2>2, <2>0
  <2> QED BY <2>1, <2>3, OthersStay
<1>6. EditsInv'
  <2>1. \A q \in Proposal, f \in Field :
           Mine(q, f)' = Mine(q, f) /\ \A i \in Mine(q, f) : timeline'[f][i] = timeline[f][i]
    BY <1>5
  <2>2. ASSUME NEW q \in Proposal
        PROVE  /\ prop'[q].status = "NONE" => prop'[q].changes = NoChanges /\ \A f \in Field : Mine(q, f)' = {}
               /\ prop'[q].status = "APPROVED" => \A f \in Keys(prop'[q].changes) : Mine(q, f)' # {}
               /\ \A f \in Field : \A i \in Mine(q, f)' : timeline'[f][i].after = prop'[q].changes[f]
    <3>1. /\ prop[q].status = "NONE" => prop[q].changes = NoChanges /\ \A f \in Field : Mine(q, f) = {}
          /\ prop[q].status = "APPROVED" => \A f \in Keys(prop[q].changes) : Mine(q, f) # {}
          /\ \A f \in Field : \A i \in Mine(q, f) : timeline[f][i].after = prop[q].changes[f]
      BY DEF SerialInv, EditsInv
    <3>2. Keys(prop[q].changes) \subseteq Field
      BY DEF Keys
    <3> QED BY <1>3, <2>1, <3>1, <3>2
  <2> QED BY <2>2 DEF EditsInv
<1>7. Edits!Next
  <2>1. company'.val \in [Field -> Value]
    BY <1>3, OverlayType DEF SerialInv, TypeOK, Entity
  <2>2. Kept' = Kept
    BY <1>5 DEF Kept
  <2>3. Diffs' = Diffs /\ Applied' = Applied
    BY <1>3 DEF Diffs, Applied
  <2> QED BY <2>1, <2>2, <2>3, MapOverwrite
<1> QED BY <1>6, <1>7

----------------------------------------------------------------------------
LEMMA NextSerial ==
    SerialInv /\ [Next /\ OneAtATime']_vars => SerialInv' /\ [Edits!Next]_(Edits!vars)
<1> SUFFICES ASSUME SerialInv, [Next /\ OneAtATime']_vars
             PROVE  EditsInv' /\ DecisionsInv' /\ (Quiet \/ Edits!Next)
  BY NextType, NextReads, MapQuiet DEF SerialInv
<1>1. ASSUME UNCHANGED <<company, prop, timeline>> PROVE EditsInv' /\ Quiet
  BY <1>1, LooksOnly
<1>2. CASE UNCHANGED vars
  <2>1. UNCHANGED <<company, prop, timeline, req>>
    BY <1>2 DEF vars
  <2>2. ASSUME NEW a \in Admin, req[a].pc # "idle", NEW r, r = req[a] PROVE Knows(r)'
    <3>1. Knows(r) /\ r.proposal \in Proposal
      BY <2>2 DEF SerialInv, DecisionsInv, TypeOK
    <3>2. PICK q \in Proposal : q = r.proposal
      BY <3>1
    <3>3. Restored(q, company.val)' = Restored(q, company.val)
      BY <2>1, RestoredSame
    <3> QED BY <2>1, <3>1, <3>2, <3>3 DEF Knows
  <2>3. DecisionsInv'
    BY <2>1, <2>2 DEF DecisionsInv
  <2> QED BY <1>1, <2>1, <2>3
<1>3. CASE Contribute
  BY <1>3, Proposes DEF Contribute
<1>4. CASE Ban
  BY <1>4, Bans DEF Ban
<1>5. ASSUME NEW a \in Admin, Moderate(a), OneAtATime'
      PROVE  EditsInv' /\ DecisionsInv' /\ (Quiet \/ Edits!Next)
  <2>1. CASE \E p \in Proposal, s \in {"APPROVED", "REJECTED"} : loadSubmissionNotice(a, p, s)
    BY <1>1, <1>5, <2>1, NoticeLoaded DEF loadSubmissionNotice
  <2>2. CASE readProposal(a)
    BY <1>1, <1>5, <2>2, ProposalRead DEF readProposal
  <2>3. CASE applyProposal(a)
    BY <2>3, Approves, Decided DEF applyProposal
  <2>4. CASE readRevisions(a)
    BY <1>1, <1>5, <2>4, RevisionsRead DEF readRevisions
  <2>5. CASE revertProposal(a)
    BY <2>5, Reverts, Decided DEF revertProposal
  <2>6. CASE reject(a)
    BY <2>6, Rejects, Decided DEF reject
  <2> QED BY <1>5, <2>1, <2>2, <2>3, <2>4, <2>5, <2>6 DEF Moderate
<1>6. CASE Ingest /\ OneAtATime'
  <2>1. ASSUME NEW s, NEW d, readCompany(s, d) PROVE EditsInv' /\ DecisionsInv' /\ Quiet
    <3>1. UNCHANGED <<company, prop, timeline, req>> /\ ingest'.pc # "idle"
      BY <2>1 DEF readCompany
    <3>2. Busy = {}
      BY <1>6, <3>1 DEF OneAtATime, Busy
    <3>3. DecisionsInv'
      BY <3>1, <3>2 DEF DecisionsInv, Busy
    <3> QED BY <1>1, <3>1, <3>3
  <2>2. CASE writeCompany
    BY <2>2, Overwrites, NobodyDecides DEF writeCompany
  <2> QED BY <1>6, <2>1, <2>2 DEF Ingest, ownKeyUpdate, enrich
<1> QED BY <1>2, <1>3, <1>4, <1>5, <1>6 DEF Next

\* When no two handlers overlap, company edits implement reversible edits: the
\* timeline keeps what an approval replaced, a second approval keeps it too,
\* and a retraction puts it back on every field that still shows the edit
\* (applyProposal, revertProposal).
THEOREM CompanyEditsImplementReversibleEdits == SerialSpec => CompanyEditsAreReversible
<1>1. Init => SerialInv
  BY InitSerial
<1>2. SerialInv => Edits!Init
  BY InitMaps
<1>3. SerialInv /\ [Next /\ OneAtATime']_vars => SerialInv' /\ [Edits!Next]_(Edits!vars)
  BY NextSerial
<1> QED BY <1>1, <1>2, <1>3, PTL DEF SerialSpec, CompanyEditsAreReversible, Edits!Spec

----------------------------------------------------------------------------
(* Firm edits implement ReversibleEdit: types, what a decision that does   *)
(* not overlap others knows of the rows it read, and the step by step      *)
(* mapping.  For any proposals, admins, fields and values.                 *)

(* Types, as far as the mapping needs them. *)

\* The facts of the firm are values; the row has its three columns.
FirmRow(r) == DOMAIN r = {"val", "marks", "partnerOnly"} /\ r.val \in [Field -> Value]

\* What of a proposal row the mapping reads.
FirmEditRow(e) ==
    /\ DOMAIN e = {"status", "changes", "previous", "cleared"}
    /\ e.changes \in Firm!Changes /\ e.previous \in Firm!Changes
    /\ \A f \in Field : e.changes[f] = Unset => e.previous[f] = Unset

FirmRequestRow(r) ==
    /\ DOMAIN r = {"pc", "proposal", "status", "retracting", "row", "prop"}
    /\ r.pc \in {"idle", "noticed", "read"}
    /\ r.pc # "idle" => r.proposal \in Proposal

FirmIngestRow ==
    /\ firmIngest.pc \in {"idle", "written", "read"}
    /\ firmIngest.data \in Firm!Changes

FirmRowsInv ==
    /\ FirmRow(firm) /\ owner \in Firm!Source /\ FirmIngestRow
    /\ DOMAIN firmProp = Proposal /\ \A p \in Proposal : FirmEditRow(firmProp[p])
    /\ DOMAIN firmReq = Admin /\ \A a \in Admin : FirmRequestRow(firmReq[a])

\* A row that is not an edit yet is empty, and an approval keeps what it replaced.
FirmEditsInv ==
    \A p \in Proposal :
        /\ firmProp[p].status = "NONE" => firmProp[p].changes = Firm!NoChanges /\ firmProp[p].previous = Firm!NoChanges
        /\ firmProp[p].status = "APPROVED" =>
             \A f \in Firm!Keys(firmProp[p].changes) : firmProp[p].previous[f] # Unset

\* A decision in flight: what it read of the two rows still is there.
FirmKnows(r) ==
    /\ firmProp[r.proposal].status # "NONE"
    /\ r.retracting => firmProp[r.proposal].status = "APPROVED"
    /\ r.status = "REJECTED" /\ ~ r.retracting => firmProp[r.proposal].status # "APPROVED"
    /\ r.pc = "read" => /\ r.row.val = firm.val
                        /\ r.prop.changes = firmProp[r.proposal].changes
                        /\ r.prop.previous = firmProp[r.proposal].previous
                        /\ r.status = "REJECTED" => r.retracting

FirmDecisionsInv == \A a \in Firm!Busy : FirmKnows(firmReq[a])

FirmSerialInv == FirmRowsInv /\ FirmEditsInv /\ FirmDecisionsInv /\ Firm!OneAtATime

LEMMA FirmSuppliedValues == \A s \in Firm!Source : Firm!Supplied(s) \subseteq Value
BY ValueAssumption DEF Firm!Supplied, Firm!Source

LEMMA FirmOverlaid ==
    ASSUME NEW c \in Firm!Changes, NEW old \in [Field -> Value]
    PROVE  Firm!Overlay(c, old) \in [Field -> Value]
BY DEF Firm!Overlay, Firm!Changes

LEMMA FirmEmpty == Firm!NoChanges \in Firm!Changes /\ Firm!Keys(Firm!NoChanges) = {} /\ FirmEditRow(Firm!NoEdit) /\ Firm!NoEdit.status = "NONE"
BY DEF Firm!NoChanges, Firm!Changes, Firm!Keys, FirmEditRow, Firm!NoEdit

LEMMA FirmColumns ==
    /\ FirmRequestRow(Firm!IdleRequest) /\ Firm!IdleRequest.pc = "idle"
    /\ Firm!IdleIngest.pc = "idle" /\ Firm!IdleIngest.data \in Firm!Changes
    /\ FirmRow(Firm!NoRow)
BY FirmEmpty, ValueAssumption DEF FirmRequestRow, Firm!IdleRequest, Firm!IdleIngest, FirmRow, Firm!NoRow

LEMMA FirmInitSerial == Firm!Init => FirmSerialInv
<1> SUFFICES ASSUME Firm!Init PROVE FirmSerialInv
  OBVIOUS
<1>1. DOMAIN firmReq = Admin /\ \A a \in Admin : firmReq[a] = Firm!IdleRequest
  BY DEF Firm!Init
<1>2. firmIngest = Firm!IdleIngest /\ owner \in Firm!Source
  BY DEF Firm!Init
<1>3. FirmRow(firm) /\ DOMAIN firmProp = Proposal /\ (\A p \in Proposal : FirmEditRow(firmProp[p])) /\ FirmEditsInv
  <2>1. CASE Firm!CreatedFirm
    <3>1. PICK v \in [Field -> Firm!Supplied(owner)] :
            firm = [val |-> v, partnerOnly |-> firmKey,
                    marks |-> IF firmKey THEN {f \in Field : v[f] # Blank} ELSE {}]
      BY <2>1 DEF Firm!CreatedFirm
    <3>2. v \in [Field -> Value]
      BY <1>2, FirmSuppliedValues
    <3>3. FirmRow(firm)
      BY <3>1, <3>2 DEF FirmRow
    <3>4. DOMAIN firmProp = Proposal /\ \A p \in Proposal : firmProp[p] = Firm!NoEdit
      BY <2>1 DEF Firm!CreatedFirm
    <3>5. FirmEditsInv
      BY <3>4 DEF FirmEditsInv, Firm!NoEdit
    <3> QED BY <3>3, <3>4, <3>5, FirmEmpty
  <2>2. ASSUME NEW p \in Proposal, NEW f \in Field, NEW old \in Value, NEW new \in Value,
               Firm!LegacyApproved(p, f, old, new)
        PROVE  FirmRow(firm) /\ DOMAIN firmProp = Proposal /\ (\A q \in Proposal : FirmEditRow(firmProp[q])) /\ FirmEditsInv
    <3> DEFINE c == [Firm!NoChanges EXCEPT ![f] = new]
               o == [Firm!NoChanges EXCEPT ![f] = old]
               e == [status |-> "APPROVED", changes |-> c, previous |-> o, cleared |-> Firm!NotRecorded]
    <3>1. firm = [val |-> [Firm!NoRow.val EXCEPT ![f] = new], marks |-> {}, partnerOnly |-> FALSE]
      BY <2>2 DEF Firm!LegacyApproved
    <3>2. [Firm!NoRow.val EXCEPT ![f] = new] \in [Field -> Value]
      BY FirmColumns DEF FirmRow
    <3>3. FirmRow(firm)
      BY <3>1, <3>2 DEF FirmRow
    <3>4. DOMAIN firmProp = Proposal /\ firmProp[p] = e /\ \A q \in Proposal \ {p} : firmProp[q] = Firm!NoEdit
      BY <2>2 DEF Firm!LegacyApproved
    <3>5. /\ c \in Firm!Changes /\ o \in Firm!Changes
          /\ \A g \in Field : /\ c[g] = IF g = f THEN new ELSE Unset
                              /\ o[g] = IF g = f THEN old ELSE Unset
      BY FirmEmpty DEF Firm!Changes, Firm!NoChanges
    <3> HIDE DEF c, o
    <3>6. FirmEditRow(e)
      BY <3>5, ValueAssumption DEF FirmEditRow
    <3>7. \A g \in Firm!Keys(e.changes) : e.previous[g] # Unset
      BY <3>5, ValueAssumption DEF Firm!Keys
    <3>8. e.status = "APPROVED"
      OBVIOUS
    <3> HIDE DEF e
    <3>9. FirmEditsInv
      BY <3>4, <3>7, <3>8, FirmEmpty DEF FirmEditsInv, Firm!NoEdit
    <3> QED BY <3>3, <3>4, <3>6, <3>9, FirmEmpty
  <2> QED BY <2>1, <2>2 DEF Firm!Init
<1>4. FirmRowsInv
  BY <1>1, <1>2, <1>3, FirmColumns DEF FirmRowsInv, FirmIngestRow
<1>5. Firm!Busy = {}
  BY <1>1, FirmColumns DEF Firm!Busy
<1>6. Firm!OneAtATime /\ FirmDecisionsInv
  BY <1>2, <1>5, FirmColumns DEF Firm!OneAtATime, FirmDecisionsInv
<1> QED BY <1>3, <1>4, <1>6 DEF FirmSerialInv

LEMMA FirmInitMaps == FirmSerialInv => Firm!Edits!Init
<1> SUFFICES ASSUME FirmSerialInv PROVE Firm!Edits!Init
  OBVIOUS
<1>1. firm.val \in [Field -> Value]
  BY DEF FirmSerialInv, FirmRowsInv, FirmRow
<1>2. \A p \in Proposal : firmProp[p].changes \in Firm!Edits!Part /\ firmProp[p].previous \in Firm!Edits!Part
  BY DEF FirmSerialInv, FirmRowsInv, FirmEditRow, Firm!Changes, Firm!Edits!Part
<1>3. \A p \in Proposal : firmProp[p].status = "APPROVED" =>
         \A f \in Firm!Edits!Touched(p) : firmProp[p].previous[f] # Unset
  BY DEF FirmSerialInv, FirmEditsInv, Firm!Edits!Touched, Firm!Keys
<1> QED BY <1>1, <1>2, <1>3 DEF Firm!Edits!Init

----------------------------------------------------------------------------
(* Steps. *)

\* Nothing an edit promises about changes.
FirmQuiet ==
    /\ firm'.val = firm.val
    /\ \A p \in Proposal : /\ firmProp'[p].changes = firmProp[p].changes
                           /\ firmProp'[p].previous = firmProp[p].previous
                           /\ firmProp'[p].status = "APPROVED" <=> firmProp[p].status = "APPROVED"

LEMMA FirmQuietStutters == FirmQuiet => UNCHANGED Firm!Edits!vars
<1> SUFFICES ASSUME FirmQuiet PROVE UNCHANGED Firm!Edits!vars
  OBVIOUS
<1>1. {p \in Proposal : firmProp'[p].status = "APPROVED"} = {p \in Proposal : firmProp[p].status = "APPROVED"}
  BY DEF FirmQuiet
<1>2. [p \in Proposal |-> firmProp'[p].changes] = [p \in Proposal |-> firmProp[p].changes]
  BY DEF FirmQuiet
<1>3. [p \in Proposal |-> firmProp'[p].previous] = [p \in Proposal |-> firmProp[p].previous]
  BY DEF FirmQuiet
<1> QED BY <1>1, <1>2, <1>3 DEF Firm!Edits!vars, FirmQuiet

\* While a decision is made, no ingest write is; and there is only one.
LEMMA FirmOnlyBusy ==
    ASSUME FirmSerialInv, NEW a \in Admin, firmReq[a].pc # "idle"
    PROVE  Firm!Busy = {a} /\ firmIngest.pc = "idle" /\ FirmKnows(firmReq[a])
BY DEF FirmSerialInv, Firm!OneAtATime, Firm!Busy, FirmDecisionsInv

\* A decision that ends leaves nobody at work.
LEMMA FirmDecided ==
    ASSUME FirmSerialInv, NEW a \in Admin, firmReq[a].pc # "idle", firmReq' = [firmReq EXCEPT ![a] = Firm!IdleRequest],
           firmIngest' = firmIngest
    PROVE  /\ DOMAIN firmReq' = Admin /\ \A b \in Admin : FirmRequestRow(firmReq'[b])
           /\ Firm!Busy' = {} /\ Firm!OneAtATime' /\ FirmDecisionsInv'
<1>1. \A b \in Admin : firmReq'[b] = IF b = a THEN Firm!IdleRequest ELSE firmReq[b]
  BY DEF FirmSerialInv, FirmRowsInv
<1>2. DOMAIN firmReq' = Admin /\ \A b \in Admin : FirmRequestRow(firmReq'[b])
  BY <1>1, FirmColumns DEF FirmSerialInv, FirmRowsInv
<1>3. Firm!Busy' = {}
  BY <1>1, FirmOnlyBusy, FirmColumns DEF Firm!Busy
<1> QED BY <1>2, <1>3 DEF Firm!OneAtATime, FirmDecisionsInv

LEMMA FirmProposes ==
    ASSUME FirmSerialInv, Firm!OneAtATime', NEW p \in Proposal, NEW changes \in Firm!Changes, Firm!proposeChange(p, changes)
    PROVE  FirmSerialInv' /\ [Firm!Edits!Next]_(Firm!Edits!vars)
<1> DEFINE cleaned == [f \in Field |-> IF changes[f] = firm.val[f] THEN Unset ELSE changes[f]]
           e == [Firm!NoEdit EXCEPT !.status = "PENDING", !.changes = cleaned]
<1>1. /\ firmProp[p].status = "NONE" /\ firmProp' = [firmProp EXCEPT ![p] = e]
      /\ firm' = firm /\ owner' = owner /\ firmReq' = firmReq /\ firmIngest' = firmIngest
  BY DEF Firm!proposeChange
<1>2. cleaned \in Firm!Changes
  BY DEF Firm!Changes
<1>3. e.status = "PENDING" /\ e.changes = cleaned /\ e.previous = Firm!NoChanges /\ FirmEditRow(e)
  BY <1>2, FirmEmpty DEF FirmEditRow, Firm!NoEdit, Firm!NoChanges
<1> HIDE DEF cleaned, e
<1>4. \A q \in Proposal : firmProp'[q] = IF q = p THEN e ELSE firmProp[q]
  BY <1>1 DEF FirmSerialInv, FirmRowsInv
<1>5. FirmRowsInv'
  BY <1>1, <1>3, <1>4 DEF FirmSerialInv, FirmRowsInv, FirmIngestRow, FirmRow
<1>6. FirmEditsInv'
  BY <1>3, <1>4 DEF FirmSerialInv, FirmEditsInv
<1>7. FirmDecisionsInv'
  <2> SUFFICES ASSUME NEW a \in Firm!Busy PROVE FirmKnows(firmReq[a])'
    BY <1>1 DEF FirmDecisionsInv, Firm!Busy
  <2>1. FirmKnows(firmReq[a]) /\ firmReq[a].proposal \in Proposal
    BY DEF FirmSerialInv, FirmDecisionsInv, FirmRowsInv, FirmRequestRow, Firm!Busy
  <2>2. firmReq[a].proposal # p
    BY <1>1, <2>1 DEF FirmKnows
  <2> QED BY <1>1, <1>4, <2>1, <2>2 DEF FirmKnows
<1>8. Firm!Edits!Propose(p)
  <2>1. p \notin {q \in Proposal : firmProp[q].status = "APPROVED"}
    BY <1>1
  <2>2. firmProp[p].changes = Firm!NoChanges /\ firmProp[p].previous = Firm!NoChanges
    BY <1>1 DEF FirmSerialInv, FirmEditsInv
  <2>3. \A f \in Field : Firm!NoChanges[f] = Unset
    BY DEF Firm!NoChanges
  <2>4. cleaned \in Firm!Edits!Part
    BY <1>2 DEF Firm!Changes, Firm!Edits!Part
  <2>5. [q \in Proposal |-> firmProp'[q].changes] = [[q \in Proposal |-> firmProp[q].changes] EXCEPT ![p] = cleaned]
    BY <1>3, <1>4
  <2>6. [q \in Proposal |-> firmProp'[q].previous] = [q \in Proposal |-> firmProp[q].previous]
    BY <1>3, <1>4, <2>2
  <2>7. {q \in Proposal : firmProp'[q].status = "APPROVED"} = {q \in Proposal : firmProp[q].status = "APPROVED"}
    BY <1>1, <1>3, <1>4
  <2> QED BY <1>1, <2>1, <2>2, <2>3, <2>4, <2>5, <2>6, <2>7 DEF Firm!Edits!Propose
<1> QED BY <1>5, <1>6, <1>7, <1>8 DEF FirmSerialInv, Firm!Edits!Next

\* Only the status of one row changes, and to REJECTED.
LEMMA FirmRejected ==
    ASSUME FirmSerialInv, NEW p \in Proposal, firmProp[p].status # "NONE",
           firmProp' = [firmProp EXCEPT ![p].status = "REJECTED"]
    PROVE  /\ DOMAIN firmProp' = Proposal /\ \A q \in Proposal : FirmEditRow(firmProp'[q])
           /\ FirmEditsInv'
           /\ \A q \in Proposal : /\ firmProp'[q].changes = firmProp[q].changes
                                  /\ firmProp'[q].previous = firmProp[q].previous
                                  /\ firmProp'[q].status = IF q = p THEN "REJECTED" ELSE firmProp[q].status
<1> DEFINE e == [firmProp[p] EXCEPT !.status = "REJECTED"]
<1>1. /\ e.status = "REJECTED" /\ e.changes = firmProp[p].changes /\ e.previous = firmProp[p].previous
      /\ FirmEditRow(e)
  BY DEF FirmSerialInv, FirmRowsInv, FirmEditRow
<1>2. firmProp' = [firmProp EXCEPT ![p] = e]
  OBVIOUS
<1> HIDE DEF e
<1>3. DOMAIN firmProp' = Proposal /\ \A q \in Proposal : firmProp'[q] = IF q = p THEN e ELSE firmProp[q]
  BY <1>2 DEF FirmSerialInv, FirmRowsInv
<1>4. FirmEditsInv'
  BY <1>1, <1>3 DEF FirmSerialInv, FirmEditsInv
<1> QED BY <1>1, <1>3, <1>4 DEF FirmSerialInv, FirmRowsInv

LEMMA FirmBanRejects ==
    ASSUME FirmSerialInv, Firm!OneAtATime', NEW p \in Proposal, Firm!rejectPending(p)
    PROVE  FirmSerialInv' /\ FirmQuiet
<1>1. /\ firmProp[p].status = "PENDING" /\ firmProp' = [firmProp EXCEPT ![p].status = "REJECTED"]
      /\ firm' = firm /\ owner' = owner /\ firmReq' = firmReq /\ firmIngest' = firmIngest
  BY DEF Firm!rejectPending
<1>2. /\ DOMAIN firmProp' = Proposal /\ \A q \in Proposal : FirmEditRow(firmProp'[q])
      /\ FirmEditsInv'
      /\ \A q \in Proposal : /\ firmProp'[q].changes = firmProp[q].changes
                             /\ firmProp'[q].previous = firmProp[q].previous
                             /\ firmProp'[q].status = IF q = p THEN "REJECTED" ELSE firmProp[q].status
  BY <1>1, FirmRejected
<1>3. FirmRowsInv'
  BY <1>1, <1>2 DEF FirmSerialInv, FirmRowsInv, FirmIngestRow, FirmRow
<1>4. FirmDecisionsInv'
  <2> SUFFICES ASSUME NEW a \in Firm!Busy PROVE FirmKnows(firmReq[a])'
    BY <1>1 DEF FirmDecisionsInv, Firm!Busy
  <2>1. FirmKnows(firmReq[a]) /\ firmReq[a].proposal \in Proposal
    BY DEF FirmSerialInv, FirmDecisionsInv, FirmRowsInv, FirmRequestRow, Firm!Busy
  <2> QED BY <1>1, <1>2, <2>1 DEF FirmKnows
<1>5. FirmQuiet
  BY <1>1, <1>2 DEF FirmQuiet
<1> QED BY <1>2, <1>3, <1>4, <1>5 DEF FirmSerialInv

\* A request that goes on, and nothing else.
LEMMA FirmGoesOn ==
    ASSUME FirmSerialInv, Firm!OneAtATime', NEW a \in Admin, NEW r, firmReq' = [firmReq EXCEPT ![a] = r],
           FirmRequestRow(r), r.pc # "idle", FirmKnows(r),
           UNCHANGED <<firm, owner, firmProp, firmIngest>>
    PROVE  FirmSerialInv' /\ FirmQuiet
<1>1. DOMAIN firmReq' = Admin /\ \A b \in Admin : firmReq'[b] = IF b = a THEN r ELSE firmReq[b]
  BY DEF FirmSerialInv, FirmRowsInv
<1>2. FirmRowsInv'
  BY <1>1 DEF FirmSerialInv, FirmRowsInv, FirmIngestRow, FirmRow
<1>3. FirmDecisionsInv'
  <2>1. a \in Firm!Busy'
    BY <1>1 DEF Firm!Busy
  <2>2. \A b \in Firm!Busy' : b = a
    BY <2>1 DEF Firm!OneAtATime
  <2>3. firmReq'[a] = r /\ firmProp' = firmProp /\ firm' = firm
    BY <1>1
  <2>4. FirmKnows(firmReq[a])'
    BY <2>3 DEF FirmKnows
  <2> QED BY <2>2, <2>4 DEF FirmDecisionsInv
<1>4. FirmEditsInv'
  BY DEF FirmSerialInv, FirmEditsInv
<1> QED BY <1>2, <1>3, <1>4 DEF FirmSerialInv, FirmQuiet

LEMMA FirmNoticeLoaded ==
    ASSUME FirmSerialInv, Firm!OneAtATime', NEW a \in Admin, NEW p \in Proposal,
           NEW decision \in {"APPROVED", "REJECTED"}, Firm!loadSubmissionNotice(a, p, decision)
    PROVE  FirmSerialInv' /\ FirmQuiet
<1> DEFINE retracting == (decision = "REJECTED" /\ firmProp[p].status = "APPROVED")
           r == [Firm!IdleRequest EXCEPT !.pc = "noticed", !.proposal = p, !.status = decision,
                                    !.retracting = retracting]
<1>1. /\ firmProp[p].status # "NONE" /\ firmReq' = [firmReq EXCEPT ![a] = r]
      /\ UNCHANGED <<firm, owner, firmProp, firmIngest>>
  BY DEF Firm!loadSubmissionNotice
<1> HIDE DEF retracting
<1>2. /\ FirmRequestRow(r) /\ r.pc = "noticed" /\ r.proposal = p /\ r.status = decision
      /\ r.retracting = retracting
  BY DEF FirmRequestRow, Firm!IdleRequest
<1> HIDE DEF r
<1>3. FirmKnows(r)
  BY <1>1, <1>2 DEF FirmKnows, retracting
<1> QED BY <1>1, <1>2, <1>3, FirmGoesOn

LEMMA FirmProposalRead ==
    ASSUME FirmSerialInv, Firm!OneAtATime', NEW a \in Admin, Firm!readProposal(a)
    PROVE  FirmSerialInv' /\ FirmQuiet
<1> DEFINE old == firmReq[a]
           r == [old EXCEPT !.pc = "read", !.row = firm, !.prop = firmProp[old.proposal]]
<1>1. /\ old.pc = "noticed" /\ (old.status = "APPROVED" \/ old.retracting)
      /\ firmReq' = [firmReq EXCEPT ![a] = r]
      /\ UNCHANGED <<firm, owner, firmProp, firmIngest>>
  BY DEF Firm!readProposal
<1>2. FirmRequestRow(old) /\ FirmKnows(old)
  BY <1>1, FirmOnlyBusy DEF FirmSerialInv, FirmRowsInv
<1> HIDE DEF old
<1>3. /\ FirmRequestRow(r) /\ r.pc = "read" /\ r.row = firm /\ r.prop = firmProp[old.proposal]
      /\ r.proposal = old.proposal /\ r.status = old.status /\ r.retracting = old.retracting
  BY <1>1, <1>2 DEF FirmRequestRow
<1> HIDE DEF r
<1>4. FirmKnows(r)
  BY <1>1, <1>2, <1>3 DEF FirmKnows
<1> QED BY <1>1, <1>3, <1>4, FirmGoesOn

\* An approval that overlaps nothing: what it keeps is what the firm shows.
LEMMA FirmApproves ==
    ASSUME FirmSerialInv, NEW a \in Admin, Firm!applyInvestorProposal(a)
    PROVE  FirmSerialInv' /\ [Firm!Edits!Next]_(Firm!Edits!vars)
<1> DEFINE r == firmReq[a]
           p == r.proposal
           changes == firmProp[p].changes
           kept == Firm!Previous(r.row, r.prop.changes)
           cleared == Firm!ClearedMarks(r.row.marks, Firm!Keys(r.prop.changes))
           marks == IF r.row.marks \cap Firm!Keys(r.prop.changes) = {} THEN firm.marks
                    ELSE Firm!WithoutPartnerFields(r.row.marks, Firm!Keys(r.prop.changes))
           row == [firm EXCEPT !.val = Firm!Overlay(r.prop.changes, firm.val), !.marks = marks]
           e == [firmProp[p] EXCEPT !.status = "APPROVED", !.previous = kept, !.cleared = cleared]
<1>1. r.pc = "read" /\ firm' = row /\ owner' = owner /\ firmIngest' = firmIngest
  BY DEF Firm!applyInvestorProposal
<1>2. firmReq' = [firmReq EXCEPT ![a] = Firm!IdleRequest]
  BY DEF Firm!applyInvestorProposal
<1>3. firmProp' = [firmProp EXCEPT ![p] = e]
  <2>1. firmProp' = [firmProp EXCEPT ![p].status = "APPROVED", ![p].previous = kept, ![p].cleared = cleared]
    BY DEF Firm!applyInvestorProposal
  <2> HIDE DEF kept, cleared, p
  <2> QED BY <2>1, Zenon
<1>4. /\ p \in Proposal /\ r.row.val = firm.val /\ r.prop.changes = changes
      /\ FirmEditRow(firmProp[p]) /\ FirmRow(firm)
  BY <1>1, FirmOnlyBusy DEF FirmKnows, FirmSerialInv, FirmRowsInv, FirmRequestRow
<1>5. /\ kept \in Firm!Changes
      /\ \A f \in Field : kept[f] = IF changes[f] # Unset THEN firm.val[f] ELSE Unset
  BY <1>4 DEF Firm!Previous, Firm!Keys, Firm!Changes, FirmEditRow, FirmRow
<1>6. /\ DOMAIN row = {"val", "marks", "partnerOnly"} /\ row.val \in [Field -> Value]
      /\ row.val = [f \in Field |-> IF changes[f] # Unset THEN changes[f] ELSE firm.val[f]]
  BY <1>4 DEF FirmRow, Firm!Overlay, FirmEditRow, Firm!Changes
<1> HIDE DEF kept, cleared, marks
<1>7. /\ e.status = "APPROVED" /\ e.changes = changes /\ e.previous = kept /\ FirmEditRow(e)
  BY <1>4, <1>5 DEF FirmEditRow
<1> HIDE DEF e, row
<1>8. DOMAIN firmProp' = Proposal /\ \A q \in Proposal : firmProp'[q] = IF q = p THEN e ELSE firmProp[q]
  BY <1>3 DEF FirmSerialInv, FirmRowsInv
<1>9. /\ DOMAIN firmReq' = Admin /\ \A b \in Admin : FirmRequestRow(firmReq'[b])
      /\ Firm!OneAtATime' /\ FirmDecisionsInv'
  BY <1>1, <1>2, FirmDecided
<1>10. FirmRowsInv'
  BY <1>1, <1>6, <1>7, <1>8, <1>9 DEF FirmSerialInv, FirmRowsInv, FirmIngestRow, FirmRow
<1>11. \A f \in Firm!Keys(changes) : kept[f] # Unset
  BY <1>4, <1>5, ValueAssumption DEF Firm!Keys, FirmRow
<1>12. FirmEditsInv'
  BY <1>7, <1>8, <1>11 DEF FirmSerialInv, FirmEditsInv
<1>12a. PICK x \in Proposal : x = p
  BY <1>4
<1>13. Firm!Edits!Approve(x)
  <2> HIDE DEF p, r, changes
  <2>1. {q \in Proposal : firmProp'[q].status = "APPROVED"} = {q \in Proposal : firmProp[q].status = "APPROVED"} \cup {x}
    BY <1>4, <1>12a, <1>7, <1>8
  <2>2. changes = firmProp[x].changes
    BY <1>12a DEF changes
  <2>3. [q \in Proposal |-> firmProp'[q].changes] = [q \in Proposal |-> firmProp[q].changes]
    BY <1>12a, <1>7, <1>8, <2>2
  <2>4. Firm!Edits!Touched(x) = {f \in Field : changes[f] # Unset}
    BY <1>4, <1>12a, <2>2 DEF Firm!Edits!Touched
  <2>5. firm'.val = [f \in Field |-> IF f \in Firm!Edits!Touched(x) THEN [q \in Proposal |-> firmProp[q].changes][x][f]
                                    ELSE firm.val[f]]
    BY <1>1, <1>4, <1>12a, <1>6, <2>2, <2>4
  <2>6. \A f \in Field : changes[f] = Unset => firmProp[x].previous[f] = Unset
    BY <1>4, <1>12a, <2>2 DEF FirmEditRow
  <2>7. kept = [f \in Field |-> IF f \in Firm!Edits!Touched(x) THEN firm.val[f] ELSE firmProp[x].previous[f]]
    BY <1>5, <2>4, <2>6 DEF Firm!Changes
  <2>8. \A f \in Field : Firm!Edits!Replaces(x, f) = firm.val[f]
    BY DEF Firm!Edits!Replaces
  <2>9. kept = [f \in Field |-> IF f \in Firm!Edits!Touched(x) THEN Firm!Edits!Replaces(x, f)
                               ELSE [q \in Proposal |-> firmProp[q].previous][x][f]]
    BY <1>4, <1>12a, <2>7, <2>8
  <2>10. [q \in Proposal |-> firmProp'[q].previous] = [[q \in Proposal |-> firmProp[q].previous] EXCEPT ![x] = kept]
    BY <1>12a, <1>7, <1>8
  <2> QED BY <2>1, <2>3, <2>5, <2>9, <2>10 DEF Firm!Edits!Approve
<1>14. Firm!Edits!Next
  BY <1>13 DEF Firm!Edits!Next
<1> QED BY <1>9, <1>10, <1>12, <1>14 DEF FirmSerialInv

\* A retraction that overlaps nothing puts back what the row kept.
LEMMA FirmReverts ==
    ASSUME FirmSerialInv, NEW a \in Admin, Firm!revertInvestorProposal(a)
    PROVE  FirmSerialInv' /\ [Firm!Edits!Next]_(Firm!Edits!vars)
<1> DEFINE r == firmReq[a]
           p == r.proposal
           changes == firmProp[p].changes
           kept == firmProp[p].previous
           back == Firm!Restored(r.prop, r.row.val)
           mark == Firm!MarksToRestore(r.prop.cleared, back, Firm!TouchedByPartner(r.row.partnerOnly))
           marks == IF mark \subseteq r.row.marks THEN firm.marks
                    ELSE Firm!WithPartnerFields(r.row.marks, mark)
           row == [firm EXCEPT !.val = Firm!Overlay(back, firm.val), !.marks = marks]
<1>1. r.pc = "read" /\ r.status = "REJECTED" /\ firm' = row /\ owner' = owner /\ firmIngest' = firmIngest
  BY DEF Firm!revertInvestorProposal
<1>2. firmReq' = [firmReq EXCEPT ![a] = Firm!IdleRequest] /\ firmProp' = [firmProp EXCEPT ![p].status = "REJECTED"]
  BY DEF Firm!revertInvestorProposal
<1>3. /\ p \in Proposal /\ r.row.val = firm.val /\ r.prop.changes = changes /\ r.prop.previous = kept
      /\ FirmEditRow(firmProp[p]) /\ FirmRow(firm) /\ firmProp[p].status = "APPROVED"
  BY <1>1, FirmOnlyBusy DEF FirmKnows, FirmSerialInv, FirmRowsInv, FirmRequestRow
<1>4. \A f \in Firm!Keys(changes) : kept[f] # Unset
  BY <1>3 DEF FirmSerialInv, FirmEditsInv
<1> HIDE DEF marks
<1>5. /\ back \in Firm!Changes
      /\ \A f \in Field : back[f] = IF changes[f] # Unset /\ firm.val[f] = changes[f] /\ kept[f] # changes[f]
                                    THEN kept[f] ELSE Unset
  BY <1>3, <1>4 DEF Firm!Restored, Firm!Keys, Firm!Changes, FirmEditRow, FirmRow
<1> HIDE DEF back
<1>6. /\ DOMAIN row = {"val", "marks", "partnerOnly"} /\ row.val \in [Field -> Value]
      /\ row.val = [f \in Field |-> IF changes[f] # Unset /\ firm.val[f] = changes[f]
                                    THEN kept[f] ELSE firm.val[f]]
  <2>1. row.val = Firm!Overlay(back, firm.val) /\ DOMAIN row = {"val", "marks", "partnerOnly"}
    BY <1>3 DEF FirmRow
  <2>2. Firm!Overlay(back, firm.val) \in [Field -> Value]
    BY <1>3, <1>5, FirmOverlaid DEF FirmRow
  <2>3. Firm!Overlay(back, firm.val) = [f \in Field |-> IF back[f] # Unset THEN back[f] ELSE firm.val[f]]
    BY DEF Firm!Overlay
  <2>4. \A f \in Field : (IF back[f] # Unset THEN back[f] ELSE firm.val[f])
                        = IF changes[f] # Unset /\ firm.val[f] = changes[f] THEN kept[f] ELSE firm.val[f]
    BY <1>4, <1>5 DEF Firm!Keys
  <2> QED BY <2>1, <2>2, <2>3, <2>4
<1> HIDE DEF row
<1>7. /\ DOMAIN firmProp' = Proposal /\ \A q \in Proposal : FirmEditRow(firmProp'[q])
      /\ FirmEditsInv'
      /\ \A q \in Proposal : /\ firmProp'[q].changes = firmProp[q].changes
                             /\ firmProp'[q].previous = firmProp[q].previous
                             /\ firmProp'[q].status = IF q = p THEN "REJECTED" ELSE firmProp[q].status
  BY <1>2, <1>3, FirmRejected
<1>8. /\ DOMAIN firmReq' = Admin /\ \A b \in Admin : FirmRequestRow(firmReq'[b])
      /\ Firm!OneAtATime' /\ FirmDecisionsInv'
  BY <1>1, <1>2, FirmDecided
<1>9. FirmRowsInv'
  BY <1>1, <1>6, <1>7, <1>8 DEF FirmSerialInv, FirmRowsInv, FirmIngestRow, FirmRow
<1>9a. PICK x \in Proposal : x = p
  BY <1>3
<1>10. Firm!Edits!Retract(x)
  <2>1. x \in {q \in Proposal : firmProp[q].status = "APPROVED"}
    BY <1>3, <1>9a
  <2>2. {q \in Proposal : firmProp'[q].status = "APPROVED"} = {q \in Proposal : firmProp[q].status = "APPROVED"} \ {x}
    BY <1>7, <1>9a
  <2>3. Firm!Edits!Touched(x) = {f \in Field : changes[f] # Unset}
    BY <1>3, <1>9a DEF Firm!Edits!Touched
  <2>4. firm'.val = [f \in Field |-> IF /\ f \in Firm!Edits!Touched(x)
                                       /\ firm.val[f] = [q \in Proposal |-> firmProp[q].changes][x][f]
                                    THEN [q \in Proposal |-> firmProp[q].previous][x][f] ELSE firm.val[f]]
    BY <1>1, <1>3, <1>9a, <1>6, <2>3
  <2>5. UNCHANGED <<[q \in Proposal |-> firmProp[q].changes], [q \in Proposal |-> firmProp[q].previous]>>
    BY <1>7
  <2> QED BY <2>1, <2>2, <2>4, <2>5 DEF Firm!Edits!Retract
<1>11. Firm!Edits!Next
  BY <1>10 DEF Firm!Edits!Next
<1> QED BY <1>7, <1>8, <1>9, <1>11 DEF FirmSerialInv

\* A rejection of what was not approved when it was looked at.
LEMMA FirmRejects ==
    ASSUME FirmSerialInv, NEW a \in Admin, Firm!reject(a)
    PROVE  FirmSerialInv' /\ FirmQuiet
<1> DEFINE r == firmReq[a]
           p == r.proposal
<1>1. /\ r.pc = "noticed" /\ r.status = "REJECTED" /\ ~ r.retracting
      /\ firmProp' = [firmProp EXCEPT ![p].status = "REJECTED"] /\ firmReq' = [firmReq EXCEPT ![a] = Firm!IdleRequest]
      /\ firm' = firm /\ owner' = owner /\ firmIngest' = firmIngest
  BY DEF Firm!reject
<1>2. p \in Proposal /\ firmProp[p].status # "NONE" /\ firmProp[p].status # "APPROVED"
  BY <1>1, FirmOnlyBusy DEF FirmKnows, FirmSerialInv, FirmRowsInv, FirmRequestRow
<1>3. /\ DOMAIN firmProp' = Proposal /\ \A q \in Proposal : FirmEditRow(firmProp'[q])
      /\ FirmEditsInv'
      /\ \A q \in Proposal : /\ firmProp'[q].changes = firmProp[q].changes
                             /\ firmProp'[q].previous = firmProp[q].previous
                             /\ firmProp'[q].status = IF q = p THEN "REJECTED" ELSE firmProp[q].status
  BY <1>1, <1>2, FirmRejected
<1>4. /\ DOMAIN firmReq' = Admin /\ \A b \in Admin : FirmRequestRow(firmReq'[b])
      /\ Firm!OneAtATime' /\ FirmDecisionsInv'
  BY <1>1, FirmDecided
<1>5. FirmRowsInv'
  BY <1>1, <1>3, <1>4 DEF FirmSerialInv, FirmRowsInv, FirmIngestRow, FirmRow
<1>6. FirmQuiet
  BY <1>1, <1>2, <1>3 DEF FirmQuiet
<1> QED BY <1>3, <1>4, <1>5, <1>6 DEF FirmSerialInv

----------------------------------------------------------------------------
(* The ingest worker's steps, while no decision is in flight. *)

LEMMA FirmIdle == ASSUME Firm!OneAtATime, firmIngest.pc # "idle" PROVE Firm!Busy = {}
BY DEF Firm!OneAtATime

\* The worker only disturbs a decision that is not there.
LEMMA FirmWorked ==
    ASSUME FirmSerialInv, Firm!OneAtATime', firmProp' = firmProp, firmReq' = firmReq, owner' = owner,
           FirmRow(firm'), firmIngest'.pc \in {"idle", "written", "read"}, firmIngest'.data \in Firm!Changes,
           Firm!Busy = {} \/ firm'.val = firm.val
    PROVE  FirmSerialInv'
<1>1. FirmRowsInv'
  BY DEF FirmSerialInv, FirmRowsInv, FirmIngestRow, FirmRow
<1>2. FirmEditsInv'
  BY DEF FirmSerialInv, FirmEditsInv
<1>3. FirmDecisionsInv'
  <2> SUFFICES ASSUME NEW a \in Firm!Busy PROVE FirmKnows(firmReq[a])'
    BY DEF FirmDecisionsInv, Firm!Busy
  <2>1. FirmKnows(firmReq[a]) /\ firm'.val = firm.val
    BY DEF FirmSerialInv, FirmDecisionsInv
  <2> QED BY <2>1 DEF FirmKnows
<1> QED BY <1>1, <1>2, <1>3 DEF FirmSerialInv

\* What it writes is somebody else's write of the profile.
LEMMA FirmOverwrites ==
    ASSUME firmProp' = firmProp, FirmRow(firm')
    PROVE  Firm!Edits!Next
<1>1. Firm!Edits!Overwrite
  BY DEF Firm!Edits!Overwrite, FirmRow
<1> QED BY <1>1 DEF Firm!Edits!Next

LEMMA FirmQuietWork == ASSUME firmProp' = firmProp, firm'.val = firm.val PROVE FirmQuiet
BY DEF FirmQuiet

LEMMA FirmWorkSteps ==
    ASSUME FirmSerialInv, Firm!OneAtATime', Firm!Ingest
    PROVE  FirmSerialInv' /\ [Firm!Edits!Next]_(Firm!Edits!vars)
<1>0. FirmRow(firm) /\ owner \in Firm!Source /\ firmIngest.data \in Firm!Changes
  BY DEF FirmSerialInv, FirmRowsInv, FirmIngestRow
<1>1. ASSUME NEW v \in [Field -> Firm!Supplied(owner)], Firm!upsertInvestorFirm(v)
      PROVE  FirmSerialInv' /\ [Firm!Edits!Next]_(Firm!Edits!vars)
  <2> DEFINE row == [firm EXCEPT !.val = v]
             w == [Firm!IdleIngest EXCEPT !.pc = "written", !.source = owner, !.data = v]
  <2>1. firm' = row /\ firmIngest' = w /\ firmProp' = firmProp /\ firmReq' = firmReq /\ owner' = owner
    BY <1>1 DEF Firm!upsertInvestorFirm
  <2>2. v \in [Field -> Value] /\ v \in Firm!Changes
    BY <1>0, FirmSuppliedValues DEF Firm!Changes
  <2>3. FirmRow(row)
    BY <1>0, <2>2 DEF FirmRow
  <2>4. w.pc = "written" /\ w.data = v
    BY DEF Firm!IdleIngest
  <2>5. Firm!Busy = {}
    BY <2>1, <2>4 DEF Firm!OneAtATime, Firm!Busy
  <2> QED BY <2>1, <2>2, <2>3, <2>4, <2>5, FirmWorked, FirmOverwrites
<1>2. ASSUME Firm!syncPartnerFields PROVE FirmSerialInv' /\ [Firm!Edits!Next]_(Firm!Edits!vars)
  <2>1. /\ firm' = [firm EXCEPT !.marks = Firm!SyncedMarks(@, firmIngest.source, firmIngest.data)]
        /\ firmIngest' = Firm!IdleIngest /\ firmProp' = firmProp /\ firmReq' = firmReq /\ owner' = owner
    BY <1>2 DEF Firm!syncPartnerFields
  <2>2. FirmRow(firm') /\ firm'.val = firm.val
    BY <1>0, <2>1 DEF FirmRow
  <2> QED BY <2>1, <2>2, FirmColumns, FirmWorked, FirmQuietWork, FirmQuietStutters
<1>3. ASSUME NEW s \in Firm!Source, NEW c \in Firm!Changes, Firm!readInvestor(s, c)
      PROVE  FirmSerialInv' /\ [Firm!Edits!Next]_(Firm!Edits!vars)
  <2>1. /\ firmIngest' = [pc |-> "read", source |-> s, data |-> c, row |-> firm]
        /\ firm' = firm /\ firmProp' = firmProp /\ firmReq' = firmReq /\ owner' = owner
    BY <1>3 DEF Firm!readInvestor
  <2> QED BY <1>0, <2>1, FirmWorked, FirmQuietWork, FirmQuietStutters
<1>4. ASSUME Firm!enrichInvestor PROVE FirmSerialInv' /\ [Firm!Edits!Next]_(Firm!Edits!vars)
  <2>1. /\ firmIngest.pc = "read" /\ firmIngest' = Firm!IdleIngest /\ firmProp' = firmProp /\ firmReq' = firmReq /\ owner' = owner
        /\ firm'.val = Firm!Overlay(firmIngest.data, firm.val) /\ DOMAIN firm' = {"val", "marks", "partnerOnly"}
    BY <1>4 DEF Firm!enrichInvestor
  <2>2. FirmRow(firm')
    BY <1>0, <2>1, FirmOverlaid DEF FirmRow
  <2>3. Firm!Busy = {}
    BY <2>1, FirmIdle DEF FirmSerialInv
  <2> QED BY <2>1, <2>2, <2>3, FirmColumns, FirmWorked, FirmOverwrites
<1>5. ASSUME Firm!claimInvestor PROVE FirmSerialInv' /\ [Firm!Edits!Next]_(Firm!Edits!vars)
  <2>1. /\ firm' = [firm EXCEPT !.partnerOnly = FALSE]
        /\ firmIngest' = firmIngest /\ firmProp' = firmProp /\ firmReq' = firmReq /\ owner' = owner
    BY <1>5 DEF Firm!claimInvestor
  <2>2. FirmRow(firm') /\ firm'.val = firm.val
    BY <1>0, <2>1 DEF FirmRow
  <2>3. firmIngest.pc \in {"idle", "written", "read"}
    BY DEF FirmSerialInv, FirmRowsInv, FirmIngestRow
  <2> QED BY <1>0, <2>1, <2>2, <2>3, FirmWorked, FirmQuietWork, FirmQuietStutters
<1> QED BY <1>1, <1>2, <1>3, <1>4, <1>5 DEF Firm!Ingest

----------------------------------------------------------------------------
LEMMA FirmNextSerial ==
    FirmSerialInv /\ [Firm!Next /\ Firm!OneAtATime']_(Firm!vars) => FirmSerialInv' /\ [Firm!Edits!Next]_(Firm!Edits!vars)
<1> SUFFICES ASSUME FirmSerialInv, [Firm!Next /\ Firm!OneAtATime']_(Firm!vars)
             PROVE  FirmSerialInv' /\ [Firm!Edits!Next]_(Firm!Edits!vars)
  OBVIOUS
<1>1. CASE UNCHANGED Firm!vars
  <2>1. firm' = firm /\ owner' = owner /\ firmProp' = firmProp /\ firmReq' = firmReq /\ firmIngest' = firmIngest
    BY <1>1 DEF Firm!vars
  <2>2. FirmRow(firm) /\ firmIngest.pc \in {"idle", "written", "read"} /\ firmIngest.data \in Firm!Changes
    BY DEF FirmSerialInv, FirmRowsInv, FirmIngestRow
  <2>3. Firm!OneAtATime'
    BY <2>1 DEF FirmSerialInv, Firm!OneAtATime, Firm!Busy
  <2> QED BY <2>1, <2>2, <2>3, FirmWorked, FirmQuietWork, FirmQuietStutters
<1>2. ASSUME Firm!OneAtATime', Firm!Contribute PROVE FirmSerialInv' /\ [Firm!Edits!Next]_(Firm!Edits!vars)
  BY <1>2, FirmProposes, FirmBanRejects, FirmQuietStutters DEF Firm!Contribute
<1>3. ASSUME Firm!OneAtATime', NEW a \in Admin, Firm!Moderate(a)
      PROVE  FirmSerialInv' /\ [Firm!Edits!Next]_(Firm!Edits!vars)
  BY <1>3, FirmNoticeLoaded, FirmProposalRead, FirmApproves, FirmReverts, FirmRejects, FirmQuietStutters DEF Firm!Moderate
<1>4. ASSUME Firm!OneAtATime', Firm!Ingest PROVE FirmSerialInv' /\ [Firm!Edits!Next]_(Firm!Edits!vars)
  BY <1>4, FirmWorkSteps
<1> QED BY <1>1, <1>2, <1>3, <1>4 DEF Firm!Next

\* When no two calls overlap, the proposal rows of a firm implement
\* reversible edits: an approval keeps what it replaced, and its retraction
\* puts that back on every field that still shows the edit
\* (applyInvestorProposal, revertInvestorProposal).
THEOREM FirmEditsImplementReversibleEdits == Firm!SerialSpec => Firm!FirmEditsAreReversible
<1>1. Firm!Init => FirmSerialInv
  BY FirmInitSerial
<1>2. FirmSerialInv => Firm!Edits!Init
  BY FirmInitMaps
<1>3. FirmSerialInv /\ [Firm!Next /\ Firm!OneAtATime']_(Firm!vars) => FirmSerialInv' /\ [Firm!Edits!Next]_(Firm!Edits!vars)
  BY FirmNextSerial
<1> QED BY <1>1, <1>2, <1>3, PTL DEF Firm!SerialSpec, Firm!FirmEditsAreReversible, Firm!Edits!Spec

----------------------------------------------------------------------------
(* Types of a firm's rows, however calls overlap. *)

LEMMA FirmInitialRows ==
    /\ Firm!NoChanges \in Firm!Changes /\ Firm!NoEdit \in Firm!ProposalRow
    /\ Firm!NoRow \in Firm!Entity /\ Firm!IdleRequest \in Firm!Request
    /\ Firm!IdleIngest \in Firm!IngestWrite /\ Firm!NotRecorded \in Firm!Cleared
<1>1. Firm!NoChanges \in Firm!Changes
  BY DEF Firm!NoChanges, Firm!Changes
<1>2. Firm!NotRecorded \in Firm!Cleared
  BY DEF Firm!NotRecorded, Firm!Cleared
<1>3. Firm!NoEdit \in Firm!ProposalRow
  BY <1>1, <1>2 DEF Firm!NoEdit, Firm!ProposalRow
<1>4. Firm!NoRow \in Firm!Entity
  BY ValueAssumption DEF Firm!NoRow, Firm!Entity
<1>5. Firm!IdleRequest \in Firm!Request
  BY <1>3, <1>4 DEF Firm!IdleRequest, Firm!Request
<1>6. Firm!IdleIngest \in Firm!IngestWrite
  BY <1>1, <1>4 DEF Firm!IdleIngest, Firm!IngestWrite, Firm!Source
<1> QED BY <1>1, <1>2, <1>3, <1>4, <1>5, <1>6

LEMMA FirmInitTypes == Firm!Init => Firm!TypeOK
<1> SUFFICES ASSUME Firm!Init PROVE Firm!TypeOK
  OBVIOUS
<1>1. firm \in Firm!Entity /\ firmKey \in BOOLEAN /\ firmProp \in [Proposal -> Firm!ProposalRow]
  <2>1. CASE Firm!CreatedFirm
    <3>1. PICK v \in [Field -> Firm!Supplied(owner)] :
            firm = [val |-> v, partnerOnly |-> firmKey,
                    marks |-> IF firmKey THEN {f \in Field : v[f] # Blank} ELSE {}]
      BY <2>1 DEF Firm!CreatedFirm
    <3>2. v \in [Field -> Value] /\ firmKey \in BOOLEAN
      BY <2>1, FirmSuppliedValues DEF Firm!Init, Firm!CreatedFirm
    <3>3. firm \in Firm!Entity
      BY <3>1, <3>2 DEF Firm!Entity
    <3> QED BY <2>1, <3>2, <3>3, FirmInitialRows DEF Firm!CreatedFirm
  <2>2. ASSUME NEW p \in Proposal, NEW f \in Field, NEW old \in Value, NEW new \in Value,
               Firm!LegacyApproved(p, f, old, new)
        PROVE  firm \in Firm!Entity /\ firmKey \in BOOLEAN /\ firmProp \in [Proposal -> Firm!ProposalRow]
    <3> DEFINE c == [Firm!NoChanges EXCEPT ![f] = new]
               o == [Firm!NoChanges EXCEPT ![f] = old]
               e == [status |-> "APPROVED", changes |-> c, previous |-> o, cleared |-> Firm!NotRecorded]
    <3>1. c \in Firm!Changes /\ o \in Firm!Changes
      BY FirmInitialRows DEF Firm!Changes
    <3>2. e \in Firm!ProposalRow
      BY <3>1, FirmInitialRows DEF Firm!ProposalRow
    <3>3. firmProp = [[q \in Proposal |-> Firm!NoEdit] EXCEPT ![p] = e]
      BY <2>2 DEF Firm!LegacyApproved
    <3>4. [Firm!NoRow.val EXCEPT ![f] = new] \in [Field -> Value]
      BY FirmColumns DEF FirmRow
    <3>5. firm \in Firm!Entity /\ firmKey \in BOOLEAN
      BY <2>2, <3>4 DEF Firm!LegacyApproved, Firm!Entity
    <3> HIDE DEF e
    <3> QED BY <3>2, <3>3, <3>5, FirmInitialRows
  <2> QED BY <2>1, <2>2 DEF Firm!Init
<1>2. firmReq \in [Admin -> Firm!Request] /\ \A a \in Admin : firmReq[a].pc = "idle"
  BY FirmInitialRows, FirmColumns DEF Firm!Init
<1> QED BY <1>1, <1>2, FirmInitialRows DEF Firm!Init, Firm!TypeOK

\* The helpers give diffs and rows.
LEMMA FirmHelpers ==
    /\ \A c \in Firm!Changes, old \in [Field -> Value] : Firm!Overlay(c, old) \in [Field -> Value]
    /\ \A row \in Firm!Entity, c \in Firm!Changes : Firm!Previous(row, c) \in Firm!Changes
    /\ \A e \in Firm!ProposalRow, v \in [Field -> Value] : Firm!Restored(e, v) \in Firm!Changes
    /\ \A c : Firm!Keys(c) \subseteq Field
    /\ \A fs : \A m \in SUBSET Field : Firm!ClearedMarks(m, fs) \in Firm!Cleared
<1>1. \A c \in Firm!Changes, old \in [Field -> Value] : Firm!Overlay(c, old) \in [Field -> Value]
  BY FirmOverlaid
<1>2. \A row \in Firm!Entity, c \in Firm!Changes : Firm!Previous(row, c) \in Firm!Changes
  BY DEF Firm!Previous, Firm!Changes, Firm!Entity
<1>3. \A e \in Firm!ProposalRow, v \in [Field -> Value] : Firm!Restored(e, v) \in Firm!Changes
  BY DEF Firm!Restored, Firm!Changes, Firm!ProposalRow
<1>4. \A c : Firm!Keys(c) \subseteq Field
  BY DEF Firm!Keys
<1>5. \A fs : \A m \in SUBSET Field : Firm!ClearedMarks(m, fs) \in Firm!Cleared
  BY DEF Firm!ClearedMarks, Firm!Cleared
<1> QED BY <1>1, <1>2, <1>3, <1>4, <1>5

\* An approval.
LEMMA FirmApprovalTyped ==
    ASSUME Firm!TypeOK, NEW a \in Admin, Firm!applyInvestorProposal(a)
    PROVE  Firm!TypeOK'
<1> DEFINE r == firmReq[a]
           p == r.proposal
           fs == Firm!Keys(r.prop.changes)
           kept == Firm!Previous(r.row, r.prop.changes)
           cleared == Firm!ClearedMarks(r.row.marks, fs)
           marks == IF r.row.marks \cap fs = {} THEN firm.marks
                    ELSE Firm!WithoutPartnerFields(r.row.marks, fs)
           val == Firm!Overlay(r.prop.changes, firm.val)
<1>1. r \in Firm!Request /\ p \in Proposal /\ r.pc = "read"
  BY DEF Firm!TypeOK, Firm!applyInvestorProposal
<1>2. firm \in Firm!Entity /\ r.row \in Firm!Entity /\ r.prop \in Firm!ProposalRow
  BY <1>1 DEF Firm!TypeOK, Firm!Request
<1>3. r.prop.changes \in Firm!Changes /\ firm.val \in [Field -> Value] /\ r.row.marks \in SUBSET Field
      /\ firm.marks \in SUBSET Field
  BY <1>2 DEF Firm!ProposalRow, Firm!Entity
<1>4. val \in [Field -> Value] /\ kept \in Firm!Changes /\ cleared \in Firm!Cleared /\ marks \in SUBSET Field
  BY <1>2, <1>3, FirmHelpers DEF Firm!WithoutPartnerFields
<1>5. /\ firm' = [firm EXCEPT !.val = val, !.marks = marks]
      /\ firmProp' = [firmProp EXCEPT ![p].status = "APPROVED", ![p].previous = kept, ![p].cleared = cleared]
      /\ firmReq' = [firmReq EXCEPT ![a] = Firm!IdleRequest]
      /\ UNCHANGED <<owner, firmKey, firmIngest>>
  BY DEF Firm!applyInvestorProposal
<1> HIDE DEF val, marks, kept, cleared, p
<1>6. firm' \in Firm!Entity
  BY <1>2, <1>4, <1>5 DEF Firm!Entity
<1>7. firmProp' \in [Proposal -> Firm!ProposalRow]
  BY <1>1, <1>4, <1>5 DEF Firm!TypeOK, Firm!ProposalRow
<1>8. firmReq' \in [Admin -> Firm!Request] /\ \A b \in Admin : firmReq'[b].pc # "idle" => firmReq'[b].proposal \in Proposal
  BY <1>5, FirmInitialRows, FirmColumns DEF Firm!TypeOK
<1> QED BY <1>5, <1>6, <1>7, <1>8 DEF Firm!TypeOK

\* A retraction.
LEMMA FirmRetractionTyped ==
    ASSUME Firm!TypeOK, NEW a \in Admin, Firm!revertInvestorProposal(a)
    PROVE  Firm!TypeOK'
<1> DEFINE r == firmReq[a]
           p == r.proposal
           back == Firm!Restored(r.prop, r.row.val)
           mark == Firm!MarksToRestore(r.prop.cleared, back, Firm!TouchedByPartner(r.row.partnerOnly))
           marks == IF mark \subseteq r.row.marks THEN firm.marks
                    ELSE Firm!WithPartnerFields(r.row.marks, mark)
           val == Firm!Overlay(back, firm.val)
<1>1. r \in Firm!Request /\ p \in Proposal /\ r.pc = "read"
  BY DEF Firm!TypeOK, Firm!revertInvestorProposal
<1>2. firm \in Firm!Entity /\ r.row \in Firm!Entity /\ r.prop \in Firm!ProposalRow
  BY <1>1 DEF Firm!TypeOK, Firm!Request
<1>3. back \in Firm!Changes /\ firm.val \in [Field -> Value] /\ r.row.marks \in SUBSET Field
      /\ firm.marks \in SUBSET Field
  BY <1>2, FirmHelpers DEF Firm!Entity
<1>4. mark \in SUBSET Field
  BY FirmHelpers DEF Firm!MarksToRestore
<1>5. val \in [Field -> Value] /\ marks \in SUBSET Field
  BY <1>3, <1>4, FirmHelpers DEF Firm!WithPartnerFields
<1>6. /\ firm' = [firm EXCEPT !.val = val, !.marks = marks]
      /\ firmProp' = [firmProp EXCEPT ![p].status = "REJECTED"]
      /\ firmReq' = [firmReq EXCEPT ![a] = Firm!IdleRequest]
      /\ UNCHANGED <<owner, firmKey, firmIngest>>
  BY DEF Firm!revertInvestorProposal
<1> HIDE DEF val, marks, p
<1>7. firm' \in Firm!Entity
  BY <1>2, <1>5, <1>6 DEF Firm!Entity
<1>8. firmProp' \in [Proposal -> Firm!ProposalRow]
  BY <1>1, <1>6 DEF Firm!TypeOK, Firm!ProposalRow
<1>9. firmReq' \in [Admin -> Firm!Request] /\ \A b \in Admin : firmReq'[b].pc # "idle" => firmReq'[b].proposal \in Proposal
  BY <1>6, FirmInitialRows, FirmColumns DEF Firm!TypeOK
<1> QED BY <1>6, <1>7, <1>8, <1>9 DEF Firm!TypeOK

LEMMA FirmDecisionTyped ==
    ASSUME Firm!TypeOK, NEW a \in Admin, Firm!Moderate(a)
    PROVE  Firm!TypeOK'
<1>1. ASSUME NEW p \in Proposal, NEW s \in {"APPROVED", "REJECTED"}, Firm!loadSubmissionNotice(a, p, s)
      PROVE  Firm!TypeOK'
  <2> DEFINE late == (s = "REJECTED" /\ firmProp[p].status = "APPROVED")
             r == [Firm!IdleRequest EXCEPT !.pc = "noticed", !.proposal = p, !.status = s, !.retracting = late]
  <2>1. firmReq' = [firmReq EXCEPT ![a] = r] /\ UNCHANGED <<firm, owner, firmKey, firmProp, firmIngest>>
    BY <1>1 DEF Firm!loadSubmissionNotice
  <2>2. late \in BOOLEAN
    OBVIOUS
  <2> HIDE DEF late
  <2>3. r \in Firm!Request /\ r.proposal = p
    BY <2>2, FirmInitialRows DEF Firm!Request
  <2> HIDE DEF r
  <2> QED BY <2>1, <2>3 DEF Firm!TypeOK
<1>2. ASSUME Firm!readProposal(a) PROVE Firm!TypeOK'
  <2> DEFINE old == firmReq[a]
             r == [old EXCEPT !.pc = "read", !.row = firm, !.prop = firmProp[old.proposal]]
  <2>1. firmReq' = [firmReq EXCEPT ![a] = r] /\ UNCHANGED <<firm, owner, firmKey, firmProp, firmIngest>>
    BY <1>2 DEF Firm!readProposal
  <2>2. old \in Firm!Request /\ old.proposal \in Proposal
    BY <1>2 DEF Firm!TypeOK, Firm!readProposal
  <2>3. firm \in Firm!Entity /\ firmProp[old.proposal] \in Firm!ProposalRow
    BY <2>2 DEF Firm!TypeOK
  <2> HIDE DEF old
  <2>4. r \in Firm!Request /\ r.proposal = old.proposal
    BY <2>2, <2>3 DEF Firm!Request
  <2> HIDE DEF r
  <2> QED BY <2>1, <2>2, <2>4 DEF Firm!TypeOK
<1>3. ASSUME Firm!reject(a) PROVE Firm!TypeOK'
  <2> DEFINE p == firmReq[a].proposal
  <2>1. p \in Proposal
    BY <1>3 DEF Firm!TypeOK, Firm!reject
  <2>2. /\ firmProp' = [firmProp EXCEPT ![p].status = "REJECTED"]
        /\ firmReq' = [firmReq EXCEPT ![a] = Firm!IdleRequest]
        /\ UNCHANGED <<firm, owner, firmKey, firmIngest>>
    BY <1>3 DEF Firm!reject
  <2> HIDE DEF p
  <2>3. firmProp' \in [Proposal -> Firm!ProposalRow]
    BY <2>1, <2>2 DEF Firm!TypeOK, Firm!ProposalRow
  <2>4. firmReq' \in [Admin -> Firm!Request] /\ \A b \in Admin : firmReq'[b].pc # "idle" => firmReq'[b].proposal \in Proposal
    BY <2>2, FirmInitialRows, FirmColumns DEF Firm!TypeOK
  <2> QED BY <2>2, <2>3, <2>4 DEF Firm!TypeOK
<1> QED BY <1>1, <1>2, <1>3, FirmApprovalTyped, FirmRetractionTyped DEF Firm!Moderate

LEMMA FirmWorkTyped == ASSUME Firm!TypeOK, Firm!Ingest PROVE Firm!TypeOK'
<1>0. firm \in Firm!Entity /\ owner \in Firm!Source /\ firmIngest \in Firm!IngestWrite
  BY DEF Firm!TypeOK
<1>1. ASSUME NEW v \in [Field -> Firm!Supplied(owner)], Firm!upsertInvestorFirm(v) PROVE Firm!TypeOK'
  <2>1. v \in [Field -> Value] /\ v \in Firm!Changes
    BY <1>0, FirmSuppliedValues DEF Firm!Changes
  <2>2. firm' \in Firm!Entity
    BY <1>0, <1>1, <2>1 DEF Firm!upsertInvestorFirm, Firm!Entity
  <2>3. firmIngest' \in Firm!IngestWrite
    BY <1>0, <1>1, <2>1, FirmInitialRows DEF Firm!upsertInvestorFirm, Firm!IngestWrite
  <2> QED BY <1>1, <2>2, <2>3 DEF Firm!TypeOK, Firm!upsertInvestorFirm
<1>2. ASSUME Firm!syncPartnerFields PROVE Firm!TypeOK'
  <2>1. PICK w \in Firm!IngestWrite, row \in Firm!Entity : w = firmIngest /\ row = firm
    BY <1>0
  <2>2. row.marks \in SUBSET Field /\ Firm!SyncedMarks(row.marks, w.source, w.data) \in SUBSET Field
    BY DEF Firm!SyncedMarks, Firm!Entity
  <2>3. firm' = [row EXCEPT !.marks = Firm!SyncedMarks(row.marks, w.source, w.data)]
    BY <1>2, <2>1 DEF Firm!syncPartnerFields
  <2>4. firm' \in Firm!Entity
    BY <2>2, <2>3 DEF Firm!Entity
  <2> QED BY <1>2, <2>4, FirmInitialRows DEF Firm!TypeOK, Firm!syncPartnerFields
<1>3. ASSUME NEW s \in Firm!Source, NEW c \in Firm!Changes, Firm!readInvestor(s, c) PROVE Firm!TypeOK'
  <2>1. firmIngest' \in Firm!IngestWrite
    BY <1>0, <1>3 DEF Firm!readInvestor, Firm!IngestWrite
  <2> QED BY <1>3, <2>1 DEF Firm!TypeOK, Firm!readInvestor
<1>4. ASSUME Firm!enrichInvestor PROVE Firm!TypeOK'
  <2>1. PICK w \in Firm!IngestWrite, row \in Firm!Entity : w = firmIngest /\ row = firm
    BY <1>0
  <2>2. /\ w.data \in Firm!Changes /\ w.row \in Firm!Entity /\ row.val \in [Field -> Value]
        /\ row.marks \in SUBSET Field /\ row.partnerOnly \in BOOLEAN /\ w.row.marks \in SUBSET Field
    BY DEF Firm!IngestWrite, Firm!Entity
  <2>3. /\ Firm!Overlay(w.data, row.val) \in [Field -> Value]
        /\ Firm!ProvenanceMarks(w.row, w.source, Firm!Keys(w.data), row.marks) \in SUBSET Field
        /\ Firm!ProvenanceOnly(w.row, w.source, row.partnerOnly) \in BOOLEAN
    BY <2>2, FirmHelpers DEF Firm!ProvenanceMarks, Firm!ProvenanceOnly
  <2>4. firm' = [val |-> Firm!Overlay(w.data, row.val),
                 marks |-> Firm!ProvenanceMarks(w.row, w.source, Firm!Keys(w.data), row.marks),
                 partnerOnly |-> Firm!ProvenanceOnly(w.row, w.source, row.partnerOnly)]
    BY <1>4, <2>1 DEF Firm!enrichInvestor
  <2>5. firm' \in Firm!Entity
    BY <2>3, <2>4 DEF Firm!Entity
  <2>6. firmKey' \in BOOLEAN
    BY <1>4 DEF Firm!TypeOK, Firm!enrichInvestor
  <2> QED BY <1>4, <2>5, <2>6, FirmInitialRows DEF Firm!TypeOK, Firm!enrichInvestor
<1>5. ASSUME Firm!claimInvestor PROVE Firm!TypeOK'
  <2>1. firm' \in Firm!Entity
    BY <1>0, <1>5 DEF Firm!claimInvestor, Firm!Entity
  <2> QED BY <1>5, <2>1 DEF Firm!TypeOK, Firm!claimInvestor
<1> QED BY <1>1, <1>2, <1>3, <1>4, <1>5 DEF Firm!Ingest

LEMMA FirmContributionTyped == ASSUME Firm!TypeOK, Firm!Contribute PROVE Firm!TypeOK'
<1>1. ASSUME NEW p \in Proposal, Firm!rejectPending(p) PROVE Firm!TypeOK'
  <2>1. firmProp' \in [Proposal -> Firm!ProposalRow]
    BY <1>1 DEF Firm!TypeOK, Firm!rejectPending, Firm!ProposalRow
  <2> QED BY <1>1, <2>1 DEF Firm!TypeOK, Firm!rejectPending
<1>2. ASSUME NEW p \in Proposal, NEW c \in Firm!Changes, Firm!proposeChange(p, c) PROVE Firm!TypeOK'
  <2> DEFINE cleaned == [f \in Field |-> IF c[f] = firm.val[f] THEN Unset ELSE c[f]]
             e == [Firm!NoEdit EXCEPT !.status = "PENDING", !.changes = cleaned]
  <2>1. cleaned \in Firm!Changes
    BY DEF Firm!Changes
  <2> HIDE DEF cleaned
  <2>2. e \in Firm!ProposalRow
    BY <2>1, FirmInitialRows DEF Firm!ProposalRow
  <2>3. firmProp' = [firmProp EXCEPT ![p] = e]
    BY <1>2 DEF Firm!proposeChange, cleaned
  <2> HIDE DEF e
  <2>4. firmProp' \in [Proposal -> Firm!ProposalRow]
    BY <2>2, <2>3 DEF Firm!TypeOK
  <2> QED BY <1>2, <2>4 DEF Firm!TypeOK, Firm!proposeChange
<1> QED BY <1>1, <1>2 DEF Firm!Contribute

LEMMA FirmNextTypes == Firm!TypeOK /\ [Firm!Next]_(Firm!vars) => Firm!TypeOK'
<1>1. Firm!TypeOK /\ UNCHANGED Firm!vars => Firm!TypeOK'
  BY DEF Firm!TypeOK, Firm!vars
<1> QED BY <1>1, FirmContributionTyped, FirmDecisionTyped, FirmWorkTyped DEF Firm!Next

----------------------------------------------------------------------------
(* The partner's values stay masked: what a proposal kept and the record   *)
(* of the marks it removed come from one read of the firm.                 *)

\* What an edit keeps of the partner's is on the record of its marks, or,
\* when there is none, of a firm the partner is known to have touched.
FirmKeptIsMarked(e) ==
    \A f \in Field :
        /\ e.changes[f] \notin PartnerValue
        /\ e.previous[f] \in PartnerValue =>
             IF e.cleared.recorded THEN f \in e.cleared.fields ELSE firmKey

\* What a decision read of the firm, and of the marks on record, still is so.
FirmReadIsCurrent(r) ==
    r.pc = "read" => r.row.marks = firm.marks /\ r.prop.cleared = firmProp[r.proposal].cleared

\* What the worker writes is of its source, over the firm as it read it.
FirmWorkIsSupplied ==
    /\ firmIngest.pc = "written" => firmIngest.data = firm.val
    /\ firmIngest.pc = "read" => firmIngest.row.marks = firm.marks
    /\ firmIngest.pc # "idle" =>
         \A f \in Firm!Keys(firmIngest.data) : firmIngest.data[f] \in Firm!Supplied(firmIngest.source)

FirmMasksInv ==
    /\ \A p \in Proposal : FirmKeptIsMarked(firmProp[p])
    /\ \A a \in Firm!Busy : FirmReadIsCurrent(firmReq[a])
    /\ FirmWorkIsSupplied
    /\ Firm!FirmPartnerValuesMasked

FirmInv == FirmSerialInv /\ Firm!TypeOK /\ FirmMasksInv

\* What the sources supply.
LEMMA FirmSupplies ==
    /\ Firm!Supplied("PARTNER") = PartnerValue \cup {Blank}
    /\ Firm!Supplied("PUBLIC") = Value \ PartnerValue
    /\ \A s \in Firm!Source : s = "PARTNER" \/ s = "PUBLIC"
BY DEF Firm!Supplied, Firm!Source

LEMMA FirmInitMasks == Firm!Init => FirmMasksInv
<1> SUFFICES ASSUME Firm!Init PROVE FirmMasksInv
  OBVIOUS
<1>1. Firm!Busy = {} /\ firmIngest.pc = "idle"
  BY FirmColumns DEF Firm!Init, Firm!Busy
<1>2. FirmKeptIsMarked(Firm!NoEdit)
  BY ValueAssumption DEF FirmKeptIsMarked, Firm!NoEdit, Firm!NoChanges
<1>3. (\A p \in Proposal : FirmKeptIsMarked(firmProp[p]))
      /\ \A f \in Field : firm.val[f] \in PartnerValue => f \in firm.marks
  <2>1. CASE Firm!CreatedFirm
    <3>1. PICK v \in [Field -> Firm!Supplied(owner)] :
            firm = [val |-> v, partnerOnly |-> firmKey,
                    marks |-> IF firmKey THEN {f \in Field : v[f] # Blank} ELSE {}]
      BY <2>1 DEF Firm!CreatedFirm
    <3>2. (firmKey <=> owner = "PARTNER") /\ (owner = "PARTNER" \/ owner = "PUBLIC")
      BY <2>1, FirmSupplies DEF Firm!CreatedFirm, Firm!Init
    <3>3. \A f \in Field : v[f] \in PartnerValue => v[f] # Blank /\ owner = "PARTNER"
      BY <3>2, FirmSupplies, ValueAssumption
    <3> QED BY <1>2, <2>1, <3>1, <3>2, <3>3 DEF Firm!CreatedFirm
  <2>2. ASSUME NEW p \in Proposal, NEW g \in Field, NEW old \in Value, NEW new \in Value,
               Firm!LegacyApproved(p, g, old, new)
        PROVE  (\A q \in Proposal : FirmKeptIsMarked(firmProp[q]))
               /\ \A f \in Field : firm.val[f] \in PartnerValue => f \in firm.marks
    <3> DEFINE c == [Firm!NoChanges EXCEPT ![g] = new]
               o == [Firm!NoChanges EXCEPT ![g] = old]
               e == [status |-> "APPROVED", changes |-> c, previous |-> o, cleared |-> Firm!NotRecorded]
    <3>1. /\ new \notin PartnerValue /\ firmKey = (old \in PartnerValue)
          /\ firm = [val |-> [Firm!NoRow.val EXCEPT ![g] = new], marks |-> {}, partnerOnly |-> FALSE]
          /\ firmProp[p] = e /\ \A q \in Proposal \ {p} : firmProp[q] = Firm!NoEdit
      BY <2>2 DEF Firm!LegacyApproved
    <3>2. \A f \in Field : /\ c[f] = IF f = g THEN new ELSE Unset
                           /\ o[f] = IF f = g THEN old ELSE Unset
      BY DEF Firm!NoChanges
    <3>3. e.changes = c /\ e.previous = o /\ ~ e.cleared.recorded
      BY DEF Firm!NotRecorded
    <3> HIDE DEF c, o, e
    <3>4. FirmKeptIsMarked(e)
      BY <3>1, <3>2, <3>3, ValueAssumption DEF FirmKeptIsMarked
    <3>5. \A f \in Field : firm.val[f] \notin PartnerValue
      BY <3>1, ValueAssumption DEF Firm!NoRow
    <3> QED BY <1>2, <3>1, <3>4, <3>5
  <2> QED BY <2>1, <2>2 DEF Firm!Init
<1> QED BY <1>1, <1>3 DEF FirmMasksInv, FirmWorkIsSupplied, Firm!FirmPartnerValuesMasked

\* A decision that ends, on proposal p, which stays marked.
LEMMA FirmDecisionMasks ==
    ASSUME FirmInv, NEW a \in Admin, firmReq[a].pc # "idle", firmIngest' = firmIngest, firmKey' = firmKey,
           firmReq' = [firmReq EXCEPT ![a] = Firm!IdleRequest],
           \A q \in Proposal : /\ firmProp'[q].changes = firmProp[q].changes
                               /\ \/ /\ firmProp'[q].previous = firmProp[q].previous
                                     /\ firmProp'[q].cleared = firmProp[q].cleared
                                  \/ FirmKeptIsMarked(firmProp'[q]),
           \A f \in Field : firm'.val[f] \in PartnerValue => f \in firm'.marks
    PROVE  FirmMasksInv'
<1>1. firmIngest.pc = "idle" /\ Firm!Busy' = {}
  BY FirmOnlyBusy, FirmDecided DEF FirmInv
<1>2. ASSUME NEW q \in Proposal PROVE FirmKeptIsMarked(firmProp[q])'
  <2>1. PICK e : e = firmProp'[q]
    OBVIOUS
  <2>2. FirmKeptIsMarked(e)
    BY <2>1 DEF FirmInv, FirmMasksInv, FirmKeptIsMarked
  <2> QED BY <2>1, <2>2 DEF FirmKeptIsMarked
<1> QED BY <1>1, <1>2 DEF FirmMasksInv, FirmWorkIsSupplied, Firm!FirmPartnerValuesMasked

\* An approval: the record of the marks is of the values it keeps.
LEMMA FirmApprovalMasks ==
    ASSUME FirmInv, NEW a \in Admin, Firm!applyInvestorProposal(a)
    PROVE  FirmMasksInv'
<1> DEFINE r == firmReq[a]
           p == r.proposal
           fs == Firm!Keys(r.prop.changes)
           kept == Firm!Previous(r.row, r.prop.changes)
           cleared == Firm!ClearedMarks(r.row.marks, fs)
           marks == IF r.row.marks \cap fs = {} THEN firm.marks
                    ELSE Firm!WithoutPartnerFields(r.row.marks, fs)
           val == Firm!Overlay(r.prop.changes, firm.val)
<1>1. r.pc = "read" /\ p \in Proposal
  BY DEF FirmInv, Firm!TypeOK, Firm!applyInvestorProposal
<1>2. /\ r.row.val = firm.val /\ r.prop.changes = firmProp[p].changes /\ r.row.marks = firm.marks
      /\ FirmKeptIsMarked(firmProp[p]) /\ firmIngest.pc = "idle"
  BY <1>1, FirmOnlyBusy DEF FirmInv, FirmMasksInv, FirmKnows, FirmReadIsCurrent, Firm!Busy
<1>3. \A f \in Field : firm.val[f] \in PartnerValue => f \in firm.marks
  BY <1>2 DEF FirmInv, FirmMasksInv, Firm!FirmPartnerValuesMasked
<1>4. /\ \A f \in Field : val[f] = IF f \in fs THEN r.prop.changes[f] ELSE firm.val[f]
      /\ \A f \in Field : kept[f] = IF f \in fs THEN firm.val[f] ELSE Unset
      /\ marks = firm.marks \ fs
      /\ cleared.recorded /\ cleared.fields = firm.marks \cap fs
  BY <1>2 DEF Firm!Overlay, Firm!Previous, Firm!Keys, Firm!WithoutPartnerFields, Firm!ClearedMarks
<1>5. \A f \in Field : firmProp[p].changes[f] \notin PartnerValue
  BY <1>2 DEF FirmKeptIsMarked
<1>6. /\ firm' = [firm EXCEPT !.val = val, !.marks = marks]
      /\ firmProp' = [firmProp EXCEPT ![p].status = "APPROVED", ![p].previous = kept, ![p].cleared = cleared]
      /\ firmReq' = [firmReq EXCEPT ![a] = Firm!IdleRequest]
      /\ firmKey' = firmKey /\ firmIngest' = firmIngest
  BY DEF Firm!applyInvestorProposal
<1> HIDE DEF val, marks, kept, cleared, p
<1>7. /\ firm'.val = val /\ firm'.marks = marks
  BY <1>6 DEF FirmInv, Firm!TypeOK, Firm!Entity
<1>8. /\ firmProp'[p].changes = firmProp[p].changes /\ firmProp'[p].previous = kept /\ firmProp'[p].cleared = cleared
      /\ \A q \in Proposal \ {p} : firmProp'[q] = firmProp[q]
  BY <1>1, <1>6 DEF FirmInv, Firm!TypeOK, Firm!ProposalRow
<1>9. FirmKeptIsMarked(firmProp'[p])
  <2>1. PICK e : e = firmProp'[p]
    OBVIOUS
  <2>2. FirmKeptIsMarked(e)
    BY <2>1, <1>3, <1>4, <1>5, <1>8, ValueAssumption DEF FirmKeptIsMarked
  <2> QED BY <2>1, <2>2
<1>10. \A f \in Field : firm'.val[f] \in PartnerValue => f \in firm'.marks
  BY <1>2, <1>3, <1>4, <1>5, <1>7
<1>11. \A q \in Proposal : /\ firmProp'[q].changes = firmProp[q].changes
                           /\ \/ /\ firmProp'[q].previous = firmProp[q].previous
                                 /\ firmProp'[q].cleared = firmProp[q].cleared
                              \/ FirmKeptIsMarked(firmProp'[q])
  BY <1>8, <1>9
<1> QED BY <1>1, <1>6, <1>10, <1>11, FirmDecisionMasks

\* A retraction: a value of the partner's goes back with its mark.
LEMMA FirmRetractionMasks ==
    ASSUME FirmInv, NEW a \in Admin, Firm!revertInvestorProposal(a)
    PROVE  FirmMasksInv'
<1> DEFINE r == firmReq[a]
           p == r.proposal
           back == Firm!Restored(r.prop, r.row.val)
           mark == Firm!MarksToRestore(r.prop.cleared, back, Firm!TouchedByPartner(r.row.partnerOnly))
           marks == IF mark \subseteq r.row.marks THEN firm.marks
                    ELSE Firm!WithPartnerFields(r.row.marks, mark)
           val == Firm!Overlay(back, firm.val)
<1>1. r.pc = "read" /\ p \in Proposal
  BY DEF FirmInv, Firm!TypeOK, Firm!revertInvestorProposal
<1>2. /\ r.row.val = firm.val /\ r.row.marks = firm.marks
      /\ r.prop.previous = firmProp[p].previous /\ r.prop.cleared = firmProp[p].cleared
      /\ FirmKeptIsMarked(firmProp[p]) /\ firmIngest.pc = "idle"
  BY <1>1, FirmOnlyBusy DEF FirmInv, FirmMasksInv, FirmKnows, FirmReadIsCurrent, Firm!Busy
<1>3. \A f \in Field : firm.val[f] \in PartnerValue => f \in firm.marks
  BY <1>2 DEF FirmInv, FirmMasksInv, Firm!FirmPartnerValuesMasked
<1>4. \A f \in Field : val[f] = IF back[f] = Unset THEN firm.val[f] ELSE back[f]
  BY DEF Firm!Overlay
<1>5. \A f \in Field : back[f] # Unset => back[f] = firmProp[p].previous[f]
  BY <1>2 DEF Firm!Restored
<1>6. firm.marks \subseteq marks /\ mark \subseteq marks
  BY <1>2 DEF Firm!WithPartnerFields
<1>7. ASSUME NEW f \in Field, val[f] \in PartnerValue PROVE f \in marks
  <2>1. CASE back[f] = Unset
    BY <1>3, <1>4, <1>6, <1>7, <2>1
  <2>2. CASE back[f] # Unset
    <3>1. back[f] \in PartnerValue /\ firmProp[p].previous[f] \in PartnerValue /\ back[f] # Blank
      BY <1>4, <1>5, <1>7, <2>2, ValueAssumption
    <3>2. IF r.prop.cleared.recorded THEN f \in r.prop.cleared.fields ELSE firmKey
      BY <1>2, <3>1 DEF FirmKeptIsMarked
    <3>3. f \in mark
      BY <2>2, <3>1, <3>2 DEF Firm!MarksToRestore, Firm!Keys, Firm!TouchedByPartner
    <3> QED BY <1>6, <3>3
  <2> QED BY <2>1, <2>2
<1>8. /\ firm' = [firm EXCEPT !.val = val, !.marks = marks]
      /\ firmProp' = [firmProp EXCEPT ![p].status = "REJECTED"]
      /\ firmReq' = [firmReq EXCEPT ![a] = Firm!IdleRequest]
      /\ firmKey' = firmKey /\ firmIngest' = firmIngest
  BY DEF Firm!revertInvestorProposal
<1> HIDE DEF val, marks, p
<1>9. /\ firm'.val = val /\ firm'.marks = marks
  BY <1>8 DEF FirmInv, Firm!TypeOK, Firm!Entity
<1>10. \A q \in Proposal : /\ firmProp'[q].changes = firmProp[q].changes
                           /\ firmProp'[q].previous = firmProp[q].previous
                           /\ firmProp'[q].cleared = firmProp[q].cleared
  BY <1>1, <1>8 DEF FirmInv, Firm!TypeOK, Firm!ProposalRow
<1> QED BY <1>1, <1>7, <1>8, <1>9, <1>10, FirmDecisionMasks

\* Steps that leave the firm alone, and of the proposals what is kept.
LEMMA FirmReadMasks ==
    ASSUME FirmInv, NEW a \in Admin, NEW r, firmReq' = [firmReq EXCEPT ![a] = r],
           FirmReadIsCurrent(r), UNCHANGED <<firm, firmKey, firmProp, firmIngest>>
    PROVE  FirmMasksInv'
<1>1. \A b \in Admin : firmReq'[b] = IF b = a THEN r ELSE firmReq[b]
  BY DEF FirmInv, Firm!TypeOK
<1>2. ASSUME NEW b \in Firm!Busy' PROVE FirmReadIsCurrent(firmReq[b])'
  <2>1. b \in Admin /\ (b # a => b \in Firm!Busy)
    BY <1>1 DEF Firm!Busy
  <2>2. PICK q : q = firmReq'[b]
    OBVIOUS
  <2>3. FirmReadIsCurrent(q)
    BY <1>1, <2>1, <2>2 DEF FirmInv, FirmMasksInv
  <2> QED BY <2>2, <2>3 DEF FirmReadIsCurrent
<1>3. ASSUME NEW q \in Proposal PROVE FirmKeptIsMarked(firmProp[q])'
  BY DEF FirmInv, FirmMasksInv, FirmKeptIsMarked
<1> QED BY <1>2, <1>3 DEF FirmInv, FirmMasksInv, FirmWorkIsSupplied, Firm!FirmPartnerValuesMasked

LEMMA FirmModerationMasks ==
    ASSUME FirmInv, NEW a \in Admin, Firm!Moderate(a)
    PROVE  FirmMasksInv'
<1>1. ASSUME NEW p \in Proposal, NEW s \in {"APPROVED", "REJECTED"}, Firm!loadSubmissionNotice(a, p, s)
      PROVE  FirmMasksInv'
  <2> DEFINE late == (s = "REJECTED" /\ firmProp[p].status = "APPROVED")
             r == [Firm!IdleRequest EXCEPT !.pc = "noticed", !.proposal = p, !.status = s, !.retracting = late]
  <2>1. firmReq' = [firmReq EXCEPT ![a] = r] /\ UNCHANGED <<firm, firmKey, firmProp, firmIngest>>
    BY <1>1 DEF Firm!loadSubmissionNotice
  <2>2. r.pc = "noticed"
    BY DEF Firm!IdleRequest
  <2> HIDE DEF r
  <2> QED BY <2>1, <2>2, FirmReadMasks DEF FirmReadIsCurrent
<1>2. ASSUME Firm!readProposal(a) PROVE FirmMasksInv'
  <2> DEFINE old == firmReq[a]
             r == [old EXCEPT !.pc = "read", !.row = firm, !.prop = firmProp[old.proposal]]
  <2>1. firmReq' = [firmReq EXCEPT ![a] = r] /\ UNCHANGED <<firm, firmKey, firmProp, firmIngest>>
    BY <1>2 DEF Firm!readProposal
  <2>2. r.row = firm /\ r.prop = firmProp[r.proposal]
    BY DEF FirmInv, Firm!TypeOK, Firm!Request
  <2> HIDE DEF r
  <2> QED BY <2>1, <2>2, FirmReadMasks DEF FirmReadIsCurrent
<1>3. ASSUME Firm!reject(a) PROVE FirmMasksInv'
  <2>1. firmReq[a].pc = "noticed" /\ firmReq[a].proposal \in Proposal /\ firmIngest.pc = "idle"
    BY <1>3, FirmOnlyBusy DEF FirmInv, Firm!TypeOK, Firm!reject
  <2>2. \A q \in Proposal : /\ firmProp'[q].changes = firmProp[q].changes
                            /\ firmProp'[q].previous = firmProp[q].previous
                            /\ firmProp'[q].cleared = firmProp[q].cleared
    BY <1>3, <2>1 DEF FirmInv, Firm!TypeOK, Firm!ProposalRow, Firm!reject
  <2>3. \A f \in Field : firm'.val[f] \in PartnerValue => f \in firm'.marks
    BY <1>3, <2>1 DEF FirmInv, FirmMasksInv, Firm!FirmPartnerValuesMasked, Firm!reject
  <2> QED BY <1>3, <2>1, <2>2, <2>3, FirmDecisionMasks DEF Firm!reject
<1> QED BY <1>1, <1>2, <1>3, FirmApprovalMasks, FirmRetractionMasks DEF Firm!Moderate

LEMMA FirmContributionMasks ==
    ASSUME FirmInv, Firm!Contribute
    PROVE  FirmMasksInv'
<1>1. ASSUME NEW p \in Proposal, NEW e,
             firmProp' = [firmProp EXCEPT ![p] = e], FirmKeptIsMarked(e),
             firmProp[p].status = "NONE" \/ e.cleared = firmProp[p].cleared,
             UNCHANGED <<firm, firmKey, firmReq, firmIngest>>
      PROVE  FirmMasksInv'
  <2>1. \A q \in Proposal : firmProp'[q] = IF q = p THEN e ELSE firmProp[q]
    BY <1>1 DEF FirmInv, Firm!TypeOK
  <2>2. ASSUME NEW q \in Proposal PROVE FirmKeptIsMarked(firmProp[q])'
    <3>1. PICK x : x = firmProp'[q]
      OBVIOUS
    <3>2. FirmKeptIsMarked(x)
      BY <1>1, <2>1, <3>1 DEF FirmInv, FirmMasksInv
    <3> QED BY <1>1, <3>1, <3>2 DEF FirmKeptIsMarked
  <2>3. ASSUME NEW a \in Firm!Busy' PROVE FirmReadIsCurrent(firmReq[a])'
    <3>1. a \in Firm!Busy /\ FirmReadIsCurrent(firmReq[a]) /\ FirmKnows(firmReq[a])
          /\ firmReq[a].proposal \in Proposal
      BY <1>1 DEF FirmInv, FirmMasksInv, Firm!Busy, FirmSerialInv, FirmDecisionsInv, Firm!TypeOK
    <3>2. firmProp'[firmReq[a].proposal].cleared = firmProp[firmReq[a].proposal].cleared
      BY <1>1, <2>1, <3>1 DEF FirmKnows
    <3> QED BY <1>1, <3>1, <3>2 DEF FirmReadIsCurrent
  <2> QED BY <1>1, <2>2, <2>3 DEF FirmInv, FirmMasksInv, FirmWorkIsSupplied, Firm!FirmPartnerValuesMasked
<1>2. ASSUME NEW p \in Proposal, Firm!rejectPending(p) PROVE FirmMasksInv'
  <2> DEFINE e == [firmProp[p] EXCEPT !.status = "REJECTED"]
  <2>1. firmProp[p] \in Firm!ProposalRow /\ FirmKeptIsMarked(firmProp[p])
    BY DEF FirmInv, FirmMasksInv, Firm!TypeOK
  <2>2. e.changes = firmProp[p].changes /\ e.previous = firmProp[p].previous /\ e.cleared = firmProp[p].cleared
    BY <2>1 DEF Firm!ProposalRow
  <2>3. firmProp' = [firmProp EXCEPT ![p] = e]
    BY <1>2 DEF Firm!rejectPending
  <2> HIDE DEF e
  <2>4. FirmKeptIsMarked(e)
    BY <2>1, <2>2 DEF FirmKeptIsMarked
  <2> QED BY <1>1, <1>2, <2>2, <2>3, <2>4 DEF Firm!rejectPending
<1>3. ASSUME NEW p \in Proposal, NEW c \in Firm!Changes, \A f \in Field : c[f] \notin PartnerValue,
             Firm!proposeChange(p, c)
      PROVE  FirmMasksInv'
  <2> DEFINE cleaned == [f \in Field |-> IF c[f] = firm.val[f] THEN Unset ELSE c[f]]
             e == [Firm!NoEdit EXCEPT !.status = "PENDING", !.changes = cleaned]
  <2>1. e.changes = cleaned /\ e.previous = Firm!NoChanges
    BY DEF Firm!NoEdit
  <2>2. firmProp[p].status = "NONE" /\ firmProp' = [firmProp EXCEPT ![p] = e]
    BY <1>3 DEF Firm!proposeChange
  <2> HIDE DEF e
  <2>3. FirmKeptIsMarked(e)
    BY <1>3, <2>1, ValueAssumption DEF FirmKeptIsMarked, Firm!NoChanges
  <2> QED BY <1>1, <1>3, <2>2, <2>3 DEF Firm!proposeChange
<1> QED BY <1>2, <1>3 DEF Firm!Contribute

\* The worker: what it wrote is marked by the time its write is complete.
LEMMA FirmWorkMasks ==
    ASSUME FirmInv, Firm!Ingest, Firm!Busy = {} \/ firm'.marks = firm.marks
    PROVE  FirmMasksInv'
<1>0. /\ firm \in Firm!Entity /\ firmIngest \in Firm!IngestWrite /\ owner \in Firm!Source
      /\ \A p \in Proposal : FirmKeptIsMarked(firmProp[p])
      /\ \A a \in Firm!Busy : FirmReadIsCurrent(firmReq[a])
      /\ FirmWorkIsSupplied /\ Firm!FirmPartnerValuesMasked
  BY DEF FirmInv, FirmMasksInv, Firm!TypeOK
<1>1. firmProp' = firmProp /\ firmReq' = firmReq /\ (firmKey => firmKey')
  <2>1. CASE Firm!enrichInvestor
    BY <2>1, Zenon DEF Firm!enrichInvestor
  <2>2. CASE UNCHANGED <<firmKey, firmProp, firmReq>>
    BY <2>2
  <2> QED
    BY <2>1, <2>2 DEF Firm!Ingest, Firm!upsertInvestorFirm, Firm!syncPartnerFields, Firm!readInvestor, Firm!claimInvestor
<1>2. \A p \in Proposal : FirmKeptIsMarked(firmProp[p])'
  BY <1>0, <1>1 DEF FirmKeptIsMarked
<1>3. \A a \in Firm!Busy' : FirmReadIsCurrent(firmReq[a])'
  BY <1>0, <1>1 DEF Firm!Busy, FirmReadIsCurrent
<1>4. FirmWorkIsSupplied' /\ Firm!FirmPartnerValuesMasked'
  <2>1. ASSUME NEW v \in [Field -> Firm!Supplied(owner)], Firm!upsertInvestorFirm(v)
        PROVE  FirmWorkIsSupplied' /\ Firm!FirmPartnerValuesMasked'
    <3>1. firmIngest' = [Firm!IdleIngest EXCEPT !.pc = "written", !.source = owner, !.data = v]
          /\ firm' = [firm EXCEPT !.val = v]
      BY <2>1 DEF Firm!upsertInvestorFirm
    <3>2. firmIngest'.pc = "written" /\ firmIngest'.source = owner /\ firmIngest'.data = v /\ firm'.val = v
      BY <1>0, <3>1 DEF Firm!IdleIngest, Firm!Entity
    <3>3. owner' = owner /\ \A f \in Firm!Keys(v) : v[f] \in Firm!Supplied(owner)
      BY <2>1 DEF Firm!upsertInvestorFirm, Firm!Keys
    <3> QED BY <3>2, <3>3 DEF FirmWorkIsSupplied, Firm!FirmPartnerValuesMasked
  <2>2. ASSUME Firm!syncPartnerFields PROVE FirmWorkIsSupplied' /\ Firm!FirmPartnerValuesMasked'
    <3>1. firmIngest.pc = "written" /\ firmIngest'.pc = "idle" /\ firm'.val = firm.val
          /\ firm'.marks = Firm!SyncedMarks(firm.marks, firmIngest.source, firmIngest.data)
      BY <1>0, <2>2, FirmColumns DEF Firm!syncPartnerFields, Firm!Entity
    <3>2. ASSUME NEW f \in Field, firm.val[f] \in PartnerValue PROVE f \in firm'.marks
      <4>1. firmIngest.data[f] = firm.val[f] /\ firm.val[f] # Unset /\ firm.val[f] # Blank
        BY <1>0, <3>1, <3>2, ValueAssumption DEF FirmWorkIsSupplied
      <4>2. firm.val[f] \in Firm!Supplied(firmIngest.source) /\ firmIngest.source \in Firm!Source
        BY <1>0, <3>1, <4>1 DEF FirmWorkIsSupplied, Firm!Keys, Firm!IngestWrite
      <4>3. firmIngest.source = "PARTNER"
        BY <3>2, <4>2, FirmSupplies
      <4> QED BY <3>1, <4>1, <4>3 DEF Firm!SyncedMarks
    <3> QED BY <3>1, <3>2 DEF FirmWorkIsSupplied, Firm!FirmPartnerValuesMasked
  <2>3. ASSUME NEW s \in Firm!Source, NEW c \in Firm!Changes, Firm!readInvestor(s, c)
        PROVE  FirmWorkIsSupplied' /\ Firm!FirmPartnerValuesMasked'
    <3>1. firmIngest' = [pc |-> "read", source |-> s, data |-> c, row |-> firm] /\ firm' = firm
          /\ firmIngest.pc = "idle" /\ owner' = owner
          /\ \A f \in Firm!Keys(c) : c[f] \in Firm!Supplied(s)
      BY <2>3 DEF Firm!readInvestor
    <3> QED BY <1>0, <3>1 DEF FirmWorkIsSupplied, Firm!FirmPartnerValuesMasked
  <2>4. ASSUME Firm!enrichInvestor PROVE FirmWorkIsSupplied' /\ Firm!FirmPartnerValuesMasked'
    <3> DEFINE fs == Firm!Keys(firmIngest.data)
    <3>1. /\ firmIngest.pc = "read" /\ firmIngest'.pc = "idle"
          /\ firm'.val = Firm!Overlay(firmIngest.data, firm.val)
          /\ firm'.marks = Firm!ProvenanceMarks(firmIngest.row, firmIngest.source, fs, firm.marks)
      BY <2>4, FirmColumns DEF Firm!enrichInvestor
    <3>2. /\ firmIngest.row.marks = firm.marks /\ firmIngest.source \in Firm!Source
          /\ \A f \in fs : firmIngest.data[f] \in Firm!Supplied(firmIngest.source)
          /\ \A f \in Field : firm.val[f] \in PartnerValue => f \in firm.marks
      BY <1>0, <3>1 DEF FirmWorkIsSupplied, Firm!FirmPartnerValuesMasked, Firm!IngestWrite
    <3>3. \A f \in Field : firm'.val[f] = IF f \in fs THEN firmIngest.data[f] ELSE firm.val[f]
      BY <3>1 DEF Firm!Overlay, Firm!Keys
    <3>4. CASE firmIngest.source = "PARTNER"
      <4>1. firm'.marks = firm.marks \cup fs
        BY <3>1, <3>2, <3>4 DEF Firm!ProvenanceMarks
      <4> QED BY <3>1, <3>2, <3>3, <4>1 DEF FirmWorkIsSupplied, Firm!FirmPartnerValuesMasked
    <3>5. CASE firmIngest.source = "PUBLIC"
      <4>1. firm'.marks = firm.marks \ fs
        BY <3>1, <3>2, <3>5 DEF Firm!ProvenanceMarks
      <4>2. \A f \in fs : firmIngest.data[f] \notin PartnerValue
        BY <3>2, <3>5, FirmSupplies
      <4> QED BY <3>1, <3>2, <3>3, <4>1, <4>2 DEF FirmWorkIsSupplied, Firm!FirmPartnerValuesMasked
    <3> QED BY <3>2, <3>4, <3>5, FirmSupplies
  <2>5. ASSUME Firm!claimInvestor PROVE FirmWorkIsSupplied' /\ Firm!FirmPartnerValuesMasked'
    <3>1. firmIngest.pc = "idle" /\ firmIngest' = firmIngest /\ firm'.val = firm.val /\ firm'.marks = firm.marks
      BY <1>0, <2>5 DEF Firm!claimInvestor, Firm!Entity
    <3> QED BY <1>0, <3>1 DEF FirmWorkIsSupplied, Firm!FirmPartnerValuesMasked
  <2> QED BY <2>1, <2>2, <2>3, <2>4, <2>5 DEF Firm!Ingest
<1> QED BY <1>2, <1>3, <1>4 DEF FirmMasksInv

LEMMA FirmNextMasks ==
    FirmInv /\ [Firm!Next /\ Firm!OneAtATime']_(Firm!vars) => FirmInv'
<1> SUFFICES ASSUME FirmInv, [Firm!Next /\ Firm!OneAtATime']_(Firm!vars) PROVE FirmInv'
  OBVIOUS
<1>1. FirmSerialInv' /\ Firm!TypeOK'
  BY FirmNextSerial, FirmNextTypes DEF FirmInv
<1>2. CASE UNCHANGED Firm!vars
  <2>1. firm' = firm /\ firmKey' = firmKey /\ firmProp' = firmProp /\ firmReq' = firmReq /\ firmIngest' = firmIngest
    BY <1>2 DEF Firm!vars
  <2>2. ASSUME NEW q \in Proposal PROVE FirmKeptIsMarked(firmProp[q])'
    BY <2>1 DEF FirmInv, FirmMasksInv, FirmKeptIsMarked
  <2>3. ASSUME NEW a \in Firm!Busy' PROVE FirmReadIsCurrent(firmReq[a])'
    BY <2>1 DEF FirmInv, FirmMasksInv, FirmReadIsCurrent, Firm!Busy
  <2>4. FirmMasksInv'
    BY <2>1, <2>2, <2>3 DEF FirmInv, FirmMasksInv, FirmWorkIsSupplied, Firm!FirmPartnerValuesMasked
  <2> QED BY <1>1, <2>4 DEF FirmInv
<1>3. ASSUME Firm!OneAtATime', Firm!Ingest PROVE FirmMasksInv'
  <2>1. Firm!Busy = {} \/ firm'.marks = firm.marks
    <3>1. firmReq' = firmReq
      BY <1>3 DEF Firm!Ingest, Firm!upsertInvestorFirm, Firm!syncPartnerFields, Firm!readInvestor,
                  Firm!enrichInvestor, Firm!claimInvestor
    <3>2. CASE Firm!syncPartnerFields \/ Firm!enrichInvestor
      BY <3>2 DEF Firm!syncPartnerFields, Firm!enrichInvestor, FirmInv, FirmSerialInv, Firm!OneAtATime
    <3>3. ASSUME NEW v \in [Field -> Firm!Supplied(owner)], Firm!upsertInvestorFirm(v)
          PROVE  firm'.marks = firm.marks
      BY <3>3 DEF Firm!upsertInvestorFirm, FirmInv, Firm!TypeOK, Firm!Entity
    <3>4. ASSUME NEW s \in Firm!Source, NEW c \in Firm!Changes, Firm!readInvestor(s, c)
          PROVE  firm'.marks = firm.marks
      BY <3>4 DEF Firm!readInvestor
    <3>5. CASE Firm!claimInvestor
      BY <3>5 DEF Firm!claimInvestor, FirmInv, Firm!TypeOK, Firm!Entity
    <3> QED BY <1>3, <3>2, <3>3, <3>4, <3>5 DEF Firm!Ingest
  <2> QED BY <1>3, <2>1, FirmWorkMasks
<1> QED BY <1>1, <1>2, <1>3, FirmContributionMasks, FirmModerationMasks DEF Firm!Next, FirmInv

\* A value only the partner supplied is masked whenever a firm shows it, once
\* the write that brought it is complete, retractions and edits approved
\* before their marks were recorded included (revertInvestorProposal).
THEOREM FirmMasksHold == Firm!SerialSpec => [](Firm!TypeOK /\ Firm!FirmPartnerValuesMasked)
<1>1. Firm!Init => FirmInv
  BY FirmInitSerial, FirmInitTypes, FirmInitMasks DEF FirmInv
<1>2. FirmInv /\ [Firm!Next /\ Firm!OneAtATime']_(Firm!vars) => FirmInv'
  BY FirmNextMasks
<1>3. FirmInv => Firm!TypeOK /\ Firm!FirmPartnerValuesMasked
  BY DEF FirmInv, FirmMasksInv
<1> QED BY <1>1, <1>2, <1>3, PTL DEF Firm!SerialSpec

----------------------------------------------------------------------------
(* The partner's values stay masked, but for a field of an edit that was   *)
(* approved twice: the record of the cleared marks is of the last approval *)
(* and the timeline goes back to the first.                                *)

\* An edit of the field was approved more than once.
Twice(f) == \E p \in Proposal : \E i, j \in Mine(p, f) : i # j

\* What an edit replaced of the partner's is on the record of its marks, or,
\* when there is none, of a company the partner is known to have touched.
KeptIsMarked(p) ==
    \A f \in Field :
        /\ prop[p].changes[f] \notin PartnerValue
        /\ \A i \in Mine(p, f) :
             timeline[f][i].before \in PartnerValue =>
                 \/ Twice(f)
                 \/ IF prop[p].cleared.recorded THEN f \in prop[p].cleared.fields ELSE partnerKey

MaskedOrTwice == \A f \in Field : company.val[f] \in PartnerValue => f \in company.marks \/ Twice(f)

MasksInv ==
    /\ \A p \in Proposal : KeptIsMarked(p)
    /\ \A a \in Admin : req[a].pc \in {"read", "revisions"} =>
                            req[a].cleared = prop[req[a].proposal].cleared
    /\ ingest.pc = "read" =>
         \A f \in Keys(ingest.data) : ingest.data[f] \in Supplied(ingest.source)
    /\ MaskedOrTwice

\* Two entries are more than one.
LEMMA TwoEntries ==
    ASSUME TypeOK, NEW f \in Field, Twice(f)
    PROVE  \E p \in Proposal : Cardinality(Mine(p, f)) > 1
<1>1. PICK p \in Proposal : \E i, j \in Mine(p, f) : i # j
  BY DEF Twice
<1>2. PICK i, j \in Mine(p, f) : i # j
  BY <1>1
<1> DEFINE s == Mine(p, f)
<1>3. Len(timeline[f]) \in Nat /\ s \subseteq 1 .. Len(timeline[f])
  BY DEF TypeOK, Mine
<1>4. IsFiniteSet(s)
  <2>1. PICK n \in Nat : n = Len(timeline[f])
    BY <1>3
  <2>2. IsFiniteSet(1 .. n)
    BY <2>1, FS_Interval
  <2>3. s \in SUBSET (1 .. n)
    BY <1>3, <2>1
  <2> HIDE DEF s
  <2> QED BY <2>2, <2>3, FS_Subset
<1>5. i \in s /\ j \in s /\ i # j
  BY <1>2
<1> HIDE DEF s
<1>6. Cardinality({i}) = 1 /\ IsFiniteSet({i}) /\ Cardinality({i, j}) = 2
  <2>1. Cardinality({i}) = 1 /\ IsFiniteSet({i})
    BY FS_Singleton
  <2>2. {i, j} = {i} \cup {j} /\ j \notin {i}
    BY <1>5
  <2>3. Cardinality({i} \cup {j}) = 1 + 1
    BY <2>1, <2>2, FS_AddElement
  <2> QED BY <2>1, <2>2, <2>3
<1>7. Cardinality({i, j}) <= Cardinality(s) /\ Cardinality(s) \in Nat
  <2>1. {i, j} \subseteq s
    BY <1>5
  <2> QED BY <1>4, <2>1, FS_Subset, FS_CardinalityType
<1> QED BY <1>6, <1>7 DEF s

\* An approval adds one entry to each field of its diff.
LEMMA EntryAdded ==
    ASSUME TypeOK, NEW fs \in SUBSET Field, NEW before, NEW after, NEW p \in Proposal,
           \A g \in fs : before[g] \in Value /\ after[g] \in Value,
           NEW act, act = "UPDATE", timeline' = Record(timeline, fs, before, after, act, p),
           NEW f \in fs
    PROVE  \E i : /\ i \notin Mine(p, f) /\ Mine(p, f)' = Mine(p, f) \cup {i}
                  /\ timeline'[f][i].before = before[f]
                  /\ \A j \in Mine(p, f) : timeline'[f][j] = timeline[f][j]
<1> DEFINE tl == timeline[f]
           n == Len(tl)
           e == [before |-> before[f], after |-> after[f], action |-> act, proposal |-> p]
<1>1. tl \in Seq(Revision) /\ n \in Nat /\ DOMAIN tl = 1 .. n
  BY DEF TypeOK
<1>2. Mine(p, f) \in SUBSET (1 .. n)
  BY <1>1 DEF Mine
<1>3. timeline'[f] = Append(tl, e) /\ e \in Revision
  BY DEF Record, Revision
<1>4. e.before = before[f] /\ e.action = "UPDATE" /\ e.proposal = p
  OBVIOUS
<1> HIDE DEF e
<1>5. /\ DOMAIN timeline'[f] = 1 .. n + 1 /\ timeline'[f][n + 1] = e
      /\ \A i \in 1 .. n : timeline'[f][i] = timeline[f][i]
  BY <1>1, <1>3
<1> HIDE DEF tl, n
<1>6. Mine(p, f)' = Mine(p, f) \cup {n + 1}
  BY <1>1, <1>4, <1>5 DEF Mine, tl
<1>7. n + 1 \notin Mine(p, f)
  BY <1>1, <1>2
<1> QED BY <1>2, <1>4, <1>5, <1>6, <1>7

\* What a retraction puts back is what an entry of the edit replaced.
LEMMA RestoresAnEntry ==
    ASSUME TypeOK, NEW p \in Proposal, NEW f \in Field, NEW v, Restored(p, v)[f] # Unset
    PROVE  \E i \in Mine(p, f) : Restored(p, v)[f] = timeline[f][i].before
<1>1. Mine(p, f) # {} /\ Restored(p, v)[f] = Replaced(p, f).before
  BY DEF Restored
<1>2. Len(timeline[f]) \in Nat /\ Mine(p, f) \in SUBSET (1 .. Len(timeline[f]))
  BY DEF TypeOK, Mine
<1>3. Newest(Mine(p, f)) \in Mine(p, f)
  BY <1>1, <1>2, NewestExists
<1>4. Mine(p, f) \cap Real(f) # {} => Newest(Mine(p, f) \cap Real(f)) \in Mine(p, f)
  BY <1>2, NewestExists
<1> QED BY <1>1, <1>3, <1>4 DEF Replaced

LEMMA InitMasks == Init => MasksInv
<1> SUFFICES ASSUME Init PROVE (\A p \in Proposal : KeptIsMarked(p)) /\ MaskedOrTwice
  BY DEF Init, MasksInv, IdleRequest, IdleIngest
<1>1. NoRow.changes = NoChanges /\ \A f \in Field : NoChanges[f] \notin PartnerValue
  BY ValueAssumption DEF NoRow, NoChanges
<1>2. CASE CreatedCompany /\ prop = [q \in Proposal |-> NoRow] /\ timeline = [f \in Field |-> <<>>]
  <2>1. \A p \in Proposal, f \in Field : Mine(p, f) = {}
    BY <1>2 DEF Mine
  <2>2. PICK v \in [Field -> Value] :
           \/ /\ \A f \in Field : v[f] \notin PartnerValue
              /\ company = [val |-> v, marks |-> {}, partnerOnly |-> FALSE]
           \/ company = [val |-> v, marks |-> {f \in Field : v[f] # Blank}, partnerOnly |-> TRUE]
    BY <1>2 DEF CreatedCompany
  <2>3. MaskedOrTwice
    BY <2>2, ValueAssumption DEF MaskedOrTwice
  <2> QED BY <1>1, <1>2, <2>1, <2>3 DEF KeptIsMarked
<1>3. ASSUME NEW p \in Proposal, NEW g \in Field, NEW old \in Value, NEW new \in Value,
             NEW u \in Url \cup {None}, NEW by \in User, LegacyApproved(p, g, old, new, u, by)
      PROVE  (\A q \in Proposal : KeptIsMarked(q)) /\ MaskedOrTwice
  <2> DEFINE e == [before |-> old, after |-> new, action |-> "UPDATE", proposal |-> p]
             c == [NoChanges EXCEPT ![g] = new]
  <2>1. /\ timeline = [f \in Field |-> IF f = g THEN <<e>> ELSE <<>>]
        /\ \A q \in Proposal : q # p => prop[q] = NoRow
        /\ prop[p].changes = c /\ ~ prop[p].cleared.recorded
        /\ new \notin PartnerValue /\ partnerKey = (old \in PartnerValue)
        /\ company.val = [f \in Field |-> IF f = g THEN new ELSE Blank]
    BY <1>3 DEF LegacyApproved, NotRecorded
  <2>2. \A f \in Field : c[f] = IF f = g THEN new ELSE Unset
    BY DEF NoChanges
  <2>3. e.before = old
    OBVIOUS
  <2> HIDE DEF c, e
  <2>4. \A q \in Proposal : \A f \in Field : prop[q].changes[f] \notin PartnerValue
    BY <1>1, <2>1, <2>2, ValueAssumption
  <2>5. ASSUME NEW f \in Field, NEW i \in DOMAIN timeline[f]
        PROVE  timeline[f][i] = e /\ f = g
    BY <2>1
  <2>6. e.proposal = p
    BY DEF e
  <2>7. \A q \in Proposal, f \in Field : \A i \in Mine(q, f) : q = p /\ timeline[f][i].before = old
    BY <2>3, <2>5, <2>6 DEF Mine
  <2>8. MaskedOrTwice
    BY <2>1, ValueAssumption DEF MaskedOrTwice
  <2> QED BY <2>1, <2>4, <2>7, <2>8 DEF KeptIsMarked
<1> QED BY <1>2, <1>3 DEF Init

\* No entry is of another edit, and none of one that changes nothing there.
\* (Steps that add no entry of a proposal.)
LEMMA SameEntries ==
    ASSUME MasksInv, partnerKey => partnerKey',
           \A q \in Proposal : /\ prop'[q].changes = prop[q].changes \/ \A f \in Field : prop'[q].changes[f] \notin PartnerValue
                               /\ prop'[q].cleared = prop[q].cleared \/ \A f \in Field : Mine(q, f) = {},
           \A q \in Proposal, f \in Field :
              Mine(q, f)' = Mine(q, f) /\ \A i \in Mine(q, f) : timeline'[f][i] = timeline[f][i]
    PROVE  (\A p \in Proposal : KeptIsMarked(p)') /\ \A f \in Field : Twice(f)' <=> Twice(f)
<1>1. \A f \in Field : Twice(f)' <=> Twice(f)
  BY DEF Twice
<1>2. ASSUME NEW p \in Proposal, NEW f \in Field
      PROVE  /\ prop'[p].changes[f] \notin PartnerValue
             /\ \A i \in Mine(p, f)' :
                  timeline'[f][i].before \in PartnerValue =>
                     \/ Twice(f)'
                     \/ IF prop'[p].cleared.recorded THEN f \in prop'[p].cleared.fields ELSE partnerKey'
  <2>1. KeptIsMarked(p)
    BY DEF MasksInv
  <2>2. prop'[p].changes[f] \notin PartnerValue
    BY <2>1 DEF KeptIsMarked
  <2>3. ASSUME NEW i \in Mine(p, f), timeline[f][i].before \in PartnerValue
        PROVE  \/ Twice(f)
               \/ IF prop'[p].cleared.recorded THEN f \in prop'[p].cleared.fields ELSE partnerKey'
    BY <2>1, <2>3 DEF KeptIsMarked
  <2>4. Mine(p, f)' = Mine(p, f) /\ \A i \in Mine(p, f) : timeline'[f][i] = timeline[f][i]
    OBVIOUS
  <2> QED BY <1>1, <2>2, <2>3, <2>4
<1>3. ASSUME NEW p \in Proposal PROVE KeptIsMarked(p)'
  BY <1>2 DEF KeptIsMarked
<1> QED BY <1>1, <1>3

\* The approval: the marks it records are of the values it replaces.
LEMMA ApprovalMasks ==
    ASSUME SerialInv, MasksInv, NEW a \in Admin, applyProposal(a)
    PROVE  MasksInv'
<1>1. PICK p \in Proposal, c \in Changes : p = req[a].proposal /\ c = prop[p].changes
  BY RequestType DEF SerialInv, applyProposal
<1>2. req[a].row = company /\ req[a].pc = "read" /\ ingest.pc = "idle"
  BY OnlyBusy DEF applyProposal, SerialInv, ReadsInv
<1> DEFINE fs == Keys(c)
           marks == IF company.marks \cap fs = {} THEN company.marks
                    ELSE WithoutPartnerFields(company.marks, fs)
<1>3. /\ company'.val = Overlay(c, company.val) /\ company'.marks = marks
      /\ timeline' = Record(timeline, fs, company.val, c, "UPDATE", p)
      /\ prop' = [prop EXCEPT ![p].status = "APPROVED", ![p].cleared = ClearedMarks(company.marks, fs)]
      /\ req' = [req EXCEPT ![a] = IdleRequest] /\ partnerKey' = partnerKey /\ ingest' = ingest
  BY <1>1, <1>2 DEF applyProposal, SerialInv, TypeOK, Entity
<1>4. marks = company.marks \ fs
  BY DEF WithoutPartnerFields
<1>5. /\ \A q \in Proposal : prop'[q].changes = prop[q].changes
      /\ \A q \in Proposal \ {p} : prop'[q].cleared = prop[q].cleared
      /\ prop'[p].cleared.recorded /\ prop'[p].cleared.fields = company.marks \cap fs
  BY <1>3 DEF SerialInv, TypeOK, ProposalRow, ClearedMarks
<1>6. /\ fs \in SUBSET Field
      /\ \A f \in fs : company.val[f] \in Value /\ c[f] \in Value
  BY KeysValues DEF SerialInv, TypeOK, Entity
<1>7. /\ \A f \in Field : c[f] \notin PartnerValue
      /\ \A f \in Field : f \notin fs => c[f] = Unset /\ company'.val[f] = company.val[f]
      /\ \A f \in fs : company'.val[f] = c[f]
  BY <1>1, <1>3 DEF MasksInv, KeptIsMarked, Keys, Overlay
<1> HIDE DEF fs, marks
<1>8. ASSUME NEW q \in Proposal, NEW f \in Field, q # p \/ f \notin fs
      PROVE  Mine(q, f)' = Mine(q, f) /\ \A i \in Mine(q, f) : timeline'[f][i] = timeline[f][i]
  <2>0. PICK v : v = company.val
    OBVIOUS
  <2>1. TypeOK /\ p \in Proposal \cup {None} /\ "UPDATE" \in {"UPDATE", "RETRACT"}
    BY DEF SerialInv
  <2>2. PICK g \in SUBSET Field : g = fs
    BY <1>6
  <2>3. timeline' = Record(timeline, g, v, c, "UPDATE", p) /\ \A x \in g : v[x] \in Value /\ c[x] \in Value
    BY <1>3, <1>6, <2>0, <2>2
  <2>4. f \notin g \/ "UPDATE" # "UPDATE" \/ p # q
    BY <1>8, <2>2
  <2>6. PICK act : act = "UPDATE" /\ act \in {"UPDATE", "RETRACT"}
    OBVIOUS
  <2>7. timeline' = Record(timeline, g, v, c, act, p)
    BY <2>3, <2>6
  <2>8. \A x \in g : v[x] \in Value /\ c[x] \in Value
    BY <2>3
  <2>10. f \notin g \/ act # "UPDATE" \/ p # q
    BY <2>1, <2>4
  <2>9. /\ Mine(q, f)' = Mine(q, f) /\ Was(q, f)' = Was(q, f)
           /\ \A i \in Mine(q, f) : timeline'[f][i] = timeline[f][i]
    BY ONLY <1>8, <2>1, <2>2, <2>6, <2>7, <2>8, <2>10, OthersStay
  <2> QED BY <2>9
<1>9. ASSUME NEW f \in fs
      PROVE  \E i : /\ i \notin Mine(p, f) /\ Mine(p, f)' = Mine(p, f) \cup {i}
                    /\ timeline'[f][i].before = company.val[f]
                    /\ \A j \in Mine(p, f) : timeline'[f][j] = timeline[f][j]
  <2>1. TypeOK
    BY DEF SerialInv
  <2>0. PICK v : v = company.val
    OBVIOUS
  <2>2. PICK g \in SUBSET Field : g = fs
    BY <1>6
  <2>3. timeline' = Record(timeline, g, v, c, "UPDATE", p) /\ \A x \in g : v[x] \in Value /\ c[x] \in Value
    BY <1>3, <1>6, <2>0, <2>2
  <2>5. f \in g
    BY <2>2
  <2>6. PICK act : act = "UPDATE"
    OBVIOUS
  <2>7. timeline' = Record(timeline, g, v, c, act, p) /\ \A x \in g : v[x] \in Value /\ c[x] \in Value
    BY <2>3, <2>6
  <2>4. \E i : /\ i \notin Mine(p, f) /\ Mine(p, f)' = Mine(p, f) \cup {i}
               /\ timeline'[f][i].before = v[f]
               /\ \A j \in Mine(p, f) : timeline'[f][j] = timeline[f][j]
    BY <2>1, <2>3, <2>5, <2>6, <2>7, EntryAdded
  <2> QED BY <2>0, <2>4
<1>10. ASSUME NEW f \in Field PROVE Twice(f) => Twice(f)'
  BY <1>8, <1>9 DEF Twice
<1>11. ASSUME NEW f \in Field, company.val[f] \in PartnerValue PROVE f \in company.marks \/ Twice(f)
  BY <1>11 DEF MasksInv, MaskedOrTwice
<1>12. MaskedOrTwice'
  BY <1>3, <1>4, <1>7, <1>10, <1>11 DEF MaskedOrTwice
<1>13. ASSUME NEW q \in Proposal, NEW f \in Field
       PROVE  /\ prop'[q].changes[f] \notin PartnerValue
              /\ \A i \in Mine(q, f)' :
                   timeline'[f][i].before \in PartnerValue =>
                      \/ Twice(f)'
                      \/ IF prop'[q].cleared.recorded THEN f \in prop'[q].cleared.fields ELSE partnerKey'
  <2>1. KeptIsMarked(q)
    BY DEF MasksInv
  <2>2. CASE q # p
    <3>1. Mine(q, f)' = Mine(q, f) /\ \A i \in Mine(q, f) : timeline'[f][i] = timeline[f][i]
      BY <1>8, <2>2
    <3>2. prop'[q].changes = prop[q].changes /\ prop'[q].cleared = prop[q].cleared /\ partnerKey' = partnerKey
      BY <1>3, <1>5, <2>2
    <3>3. prop[q].changes[f] \notin PartnerValue
      BY <2>1 DEF KeptIsMarked
    <3>4. ASSUME NEW i \in Mine(q, f), timeline[f][i].before \in PartnerValue
          PROVE  \/ Twice(f)
                 \/ IF prop[q].cleared.recorded THEN f \in prop[q].cleared.fields ELSE partnerKey
      BY <2>1, <3>4 DEF KeptIsMarked
    <3> QED BY <1>10, <3>1, <3>2, <3>3, <3>4
  <2>3. CASE q = p /\ f \notin fs
    <3>1. \A i \in Mine(p, f) : timeline[f][i].after = prop[p].changes[f]
      BY DEF SerialInv, EditsInv
    <3>2. Mine(p, f) \subseteq DOMAIN timeline[f] /\ timeline[f] \in Seq(Revision)
      BY DEF SerialInv, TypeOK, Mine
    <3>3. \A i \in Mine(p, f) : timeline[f][i] \in Revision
      BY <3>2
    <3>4. Mine(p, f) = {}
      BY <1>1, <1>7, <2>3, <3>1, <3>3, ValueAssumption DEF Revision
    <3> QED BY <1>5, <1>8, <2>1, <2>3, <3>4 DEF KeptIsMarked
  <2>4. CASE q = p /\ f \in fs
    <3>1. PICK i : /\ i \notin Mine(p, f) /\ Mine(p, f)' = Mine(p, f) \cup {i}
                   /\ timeline'[f][i].before = company.val[f]
      BY <1>9, <2>4
    <3>2. CASE Mine(p, f) = {}
      BY <1>5, <1>10, <1>11, <2>1, <2>4, <3>1, <3>2 DEF KeptIsMarked
    <3>3. CASE Mine(p, f) # {}
      <4>1. Twice(f)'
        BY <3>1, <3>3 DEF Twice
      <4> QED BY <1>5, <2>1, <2>4, <4>1 DEF KeptIsMarked
    <3> QED BY <3>2, <3>3
  <2> QED BY <2>2, <2>3, <2>4
<1>14. ASSUME NEW q \in Proposal PROVE KeptIsMarked(q)'
  BY <1>13 DEF KeptIsMarked
<1>15. \A b \in Admin : req'[b].pc = "idle"
  BY <1>2, <1>3, OnlyBusy DEF SerialInv, TypeOK, IdleRequest
<1> QED BY <1>2, <1>3, <1>12, <1>14, <1>15 DEF MasksInv

\* The retraction: a value of the partner's goes back with its mark.
LEMMA RetractionMasks ==
    ASSUME SerialInv, MasksInv, NEW a \in Admin, revertProposal(a)
    PROVE  MasksInv'
<1>1. PICK p \in Proposal, c \in Changes : p = req[a].proposal /\ c = req[a].restored
  BY RequestType DEF SerialInv, revertProposal
<1>2. /\ req[a].row = company /\ c = Restored(p, company.val) /\ ingest.pc = "idle"
      /\ req[a].cleared = prop[p].cleared /\ req[a].pc = "revisions"
  BY <1>1, OnlyBusy DEF revertProposal, SerialInv, ReadsInv, DecisionsInv, Knows, MasksInv
<1> DEFINE back == MarksToRestore(prop[p].cleared, c, TouchedByPartner(company.partnerOnly))
           marks == IF back \subseteq company.marks THEN company.marks
                    ELSE WithPartnerFields(company.marks, back)
<1>3. /\ company'.val = Overlay(c, company.val) /\ company'.marks = marks
      /\ timeline' = Record(timeline, Keys(c), company.val, c, "RETRACT", p)
      /\ prop' = [prop EXCEPT ![p].status = "REJECTED"]
      /\ req' = [req EXCEPT ![a] = IdleRequest] /\ partnerKey' = partnerKey /\ ingest' = ingest
  BY <1>1, <1>2 DEF revertProposal, SerialInv, TypeOK, Entity
<1>4. company.marks \subseteq marks /\ back \subseteq marks
  BY DEF WithPartnerFields
<1>5. \A q \in Proposal : prop'[q].changes = prop[q].changes /\ prop'[q].cleared = prop[q].cleared
  BY <1>3 DEF SerialInv, TypeOK, ProposalRow
<1>6. /\ Keys(c) \in SUBSET Field
      /\ \A f \in Keys(c) : company.val[f] \in Value /\ c[f] \in Value
  BY KeysValues DEF SerialInv, TypeOK, Entity
<1>7. ASSUME NEW q \in Proposal, NEW f \in Field
      PROVE  Mine(q, f)' = Mine(q, f) /\ \A i \in Mine(q, f) : timeline'[f][i] = timeline[f][i]
  <2>0. PICK v : v = company.val
    OBVIOUS
  <2>1. TypeOK /\ p \in Proposal \cup {None}
    BY DEF SerialInv
  <2>2. PICK g \in SUBSET Field : g = Keys(c)
    BY <1>6
  <2>3. timeline' = Record(timeline, g, v, c, "RETRACT", p) /\ \A x \in g : v[x] \in Value /\ c[x] \in Value
    BY <1>3, <1>6, <2>0, <2>2
  <2>4. PICK act : act = "RETRACT" /\ act # "UPDATE"
    OBVIOUS
  <2>5. timeline' = Record(timeline, g, v, c, act, p)
    BY <2>3, <2>4
  <2>6. f \notin g \/ act # "UPDATE" \/ p # q
    BY <2>4
  <2>7. act \in {"UPDATE", "RETRACT"} /\ \A x \in g : v[x] \in Value /\ c[x] \in Value
    BY <2>3, <2>4
  <2>9. /\ Mine(q, f)' = Mine(q, f) /\ Was(q, f)' = Was(q, f)
           /\ \A i \in Mine(q, f) : timeline'[f][i] = timeline[f][i]
    BY <2>1, <2>5, <2>6, <2>7, OthersStay
  <2> QED BY <2>9
<1>8. (\A q \in Proposal : KeptIsMarked(q)') /\ \A f \in Field : Twice(f)' <=> Twice(f)
  BY <1>3, <1>5, <1>7, SameEntries
<1>9. ASSUME NEW f \in Field, company'.val[f] \in PartnerValue PROVE f \in marks \/ Twice(f)
  <2>1. CASE c[f] = Unset
    <3>1. company.val[f] \in PartnerValue
      BY <1>3, <1>9, <2>1 DEF Overlay
    <3> QED BY <1>4, <3>1 DEF MasksInv, MaskedOrTwice
  <2>2. CASE c[f] # Unset /\ ~ Twice(f)
    <3>1. c[f] \in PartnerValue /\ c[f] # Blank
      BY <1>3, <1>9, <2>2, ValueAssumption DEF Overlay
    <3>2. PICK i \in Mine(p, f) : c[f] = timeline[f][i].before
      BY <1>2, <2>2, RestoresAnEntry DEF SerialInv
    <3>3. IF prop[p].cleared.recorded THEN f \in prop[p].cleared.fields ELSE partnerKey
      BY <2>2, <3>1, <3>2 DEF MasksInv, KeptIsMarked
    <3>4. f \in back
      BY <2>2, <3>1, <3>3 DEF MarksToRestore, Keys, TouchedByPartner
    <3> QED BY <1>4, <3>4
  <2> QED BY <2>1, <2>2
<1>10. MaskedOrTwice'
  BY <1>3, <1>8, <1>9 DEF MaskedOrTwice
<1>11. \A b \in Admin : req'[b].pc = "idle"
  BY <1>2, <1>3, OnlyBusy DEF SerialInv, TypeOK, IdleRequest
<1> QED BY <1>2, <1>3, <1>8, <1>10, <1>11 DEF MasksInv

\* The worker marks what the partner states and unmarks what others do.
LEMMA OverwriteMasks ==
    ASSUME SerialInv, MasksInv, writeCompany, OneAtATime'
    PROVE  MasksInv'
<1>1. PICK c \in Changes : c = ingest.data
  BY DEF SerialInv, TypeOK, IngestWrite
<1>2. /\ ingest.row = company /\ ingest.pc = "read" /\ ingest.source \in {"PARTNER", "PUBLIC"}
      /\ \A f \in Keys(c) : c[f] \in Supplied(ingest.source)
  BY <1>1 DEF writeCompany, SerialInv, ReadsInv, TypeOK, IngestWrite, MasksInv
<1> DEFINE moved == {f \in Keys(c) : company.val[f] # c[f]}
<1>3. /\ company'.val = Overlay(c, company.val) /\ prop' = prop /\ req' = req
      /\ company'.marks = ProvenanceMarks(company, ingest.source, Keys(c), company.marks)
      /\ timeline' = Record(timeline, moved, company.val, c, "UPDATE", None)
      /\ ingest'.pc = "idle"
  BY <1>1, <1>2 DEF writeCompany, IdleIngest
<1>3a. partnerKey => partnerKey'
  BY Zenon DEF writeCompany
<1>4. /\ moved \in SUBSET Field
      /\ \A f \in moved : company.val[f] \in Value /\ c[f] \in Value
  BY KeysValues DEF SerialInv, TypeOK, Entity
<1> HIDE DEF moved
<1>5. ASSUME NEW q \in Proposal, NEW f \in Field
      PROVE  Mine(q, f)' = Mine(q, f) /\ \A i \in Mine(q, f) : timeline'[f][i] = timeline[f][i]
  <2>1. TypeOK /\ None # q /\ None \in Proposal \cup {None} /\ "UPDATE" \in {"UPDATE", "RETRACT"}
    BY ProposalAssumption DEF SerialInv
  <2>0. PICK v : v = company.val
    OBVIOUS
  <2>2. PICK g \in SUBSET Field : g = moved
    BY <1>4
  <2>3. timeline' = Record(timeline, g, v, c, "UPDATE", None) /\ \A x \in g : v[x] \in Value /\ c[x] \in Value
    BY <1>3, <1>4, <2>0, <2>2
  <2>6. PICK act : act = "UPDATE" /\ act \in {"UPDATE", "RETRACT"}
    OBVIOUS
  <2>11. PICK nobody \in Proposal \cup {None} : nobody = None /\ nobody # q
    BY <2>1
  <2>7. timeline' = Record(timeline, g, v, c, act, nobody)
    BY <2>3, <2>6, <2>11
  <2>8. \A x \in g : v[x] \in Value /\ c[x] \in Value
    BY <2>3
  <2>10. f \notin g \/ act # "UPDATE" \/ nobody # q
    BY <2>11
  <2>9. /\ Mine(q, f)' = Mine(q, f) /\ Was(q, f)' = Was(q, f)
           /\ \A i \in Mine(q, f) : timeline'[f][i] = timeline[f][i]
    BY <2>1, <2>6, <2>7, <2>8, <2>10, OthersStay
  <2> QED BY <2>9
<1>6. (\A q \in Proposal : KeptIsMarked(q)') /\ \A f \in Field : Twice(f)' <=> Twice(f)
  BY <1>3, <1>3a, <1>5, SameEntries
<1>7. \A f \in Field : company'.val[f] = IF f \in Keys(c) THEN c[f] ELSE company.val[f]
  BY <1>3 DEF Overlay, Keys
<1>8. \A f \in Field : company.val[f] \in PartnerValue => f \in company.marks \/ Twice(f)
  BY DEF MasksInv, MaskedOrTwice
<1>9. CASE ingest.source = "PARTNER"
  <2>1. company'.marks = company.marks \cup Keys(c)
    BY <1>3, <1>9 DEF ProvenanceMarks
  <2>2. MaskedOrTwice'
    BY <1>6, <1>7, <1>8, <2>1 DEF MaskedOrTwice
  <2> QED BY <1>2, <1>3, <1>6, <2>2 DEF MasksInv, OneAtATime, Busy, SerialInv
<1>10. CASE ingest.source = "PUBLIC"
  <2>1. company'.marks = company.marks \ Keys(c)
    BY <1>3, <1>10 DEF ProvenanceMarks
  <2>2. \A f \in Keys(c) : c[f] \notin PartnerValue
    BY <1>2, <1>10 DEF Supplied
  <2>3. MaskedOrTwice'
    BY <1>6, <1>7, <1>8, <2>1, <2>2 DEF MaskedOrTwice
  <2> QED BY <1>2, <1>3, <1>6, <2>3 DEF MasksInv, OneAtATime, Busy, SerialInv
<1> QED BY <1>2, <1>9, <1>10

----------------------------------------------------------------------------
(* Steps that leave the company and its timeline alone. *)

\* Neither what an edit sets of the partner's nor a cleared mark is new.
LEMMA LooksKeepMasks ==
    ASSUME SerialInv, MasksInv, UNCHANGED <<company, timeline, partnerKey>>,
           \A q \in Proposal :
              /\ prop'[q].changes = prop[q].changes \/ \A f \in Field : prop'[q].changes[f] \notin PartnerValue
              /\ prop'[q].cleared = prop[q].cleared \/ prop[q].status = "NONE"
    PROVE  (\A p \in Proposal : KeptIsMarked(p)') /\ MaskedOrTwice'
<1>1. \A q \in Proposal, f \in Field :
         Mine(q, f)' = Mine(q, f) /\ \A i \in Mine(q, f) : timeline'[f][i] = timeline[f][i]
  BY DEF Mine
<1>2. \A q \in Proposal : prop[q].status = "NONE" => \A f \in Field : Mine(q, f) = {}
  BY DEF SerialInv, EditsInv
<1>3. (\A p \in Proposal : KeptIsMarked(p)') /\ \A f \in Field : Twice(f)' <=> Twice(f)
  BY <1>1, <1>2, SameEntries
<1>4. MaskedOrTwice'
  BY <1>3 DEF MasksInv, MaskedOrTwice
<1> QED BY <1>3, <1>4

LEMMA ContributionMasks ==
    ASSUME SerialInv, MasksInv, Contribute \/ Ban
    PROVE  MasksInv'
<1>1. ASSUME NEW p \in Proposal, NEW u \in User, NEW url \in Url \cup {None}, NEW c \in Changes,
             \A f \in Field : c[f] \notin PartnerValue, proposeChange(p, u, c, url)
      PROVE  MasksInv'
  <2> DEFINE cleaned == [f \in Field |-> IF c[f] = company.val[f] THEN Unset ELSE c[f]]
             e == [status |-> "PENDING", changes |-> cleaned, url |-> url, by |-> u, cleared |-> NotRecorded]
  <2>1. /\ prop[p].status = "NONE" /\ prop' = [prop EXCEPT ![p] = e]
        /\ UNCHANGED <<company, timeline, partnerKey, req, ingest>>
    BY <1>1 DEF proposeChange
  <2>2. e.changes = cleaned /\ \A f \in Field : cleaned[f] \notin PartnerValue
    BY <1>1, ValueAssumption
  <2> HIDE DEF cleaned, e
  <2>3. \A q \in Proposal : prop'[q] = IF q = p THEN e ELSE prop[q]
    BY <2>1 DEF SerialInv, TypeOK
  <2>4. (\A q \in Proposal : KeptIsMarked(q)') /\ MaskedOrTwice'
    <3>1. \A q \in Proposal :
             /\ prop'[q].changes = prop[q].changes \/ \A f \in Field : prop'[q].changes[f] \notin PartnerValue
             /\ prop'[q].cleared = prop[q].cleared \/ prop[q].status = "NONE"
      BY <2>1, <2>2, <2>3
    <3> QED BY <2>1, <3>1, LooksKeepMasks
  <2>5. ASSUME NEW a \in Admin, req[a].pc \in {"read", "revisions"}
        PROVE  req[a].cleared = prop'[req[a].proposal].cleared
    <3>1. Knows(req[a]) /\ req[a].proposal \in Proposal /\ req[a].cleared = prop[req[a].proposal].cleared
      BY <2>5 DEF SerialInv, DecisionsInv, TypeOK, MasksInv
    <3>2. req[a].proposal # p
      BY <2>1, <3>1 DEF Knows
    <3> QED BY <2>3, <3>1, <3>2
  <2> QED BY <2>1, <2>4, <2>5 DEF MasksInv
<1>2. ASSUME NEW u \in User, ban(u) \/ unban(u) PROVE MasksInv'
  <2>1. UNCHANGED <<company, timeline, partnerKey, req, ingest>>
    BY <1>2 DEF ban, unban
  <2>2. \A q \in Proposal : prop'[q].changes = prop[q].changes /\ prop'[q].cleared = prop[q].cleared
    <3>1. CASE unban(u)
      BY <3>1 DEF unban
    <3>2. CASE ban(u)
      <4>1. \A q \in Proposal : prop'[q] = IF prop[q].by = u /\ prop[q].status = "PENDING"
                                           THEN [prop[q] EXCEPT !.status = "REJECTED"] ELSE prop[q]
        BY <3>2 DEF ban, rejectPending
      <4> QED BY <4>1 DEF SerialInv, TypeOK, ProposalRow
    <3> QED BY <1>2, <3>1, <3>2
  <2>3. (\A q \in Proposal : KeptIsMarked(q)') /\ MaskedOrTwice'
    BY <2>1, <2>2, LooksKeepMasks
  <2>4. \A a \in Admin : req[a].pc # "idle" => req[a].proposal \in Proposal
    BY DEF SerialInv, TypeOK
  <2> QED BY <2>1, <2>2, <2>3, <2>4 DEF MasksInv
<1> QED BY <1>1, <1>2 DEF Contribute, Ban

\* A request that goes on keeps the record it read.
LEMMA DecisionMasks ==
    ASSUME SerialInv, MasksInv, NEW a \in Admin, Moderate(a)
    PROVE  MasksInv'
<1>1. ASSUME UNCHANGED <<company, timeline, partnerKey, ingest>>, NEW r, req' = [req EXCEPT ![a] = r],
             \A q \in Proposal : prop'[q].changes = prop[q].changes /\ prop'[q].cleared = prop[q].cleared,
             r.pc \in {"read", "revisions"} => r.proposal \in Proposal /\ r.cleared = prop[r.proposal].cleared
      PROVE  MasksInv'
  <2>1. (\A q \in Proposal : KeptIsMarked(q)') /\ MaskedOrTwice'
    BY <1>1, LooksKeepMasks
  <2>2. ASSUME NEW b \in Admin, req'[b].pc \in {"read", "revisions"}
        PROVE  req'[b].cleared = prop'[req'[b].proposal].cleared
    <3>1. req'[b] = IF b = a THEN r ELSE req[b]
      BY <1>1 DEF SerialInv, TypeOK
    <3>2. CASE b = a
      BY <1>1, <2>2, <3>1, <3>2
    <3>3. CASE b # a
      <4>1. req[b].proposal \in Proposal /\ req[b].cleared = prop[req[b].proposal].cleared
        BY <2>2, <3>1, <3>3 DEF SerialInv, TypeOK, MasksInv
      <4> QED BY <1>1, <3>1, <3>3, <4>1
    <3> QED BY <3>2, <3>3
  <2> QED BY <1>1, <2>1, <2>2 DEF MasksInv
<1>2. ASSUME NEW p \in Proposal, NEW s \in {"APPROVED", "REJECTED"}, loadSubmissionNotice(a, p, s)
      PROVE  MasksInv'
  <2> DEFINE late == (s = "REJECTED" /\ prop[p].status = "APPROVED")
             r == [req[a] EXCEPT !.pc = "noticed", !.proposal = p, !.status = s, !.retracting = late]
  <2>1. req' = [req EXCEPT ![a] = r] /\ UNCHANGED <<company, timeline, partnerKey, ingest, prop>>
    BY <1>2 DEF loadSubmissionNotice, SerialInv, TypeOK
  <2>2. r.pc = "noticed"
    BY DEF SerialInv, TypeOK, Request
  <2> HIDE DEF r
  <2> QED BY <1>1, <2>1, <2>2
<1>3. CASE readProposal(a)
  <2> DEFINE old == req[a]
             r == [old EXCEPT !.pc = "read", !.row = company, !.cleared = prop[old.proposal].cleared]
  <2>1. /\ req' = [req EXCEPT ![a] = r] /\ UNCHANGED <<company, timeline, partnerKey, ingest, prop>>
        /\ old \in Request /\ old.proposal \in Proposal
    BY <1>3 DEF readProposal, SerialInv, TypeOK
  <2> HIDE DEF old
  <2>2. r.proposal = old.proposal /\ r.cleared = prop[old.proposal].cleared
    BY <2>1 DEF Request
  <2> HIDE DEF r
  <2> QED BY <1>1, <2>1, <2>2
<1>4. CASE applyProposal(a)
  BY <1>4, ApprovalMasks
<1>5. CASE readRevisions(a)
  <2> DEFINE old == req[a]
             back == Restored(old.proposal, old.row.val)
             r == [old EXCEPT !.pc = "revisions", !.restored = back]
  <2>1. /\ req' = [req EXCEPT ![a] = r] /\ UNCHANGED <<company, timeline, partnerKey, ingest, prop>>
        /\ old \in Request /\ old.proposal \in Proposal /\ old.cleared = prop[old.proposal].cleared
    BY <1>5 DEF readRevisions, SerialInv, TypeOK, MasksInv
  <2> HIDE DEF old, back
  <2>2. r.proposal = old.proposal /\ r.cleared = old.cleared
    BY <2>1 DEF Request
  <2> HIDE DEF r
  <2> QED BY <1>1, <2>1, <2>2
<1>6. CASE revertProposal(a)
  BY <1>6, RetractionMasks
<1>7. CASE reject(a)
  <2>1. PICK p \in Proposal : p = req[a].proposal
    BY <1>7, RequestType DEF reject, SerialInv
  <2>2. prop' = [prop EXCEPT ![p].status = "REJECTED"]
    BY <1>7, <2>1 DEF reject
  <2>3. \A q \in Proposal : prop'[q].changes = prop[q].changes /\ prop'[q].cleared = prop[q].cleared
    BY <2>2 DEF SerialInv, TypeOK, ProposalRow
  <2>4. req' = [req EXCEPT ![a] = IdleRequest] /\ IdleRequest.pc = "idle"
    BY <1>7 DEF reject, IdleRequest
  <2> QED BY <1>1, <1>7, <2>3, <2>4 DEF reject
<1> QED BY <1>2, <1>3, <1>4, <1>5, <1>6, <1>7 DEF Moderate

LEMMA NextMasks ==
    SerialInv /\ MasksInv /\ [Next /\ OneAtATime']_vars => MasksInv'
<1> SUFFICES ASSUME SerialInv, MasksInv, [Next /\ OneAtATime']_vars PROVE MasksInv'
  OBVIOUS
<1>1. ASSUME UNCHANGED <<company, timeline, partnerKey, prop, req>>,
             ingest'.pc = "read" => \A f \in Keys(ingest'.data) : ingest'.data[f] \in Supplied(ingest'.source)
      PROVE  MasksInv'
  <2>1. (\A q \in Proposal : KeptIsMarked(q)') /\ MaskedOrTwice'
    BY <1>1, LooksKeepMasks
  <2>2. Keys(ingest.data)' = Keys(ingest'.data)
    BY DEF Keys
  <2>3. ASSUME NEW a \in Admin, req'[a].pc \in {"read", "revisions"}
        PROVE  req'[a].cleared = prop'[req'[a].proposal].cleared
    BY <1>1, <2>3 DEF MasksInv
  <2> QED BY <1>1, <2>1, <2>2, <2>3 DEF MasksInv
<1>2. CASE UNCHANGED vars
  BY <1>1, <1>2 DEF vars, MasksInv
<1>3. CASE Contribute \/ Ban
  BY <1>3, ContributionMasks
<1>4. ASSUME NEW a \in Admin, Moderate(a) PROVE MasksInv'
  BY <1>4, DecisionMasks
<1>5. CASE Ingest /\ OneAtATime'
  <2>1. ASSUME NEW s, NEW d, readCompany(s, d) PROVE MasksInv'
    <3>1. /\ UNCHANGED <<company, timeline, partnerKey, prop, req>>
          /\ ingest'.data = d /\ ingest'.source = s
          /\ \A f \in Keys(d) : d[f] \in Supplied(s)
      BY <2>1 DEF readCompany
    <3> QED BY <1>1, <3>1
  <2>2. CASE writeCompany
    BY <1>5, <2>2, OverwriteMasks
  <2> QED BY <1>5, <2>1, <2>2 DEF Ingest, ownKeyUpdate, enrich
<1> QED BY <1>2, <1>3, <1>4, <1>5 DEF Next

\* When no two handlers overlap, a value only the partner supplied is shown
\* unmasked on no field but one whose edit was approved twice: an approval
\* records the marks it removes, a retraction puts them back with the values,
\* and the worker marks what it writes (applyProposal, marksToRestore,
\* provenanceUpdate).
THEOREM CompanyMasksHold == SerialSpec => []MaskedUnlessReapproved
<1>1. Init => SerialInv /\ MasksInv
  BY InitSerial, InitMasks
<1>2. SerialInv /\ MasksInv /\ [Next /\ OneAtATime']_vars => (SerialInv /\ MasksInv)'
  BY NextSerial, NextMasks
<1>3. SerialInv /\ MasksInv => MaskedUnlessReapproved
  BY TwoEntries DEF SerialInv, MasksInv, MaskedOrTwice, MaskedUnlessReapproved
<1> QED BY <1>1, <1>2, <1>3, PTL DEF SerialSpec

----------------------------------------------------------------------------
(* The run of the moderators' work: a part that is not at work stays at an *)
(* initial state of its own, so what holds of each part holds of the run.  *)

LEMMA CompanyAtRest == companyAtRest => Init
<1> SUFFICES ASSUME companyAtRest PROVE CreatedCompany
  BY DEF companyAtRest, Init
<1> DEFINE v == [f \in Field |-> Blank]
<1>1. v \in [Field -> Value] /\ \A f \in Field : v[f] \notin PartnerValue
  BY ValueAssumption
<1>2. company = [val |-> v, marks |-> {}, partnerOnly |-> FALSE] /\ partnerKey = FALSE
  BY DEF companyAtRest, IdleRow
<1> HIDE DEF v
<1> QED BY <1>1, <1>2 DEF CreatedCompany

LEMMA FirmAtRest == firmAtRest => Firm!Init
<1> SUFFICES ASSUME firmAtRest PROVE Firm!CreatedFirm
  BY DEF firmAtRest, Firm!Init, Firm!Source
<1> DEFINE v == [f \in Field |-> Blank]
<1>1. v \in [Field -> Firm!Supplied("PUBLIC")] /\ owner = "PUBLIC"
  BY ValueAssumption DEF Firm!Supplied, firmAtRest
<1>2. firm = [val |-> v, marks |-> {}, partnerOnly |-> FALSE] /\ firmKey = FALSE
  BY DEF firmAtRest, Firm!NoRow
<1>3. firmProp = [p \in Proposal |-> Firm!NoEdit]
  BY DEF firmAtRest
<1> HIDE DEF v
<1> QED BY <1>1, <1>2, <1>3 DEF Firm!CreatedFirm

LEMMA RunInit == MCInit => Init /\ Firm!Init
BY CompanyAtRest, FirmAtRest DEF MCInit

LEMMA RunNext ==
    [MCNext]_allVars => [Next /\ OneAtATime']_vars /\ [Firm!Next /\ Firm!OneAtATime']_(Firm!vars)
<1>1. ASSUME UNCHANGED firmVars PROVE UNCHANGED Firm!vars
  BY <1>1 DEF firmVars, Firm!vars
<1>2. ASSUME UNCHANGED allVars PROVE UNCHANGED vars /\ UNCHANGED firmVars
  BY <1>2 DEF allVars
<1> QED BY <1>1, <1>2 DEF MCNext

LEMMA RunRefinesParts == MCSpec => SerialSpec /\ Firm!SerialSpec
BY RunInit, RunNext, PTL DEF MCSpec, SerialSpec, Firm!SerialSpec

\* In the run, too, firm edits implement reversible edits (applyInvestorProposal,
\* revertInvestorProposal).
THEOREM RunReversesFirmEdits == MCSpec => FirmEditsAreReversible
BY RunRefinesParts, FirmEditsImplementReversibleEdits, PTL DEF FirmEditsAreReversible

\* In the run, too, a partner's value is shown unmasked on no firm, and on no
\* company but where an edit was approved twice (marksToRestore,
\* provenanceUpdate, syncPartnerFields).
THEOREM RunMasksPartnerValues == MCSpec => []MarksCoverPartnerValues
BY RunRefinesParts, CompanyMasksHold, FirmMasksHold, PTL DEF MarksCoverPartnerValues

\* What holds of the contributed rows holds of the run while they are its part.
LEMMA RowsBehave == MCSpec => (part = "rows" => Rows!SerialSpec)
<1>1. MCInit /\ part = "rows" => Rows!Init
  BY DEF MCInit, PeopleInit
<1>2. part = "rows" /\ [MCNext]_allVars => (part = "rows")' /\ [Rows!Next /\ Rows!OneAtATime']_(Rows!vars)
  BY DEF MCNext, allVars, rowVars, Rows!vars
<1> QED BY <1>1, <1>2, PTL DEF MCSpec, Rows!SerialSpec

LEMMA MailsBehave == MCSpec => (part = "mails" => Pairs!SerialSpec)
<1>1. MCInit /\ part = "mails" => Pairs!Init
  BY DEF MCInit, PeopleInit
<1>2. part = "mails" /\ [MCNext]_allVars => (part = "mails")' /\ [Pairs!Next /\ Pairs!OneAtATime']_(Pairs!vars)
  BY DEF MCNext, allVars, rowVars, Pairs!vars
<1> QED BY <1>1, <1>2, PTL DEF MCSpec, Pairs!SerialSpec

\* The part is about the rows of the pair of admins.
OfPairs == part \in {"mails", "pairs"}

LEMMA PairsBehave == MCSpec => (OfPairs => Pairs!Spec)
<1>1. MCInit /\ OfPairs => Pairs!Init
  BY DEF MCInit, PeopleInit, OfPairs
<1>2. OfPairs /\ [MCNext]_allVars => OfPairs' /\ [Pairs!Next]_(Pairs!vars)
  BY DEF MCNext, allVars, rowVars, Pairs!vars, OfPairs
<1> QED BY <1>1, <1>2, PTL DEF MCSpec, Pairs!Spec

LEMMA RowsAway == MCSpec => (~ (part = "rows") => [](~ (part = "rows")))
<1>1. ~ (part = "rows") /\ [MCNext]_allVars => (~ (part = "rows"))'
  BY DEF MCNext, allVars
<1> QED BY <1>1, PTL DEF MCSpec

LEMMA MailsAway == MCSpec => (~ (part = "mails") => [](~ (part = "mails")))
<1>1. ~ (part = "mails") /\ [MCNext]_allVars => (~ (part = "mails"))'
  BY DEF MCNext, allVars
<1> QED BY <1>1, PTL DEF MCSpec

LEMMA PairsAway == MCSpec => (~ OfPairs => []~ OfPairs)
<1>1. ~ OfPairs /\ [MCNext]_allVars => ~ OfPairs'
  BY DEF MCNext, allVars, OfPairs
<1> QED BY <1>1, PTL DEF MCSpec

\* In the run, too: what a profile shows is on its timeline, with two admins
\* at once as well, and what left it has its RETRACT entry (moderateRow).
THEOREM RunKeepsRowsOnTimeline == MCSpec => []RowsOnTimeline
<1>1. Rows!SerialSpec => [](Rows!ShownIsCreated /\ Rows!GoneIsRetracted)
  BY PartsAssumption, Rows!DecisionsAreTold, PTL
<1>2. Pairs!Spec => []Pairs!ShownIsCreated
  BY PartsAssumption, Pairs!ShownStaysCreated
<1>3. Pairs!SerialSpec => []Pairs!GoneIsRetracted
  BY PartsAssumption, Pairs!DecisionsAreTold, PTL
<1>4. RowsOnTimeline <=> /\ ~ (part = "rows") \/ (Rows!ShownIsCreated /\ Rows!GoneIsRetracted)
                         /\ ~ (part = "mails") \/ Pairs!GoneIsRetracted
                         /\ ~ OfPairs \/ Pairs!ShownIsCreated
  BY DEF RowsOnTimeline, OfPairs
<1> QED BY <1>1, <1>2, <1>3, <1>4, RowsBehave, MailsBehave, PairsBehave, RowsAway, MailsAway, PairsAway, PTL

\* In the run, too: the submitter was last told the status a row has, unless
\* it changed while they could not be mailed (shouldNotify).
THEOREM RunTellsTheStatus == MCSpec => []MailTellsTheStatus
<1>1. Rows!SerialSpec => []Rows!MailTellsTheStatus
  BY PartsAssumption, Rows!DecisionsAreTold, PTL
<1>2. Pairs!SerialSpec => []Pairs!MailTellsTheStatus
  BY PartsAssumption, Pairs!DecisionsAreTold, PTL
<1>3. MailTellsTheStatus <=> /\ ~ (part = "rows") \/ Rows!MailTellsTheStatus
                             /\ ~ (part = "mails") \/ Pairs!MailTellsTheStatus
  BY DEF MailTellsTheStatus
<1> QED BY <1>1, <1>2, <1>3, RowsBehave, MailsBehave, RowsAway, MailsAway, PTL

\* In the run, too: answered requests leave the stored counts right
\* (refreshDirectoryCounts).
THEOREM RunKeepsCountsInOrder == MCSpec => []CountsInOrder
<1>1. Rows!SerialSpec => []Rows!CountsInOrder
  BY PartsAssumption, Rows!DecisionsAreTold, PTL
<1>2. CountsInOrder <=> (~ (part = "rows") \/ Rows!CountsInOrder)
  BY DEF CountsInOrder
<1> QED BY <1>1, <1>2, RowsBehave, RowsAway, PTL

LEMMA RowsAtRest == rowsAtRest => Rows!Init
<1> SUFFICES ASSUME rowsAtRest PROVE Rows!Init
  OBVIOUS
<1>1. \A p \in 1 .. 2 : (p <= 0) = FALSE
  OBVIOUS
<1>2. people = [p \in Rows!Person |-> [exists |-> p <= 0, suppressed |-> FALSE, mergedInto |-> 0]]
  BY <1>1 DEF rowsAtRest, Rows!Person
<1>3. \E n \in 0 .. 2 :
         people = [p \in Rows!Person |-> [exists |-> p <= n, suppressed |-> FALSE, mergedInto |-> Rows!Nobody]]
  BY <1>2 DEF Rows!Nobody
<1>4. firmStatus \in [{} -> {"PENDING", "APPROVED"}]
  <2>1. firmStatus = [x \in {} |-> x]
    BY DEF rowsAtRest
  <2> QED BY <2>1
<1>5. submitter \in {u \in Rows!Submitter : ~ u.banned}
  BY DEF rowsAtRest, Rows!Submitter
<1> QED BY <1>3, <1>4, <1>5 DEF rowsAtRest, Rows!Init, Rows!NoCounts, Rows!Person, Rows!Nobody

LEMMA RowsRest == MCSpec => (~ OfPairs => Rows!Spec)
<1>1. MCInit /\ ~ OfPairs => Rows!Init
  BY RowsAtRest DEF MCInit, OfPairs
<1>2. ~ OfPairs /\ [MCNext]_allVars => [Rows!Next]_(Rows!vars)
  BY DEF MCNext, allVars, rowVars, Rows!vars, OfPairs
<1> QED BY <1>1, <1>2, PairsAway, PTL DEF MCSpec, Rows!Spec

\* In the run every part keeps its types: decisions, bans and the worker's
\* writes store what the tables may hold.
THEOREM RunKeepsTypes == MCSpec => []TypesOK
<1>1. SerialSpec => []TypeOK
  BY TypeCorrect, PTL DEF SerialSpec, Spec
<1>2. Rows!Spec => []Rows!TypeOK
  BY PartsAssumption, Rows!RowsKeepTypes
<1>3. Pairs!Spec => []Pairs!TypeOK
  BY PartsAssumption, Pairs!RowsKeepTypes
<1>4. TypeOK /\ Firm!TypeOK /\ (~ OfPairs \/ Pairs!TypeOK) /\ (OfPairs \/ Rows!TypeOK) => TypesOK
  BY DEF TypesOK, OfPairs
<1>5. MCSpec => (OfPairs => []OfPairs)
  <2>1. OfPairs /\ [MCNext]_allVars => OfPairs'
    BY DEF MCNext, allVars, OfPairs
  <2> QED BY <2>1, PTL DEF MCSpec
<1> QED BY <1>1, <1>2, <1>3, <1>4, <1>5, RunRefinesParts, FirmMasksHold, PairsBehave, PairsAway, RowsRest, PTL

\* The run is one of the accounts too, with profile forms saved one at a time
\* and the settings of 2FA in one window: what is proved of them
\* (AccountsProofs) holds of the run.
THEOREM RunIsOfTheAccounts ==
    MCSpec => FormSpec /\ AccountSpec /\ Mfa!SettingsSpec /\ Mfa!Spec
<1>1. MCInit => AccountInit /\ Mfa!Init
  BY DEF MCInit, PeopleInit, peopleAtRest, accountAtRest, factorsAtRest
<1>2. [MCNext]_allVars =>
         /\ [AccountNext]_accountVars /\ [AccountNext /\ OneProfile']_accountVars
         /\ [Mfa!Next]_(Mfa!vars) /\ [Mfa!Next /\ Mfa!Apart]_(Mfa!vars)
  <2>1. ASSUME UNCHANGED <<accountVars, mfaVars>>
        PROVE  UNCHANGED accountVars /\ UNCHANGED Mfa!vars
    BY <2>1 DEF mfaVars, Mfa!vars
  <2>2. CASE UNCHANGED allVars
    BY <2>1, <2>2 DEF allVars
  <2>3. CASE PeopleSettingsNext
    <3>1. CASE AccountNext /\ UNCHANGED mfaVars /\ OneProfile'
      BY <3>1 DEF mfaVars, Mfa!vars
    <3>2. CASE Mfa!Next /\ Mfa!Apart /\ UNCHANGED accountVars
      BY <3>2
    <3> QED BY <2>3, <3>1, <3>2 DEF PeopleSettingsNext, PeopleNext
  <2> QED BY <2>1, <2>2, <2>3 DEF MCNext
<1> QED BY <1>1, <1>2, PTL DEF MCSpec, FormSpec, AccountSpec, Mfa!SettingsSpec, Mfa!Spec
=============================================================================
