--------------------------- MODULE RowModeration ---------------------------
(***************************************************************************)
(* Contributed rows of one company (the profile itself, its rounds, roles, *)
(* holdings, ...) decided by moderators: AdminService.moderate for every   *)
(* type but the two proposals, with what a decision drags along: the       *)
(* timeline entry, the Person a role resolves to, the firm a holding       *)
(* publishes, the stored directory counts and the email.                   *)
(*                                                                         *)
(* All rows have one submitter and all roles one name; people are numbered *)
(* in the order they were created.                                         *)
(***************************************************************************)
EXTENDS Naturals, Sequences, FiniteSets

CONSTANTS
    Row,          \* contributed rows
    CompanyRow,   \* the one that is the company profile itself
    RoleRow,      \* the ones that are roles ('person')
    HoldingRow,   \* the ones that are holdings ('investor')
    Admin,
    NoRow,        \* a request about no row: a merge
    MaxPeople,    \* bound: Person rows
    MaxEntries    \* bound: no decision starts on a row with this many entries

RowAssumption ==
    /\ CompanyRow \in Row /\ NoRow \notin Row
    /\ RoleRow \subseteq Row /\ HoldingRow \subseteq Row
    /\ CompanyRow \notin RoleRow \cup HoldingRow
    /\ RoleRow \cap HoldingRow = {}
    /\ IsFiniteSet(Row)
    /\ MaxPeople \in Nat /\ MaxEntries \in Nat

Person == 1 .. MaxPeople
Nobody == 0

VARIABLES
    status,    \* moderationStatus of each row
    personOf,  \* personId of each role
    people,    \* the Person rows: exists, suppressed (suppressedAt), mergedInto
    roleCount, \* the stored Person.roleCount
    firm,      \* moderationStatus of the firm each holding names
    timeline,  \* the whole-row Revision entries of each row, oldest first
    submitter, \* who contributed them: an admin, banned, the address confirmed
    req,       \* requests in flight, one per admin
    (* History, read by no handler. *)
    mail,      \* the mails about each row, oldest first: what each told, and
               \* whether the status had changed untold before it
    untold     \* rows whose status changed since, when nobody could be mailed

vars == <<status, personOf, people, roleCount, firm, timeline, submitter, req, mail, untold>>

Status == {"PENDING", "APPROVED", "REJECTED"}
PersonRow == [exists : BOOLEAN, suppressed : BOOLEAN, mergedInto : Person \cup {Nobody}]
Scope == [people : SUBSET (Person \cup {Nobody}), company : BOOLEAN]
Submitter == [admin : BOOLEAN, banned : BOOLEAN, verified : BOOLEAN]
Mail == [told : {"APPROVED", "REJECTED"}, late : BOOLEAN]
Request == [pc : {"idle", "noticed", "resolved", "decided", "counted"}, row : Row \cup {NoRow},
            status : {"APPROVED", "REJECTED"}, seen : Status, tell : BOOLEAN, reachable : BOOLEAN,
            creates : BOOLEAN, person : Person \cup {Nobody},
            scope : Scope, counts : [Person -> Nat]]

TypeOK ==
    /\ status \in [Row -> Status]
    /\ personOf \in [RoleRow -> Person \cup {Nobody}]
    /\ people \in [Person -> PersonRow]
    /\ roleCount \in [Person -> Nat]
    /\ firm \in [HoldingRow -> {"PENDING", "APPROVED"}]
    /\ timeline \in [Row -> Seq({"CREATE", "RETRACT"})]
    /\ submitter \in Submitter
    /\ req \in [Admin -> Request]
    /\ \A a \in Admin : req[a].pc \in {"noticed", "resolved"} => req[a].row \in Row
    /\ mail \in [Row -> Seq(Mail)]
    /\ untold \subseteq Row

----------------------------------------------------------------------------
(* Operators of the service. *)

\* PUBLIC_ROLES: the roles of p a profile lists, and so counts.
PublicRoles(p) ==
    {r \in RoleRow : /\ personOf[r] = p
                     /\ status[r] = "APPROVED"
                     /\ status[CompanyRow] = "APPROVED"}

\* Person rows, and the first of some by creation.
Existing == {p \in Person : people[p].exists}
Oldest(s) == CHOOSE p \in s : \A q \in s : p <= q
NewPerson == Oldest(Person \ Existing)

\* resolvePerson: the oldest person of that name.  Suppressed, or none yet:
\* nobody.  Merged away: the survivor its row names.
FoundPerson ==
    IF Existing = {} \/ people[Oldest(Existing)].suppressed THEN Nobody
    ELSE LET p == Oldest(Existing)
         IN  IF people[p].mergedInto # Nobody THEN people[p].mergedInto ELSE p

\* countScope: whose directory counts a decision on r can move.
CountScope(r) ==
    [people |-> IF r \in RoleRow THEN {personOf[r]} \ {Nobody} ELSE {},
     company |-> r = CompanyRow]

\* Mutant: only the scope after the decision is kept.
MergeScopesAfter(s, t) == s

\* mergeScopes.
MergeScopes(s, t) == [people |-> s.people \cup t.people, company |-> s.company \/ t.company]

\* The target CTE of refreshDirectoryCounts: the ids named, and everyone
\* with a role on the company.
Target(scope) ==
    {p \in Person : \/ p \in scope.people
                    \/ scope.company /\ \E r \in RoleRow : personOf[r] = p}

\* Someone to tell: no admin, not banned, at a confirmed address.
Reachable == ~ submitter.admin /\ ~ submitter.banned /\ submitter.verified

\* Mutant: repeats are mailed too.
NotifyAlways(seen, decision) == Reachable

\* shouldNotify: a decision that is not a repeat, and someone to tell.
ShouldNotify(seen, decision) == seen # decision /\ Reachable

\* Mutant: the prior status alone makes a retraction.
EntryBySeen(seen, decision) ==
    IF seen = "APPROVED" THEN <<"RETRACT">>
    ELSE IF decision = "APPROVED" THEN <<"CREATE">> ELSE <<>>

\* createRevision / retractRevision: what the decision leaves on the timeline.
Entry(seen, decision) ==
    IF decision = "APPROVED" THEN <<"CREATE">>
    ELSE IF seen = "APPROVED" THEN <<"RETRACT">> ELSE <<>>

----------------------------------------------------------------------------
NoScope == [people |-> {}, company |-> FALSE]
NoCounts == [p \in Person |-> 0]
IdleRequest == [pc |-> "idle", row |-> NoRow, status |-> "REJECTED",
                seen |-> "PENDING", tell |-> FALSE, reachable |-> FALSE, creates |-> FALSE,
                person |-> Nobody, scope |-> NoScope, counts |-> NoCounts]

\* Everything is in the queue; some people may be in the directory already.
Init ==
    /\ status = [r \in Row |-> "PENDING"]
    /\ personOf = [r \in RoleRow |-> Nobody]
    /\ \E n \in 0 .. MaxPeople :
         people = [p \in Person |-> [exists |-> p <= n, suppressed |-> FALSE,
                                     mergedInto |-> Nobody]]
    /\ roleCount = NoCounts
    /\ firm \in [HoldingRow -> {"PENDING", "APPROVED"}]
    /\ timeline = [r \in Row |-> <<>>]
    /\ submitter \in {u \in Submitter : ~ u.banned}
    /\ req = [a \in Admin |-> IdleRequest]
    /\ mail = [r \in Row |-> <<>>]
    /\ untold = {}

----------------------------------------------------------------------------
(* moderate(). *)

\* loadSubmissionNotice and the first countScope: reads before the decision.
loadSubmissionNotice(a, r, decision) ==
    /\ req[a].pc = "idle"
    /\ Len(timeline[r]) < MaxEntries
    /\ req' = [req EXCEPT ![a] = [IdleRequest EXCEPT
                 !.pc = "noticed", !.row = r, !.status = decision, !.seen = status[r],
                 !.tell = ShouldNotify(status[r], decision), !.reachable = Reachable,
                 !.scope = CountScope(r)]]
    /\ UNCHANGED <<status, personOf, people, roleCount, firm, timeline, submitter, mail, untold>>

\* applyDecision holds the row's lock from its first statement to its commit.
Unlocked(r) == \A a \in Admin : ~ (req[a].pc = "resolved" /\ req[a].row = r)

\* applyDecision on an approved role looks for the Person, whose row it does
\* not lock ...
resolvePerson(a) ==
    LET r == req[a].row
    IN  /\ req[a].pc = "noticed" /\ r \in RoleRow /\ req[a].status = "APPROVED"
        /\ Unlocked(r)
        /\ req' = [req EXCEPT ![a].pc = "resolved", ![a].person = FoundPerson,
                              ![a].creates = Existing = {}]
        /\ UNCHANGED <<status, personOf, people, roleCount, firm, timeline, submitter, mail, untold>>

\* ... and attaches the role to the one it found or to a new one (nobody
\* leaves the role's personId as it was).
ResolvesTo(r, p) ==
    /\ personOf' = IF p # Nobody THEN [personOf EXCEPT ![r] = p] ELSE personOf
    /\ people' = IF p # Nobody THEN [people EXCEPT ![p].exists = TRUE] ELSE people

\* An approved holding publishes its firm.
Publishes(r, s) == r \in HoldingRow /\ s = "APPROVED"

\* moderateRow: status, person, firm and timeline entry commit together.
moderateRow(a) ==
    LET r == req[a].row
        s == req[a].status
        resolves == r \in RoleRow /\ s = "APPROVED"
    IN  /\ IF resolves THEN req[a].pc = "resolved"
           ELSE req[a].pc = "noticed" /\ Unlocked(r)
        /\ status' = [status EXCEPT ![r] = s]
        /\ IF resolves
           THEN /\ req[a].creates => Existing # Person
                /\ ResolvesTo(r, IF req[a].creates THEN NewPerson ELSE req[a].person)
           ELSE UNCHANGED <<personOf, people>>
        /\ firm' = IF Publishes(r, s) THEN [firm EXCEPT ![r] = "APPROVED"] ELSE firm
        /\ timeline' = [timeline EXCEPT ![r] = @ \o Entry(req[a].seen, s)]
        /\ req' = [req EXCEPT ![a].pc = "decided"]
        /\ untold' = IF status[r] # s /\ ~ req[a].reachable THEN untold \cup {r} ELSE untold
        /\ UNCHANGED <<roleCount, submitter, mail>>

\* refreshDirectoryCounts is one UPDATE ... FROM: it counts in the snapshot
\* it starts with, then locks and writes the rows that differ.
countPublicRoles(a) ==
    LET scope == MergeScopes(CountScope(req[a].row), req[a].scope)
    IN  /\ req[a].pc = "decided"
        /\ req' = [req EXCEPT ![a].pc = "counted",
                              ![a].scope = [people |-> Target(scope), company |-> FALSE],
                              ![a].counts = [p \in Person |-> Cardinality(PublicRoles(p))]]
        /\ UNCHANGED <<status, personOf, people, roleCount, firm, timeline, submitter, mail, untold>>

\* The write, then the un-awaited email.
refreshDirectoryCounts(a) ==
    /\ req[a].pc = "counted"
    /\ roleCount' = [p \in Person |-> IF p \in req[a].scope.people
                                      THEN req[a].counts[p] ELSE roleCount[p]]
    /\ req' = [req EXCEPT ![a] = IdleRequest]
    /\ IF req[a].tell
       THEN LET r == req[a].row
                sent == [told |-> req[a].status, late |-> r \in untold]
            IN  /\ mail' = [mail EXCEPT ![r] = Append(@, sent)]
                /\ untold' = untold \ {r}
       ELSE UNCHANGED <<mail, untold>>
    /\ UNCHANGED <<status, personOf, people, firm, timeline, submitter>>

----------------------------------------------------------------------------
(* What else writes these rows. *)

\* AdminUsersService.update, the role or the ban: a new ban sweeps what is
\* pending (rejectPending), which waits for the rows' locks; lifting it does not.
update(admin, banned) ==
    LET swept == IF banned /\ ~ submitter.banned
                 THEN {r \in Row : status[r] = "PENDING"} ELSE {}
    IN  /\ submitter' = [submitter EXCEPT !.admin = admin, !.banned = banned]
        /\ submitter' # submitter
        /\ \A r \in swept : Unlocked(r)
        /\ status' = [r \in Row |-> IF r \in swept THEN "REJECTED" ELSE status[r]]
        /\ untold' = untold \cup swept
        /\ UNCHANGED <<personOf, people, roleCount, firm, timeline, req, mail>>

\* The address is confirmed (consumeVerificationToken) or changed to one that
\* is not (updateProfile).
verification ==
    /\ submitter' = [submitter EXCEPT !.verified = ~ @]
    /\ UNCHANGED <<status, personOf, people, roleCount, firm, timeline, req, mail, untold>>

\* PeopleService.setSuppressed, or a person report resolved with suppressPerson.
setSuppressed(p, suppressed) ==
    /\ people[p].exists
    /\ people[p].suppressed # suppressed
    /\ people' = [people EXCEPT ![p].suppressed = suppressed]
    /\ UNCHANGED <<status, personOf, roleCount, firm, timeline, submitter, req, mail, untold>>

\* MergeService.mergePerson: the loser's roles move to the survivor (once
\* their locks are free), the loser becomes a tombstone, both are counted again.
mergePerson(a, loser, survivor) ==
    /\ req[a].pc = "idle"
    /\ loser # survivor
    /\ \A p \in {loser, survivor} : people[p].exists /\ people[p].mergedInto = Nobody
    /\ \A r \in RoleRow : personOf[r] = loser => Unlocked(r)
    /\ personOf' = [r \in RoleRow |-> IF personOf[r] = loser THEN survivor ELSE personOf[r]]
    /\ people' = [people EXCEPT ![loser].mergedInto = survivor]
    /\ req' = [req EXCEPT ![a] = [IdleRequest EXCEPT
                 !.pc = "decided", !.scope = [people |-> {loser, survivor}, company |-> FALSE]]]
    /\ UNCHANGED <<status, roleCount, firm, timeline, submitter, mail, untold>>

Next ==
    \/ \E a \in Admin :
         \/ \E r \in Row, s \in {"APPROVED", "REJECTED"} : loadSubmissionNotice(a, r, s)
         \/ resolvePerson(a)
         \/ moderateRow(a)
         \/ countPublicRoles(a)
         \/ refreshDirectoryCounts(a)
         \/ \E p, q \in Person : mergePerson(a, p, q)
    \/ \E admin, banned \in BOOLEAN : update(admin, banned)
    \/ verification
    \/ \E p \in Person, s \in BOOLEAN : setSuppressed(p, s)

Spec == Init /\ [][Next]_vars

\* The same handlers when no two requests overlap.
Idle == \A a \in Admin : req[a].pc = "idle"
OneAtATime == \A a, b \in Admin : req[a].pc # "idle" /\ req[b].pc # "idle" => a = b
SerialSpec == Init /\ [][Next /\ OneAtATime']_vars

----------------------------------------------------------------------------
(* Properties. *)

LastIs(seq, x) == Len(seq) > 0 /\ seq[Len(seq)] = x

\* Whatever overlaps, what a profile shows is on its timeline: an approved
\* row's newest entry is its CREATE (moderateRow: "also gets a CREATE entry").
ShownIsCreated == \A r \in Row : status[r] = "APPROVED" => LastIs(timeline[r], "CREATE")

\* And a row that left the profile has its RETRACT entry (moderateRow: "a
\* rejected row that was public (a retraction) gets a RETRACT entry").
GoneIsRetracted == \A r \in Row : status[r] # "APPROVED" => ~ LastIs(timeline[r], "CREATE")

\* Once a request is answered, the last mail tells the status of the row, and
\* there is one for every row decided, unless the status changed while the
\* contributor could not be mailed (an admin, banned or swept by the ban, the
\* address unconfirmed); what happened then silences none of the later
\* decisions.  And only after such a change is the same thing told twice
\* running (moderate: "tells a real decision from a repeat click").
MailTellsTheStatus ==
    Idle =>
        \A r \in Row :
            LET m == mail[r]
            IN  /\ r \in untold \/ (IF m = <<>> THEN status[r] = "PENDING"
                                   ELSE m[Len(m)].told = status[r])
                /\ \A i \in 1 .. Len(m) - 1 : m[i].told = m[i + 1].told => m[i + 1].late

\* Once every request is answered the stored sort keys are the public
\* counts (moderate: "so the admin's next directory page is already in order").
CountsInOrder == Idle => \A p \in Person : roleCount[p] = Cardinality(PublicRoles(p))
=============================================================================
