------------------------ MODULE RowModerationProofs ------------------------
(***************************************************************************)
(* Theorems of RowModeration, for any rows, roles, holdings and admins and *)
(* any number of people: types and the timeline with every overlap of      *)
(* requests; retractions, mail and stored counts without any.              *)
(***************************************************************************)
EXTENDS RowModeration, FiniteSetTheorems, WellFoundedInduction, TLAPS

USE DEF Status, Nobody

\* Of some people one is the oldest.
LEMMA OldestIsOne ==
    ASSUME RowAssumption, NEW s \in SUBSET Person, s # {}
    PROVE  Oldest(s) \in s
<1>1. s \subseteq Nat
  BY DEF RowAssumption, Person
<1>2. PICK p \in s : \A q \in s : ~ (<<q, p>> \in OpToRel(<, Nat))
  BY <1>1, NatLessThanWellFounded, WFMin
<1>3. \A q \in s : p <= q
  <2> TAKE q \in s
  <2>1. p \in Nat /\ q \in Nat
    BY <1>1
  <2>2. ~ (q < p)
    BY <1>2, <2>1 DEF OpToRel
  <2> QED BY <2>1, <2>2
<1> QED BY <1>2, <1>3 DEF Oldest

\* A count is a number.
LEMMA CountIsNumber ==
    ASSUME RowAssumption
    PROVE  \A p : Cardinality(PublicRoles(p)) \in Nat
<1> TAKE p
<1>1. IsFiniteSet(Row) /\ RoleRow \subseteq Row
  BY DEF RowAssumption
<1>2. PublicRoles(p) \subseteq Row
  BY <1>1 DEF PublicRoles
<1>3. PICK s : s = PublicRoles(p)
  OBVIOUS
<1>4. s \subseteq Row
  BY <1>2, <1>3
<1>5. IsFiniteSet(s)
  BY <1>1, <1>4, FS_Subset
<1> QED BY <1>3, <1>5, FS_CardinalityType

LEMMA IdleType == IdleRequest \in Request
<1> DEFINE e == NoCounts
           c == NoScope
<1>1. e \in [Person -> Nat] /\ c \in Scope
  BY DEF NoCounts, NoScope, Scope
<1>2. IdleRequest = [pc |-> "idle", row |-> NoRow, status |-> "REJECTED", seen |-> "PENDING",
                     tell |-> FALSE, reachable |-> FALSE, creates |-> FALSE, person |-> Nobody,
                     scope |-> c, counts |-> e]
  BY DEF IdleRequest
<1> HIDE DEF e, c
<1> QED BY <1>1, <1>2 DEF Request

LEMMA InitTypes == Init => TypeOK
<1> SUFFICES ASSUME Init PROVE TypeOK
  OBVIOUS
<1>1. req \in [Admin -> Request] /\ \A a \in Admin : req[a].pc = "idle"
  <2>1. \A a \in Admin : req[a] = IdleRequest
    BY DEF Init
  <2> QED BY <2>1, IdleType DEF Init, IdleRequest
<1>2. people \in [Person -> PersonRow]
  BY DEF Init, PersonRow
<1>3. roleCount \in [Person -> Nat] /\ firm \in [HoldingRow -> {"PENDING", "APPROVED"}]
  BY DEF Init, NoCounts
<1>4. timeline \in [Row -> Seq({"CREATE", "RETRACT"})] /\ mail \in [Row -> Seq(Mail)]
  BY DEF Init
<1>5. /\ status \in [Row -> Status] /\ personOf \in [RoleRow -> Person \cup {Nobody}]
      /\ submitter \in Submitter /\ untold \subseteq Row
  BY DEF Init
<1> QED BY <1>1, <1>2, <1>3, <1>4, <1>5 DEF TypeOK

LEMMA ScopeType == \A r : TypeOK => CountScope(r) \in Scope
BY DEF CountScope, Scope, TypeOK

\* Of some people one is the oldest: a new person, or the one found.
LEMMA FoundType ==
    ASSUME RowAssumption, TypeOK
    PROVE  /\ FoundPerson \in Person \cup {Nobody}
           /\ Existing # Person => NewPerson \in Person \ Existing
<1>1. Existing \in SUBSET Person
  BY DEF Existing
<1>2. ASSUME Existing # Person PROVE NewPerson \in Person \ Existing
  <2>1. Person \ Existing # {} /\ Person \ Existing \in SUBSET Person
    BY <1>1, <1>2
  <2> QED BY <2>1, OldestIsOne DEF NewPerson
<1>3. ASSUME Existing # {} PROVE Oldest(Existing) \in Person
  BY <1>1, <1>3, OldestIsOne
<1>4. FoundPerson \in Person \cup {Nobody}
  <2>1. CASE Existing = {} \/ people[Oldest(Existing)].suppressed
    BY <2>1 DEF FoundPerson
  <2>2. CASE ~ (Existing = {} \/ people[Oldest(Existing)].suppressed)
    <3>1. PICK p \in Person : p = Oldest(Existing)
      BY <1>3, <2>2
    <3>2. people[p].mergedInto \in Person \cup {Nobody}
      BY DEF TypeOK, PersonRow
    <3> QED BY <2>2, <3>1, <3>2 DEF FoundPerson
  <2> QED BY <2>1, <2>2
<1> QED BY <1>2, <1>4

\* Whom a decision attaches its role to.
Attached(a) == IF req[a].creates THEN NewPerson ELSE req[a].person

\* The types of a decision's transaction.
LEMMA DecisionTypes ==
    ASSUME RowAssumption, TypeOK, NEW a \in Admin, moderateRow(a)
    PROVE  TypeOK'
<1>1. PICK r \in Row : r = req[a].row
  BY DEF moderateRow, TypeOK
<1>0. PICK s \in {"APPROVED", "REJECTED"} : s = req[a].status
  BY DEF TypeOK, Request
<1>2. /\ status' = [status EXCEPT ![r] = s]
      /\ firm' = IF Publishes(r, s) THEN [firm EXCEPT ![r] = "APPROVED"] ELSE firm
      /\ req' = [req EXCEPT ![a].pc = "decided"]
      /\ UNCHANGED <<roleCount, submitter, mail>>
  BY <1>0, <1>1 DEF moderateRow
<1>3. status' \in [Row -> Status] /\ firm' \in [HoldingRow -> {"PENDING", "APPROVED"}]
  BY <1>1, <1>2 DEF TypeOK
<1>7. untold' \subseteq Row
  BY <1>1 DEF moderateRow, TypeOK
<1>4. personOf' \in [RoleRow -> Person \cup {Nobody}] /\ people' \in [Person -> PersonRow]
  <2>1. CASE ~ (r \in RoleRow /\ s = "APPROVED")
    BY <1>0, <1>1, <2>1 DEF moderateRow, TypeOK
  <2>2. CASE r \in RoleRow /\ s = "APPROVED"
    <3>1. (req[a].creates => Existing # Person) /\ ResolvesTo(r, Attached(a))
      BY <1>0, <1>1, <2>2 DEF moderateRow, Attached
    <3>2. PICK p : p = Attached(a)
      OBVIOUS
    <3>3. p \in Person \cup {Nobody}
      <4>1. req[a].person \in Person \cup {Nobody}
        BY DEF TypeOK, Request
      <4> QED BY <3>1, <3>2, <4>1, FoundType DEF Attached
    <3>4. ResolvesTo(r, p)
      BY <3>1, <3>2
    <3> QED BY <3>3, <3>4 DEF ResolvesTo, TypeOK, PersonRow
  <2> QED BY <2>1, <2>2
<1>5. timeline' \in [Row -> Seq({"CREATE", "RETRACT"})]
  <2>1. PICK e : e = Entry(req[a].seen, req[a].status)
    OBVIOUS
  <2>2. e \in Seq({"CREATE", "RETRACT"})
    <3>1. e \in {<<>>, <<"CREATE">>, <<"RETRACT">>}
      BY <2>1 DEF Entry
    <3>2. <<"CREATE">> \in Seq({"CREATE", "RETRACT"}) /\ <<"RETRACT">> \in Seq({"CREATE", "RETRACT"})
      OBVIOUS
    <3>3. <<>> \in Seq({"CREATE", "RETRACT"})
      OBVIOUS
    <3> QED BY <3>1, <3>2, <3>3
  <2>3. timeline' = [timeline EXCEPT ![r] = @ \o e]
    BY <1>1, <2>1 DEF moderateRow
  <2>4. ASSUME NEW x \in Row PROVE timeline[x] \o e \in Seq({"CREATE", "RETRACT"})
    BY <2>2 DEF TypeOK
  <2> QED BY <2>3, <2>4 DEF TypeOK
<1>6. /\ req' \in [Admin -> Request]
      /\ \A b \in Admin : req'[b].pc \in {"noticed", "resolved"} => req'[b].row \in Row
  <2> DEFINE e == [req[a] EXCEPT !.pc = "decided"]
  <2>1. e \in Request /\ req' = [req EXCEPT ![a] = e] /\ e.pc = "decided"
    BY <1>2 DEF TypeOK, Request
  <2> HIDE DEF e
  <2> QED BY <2>1 DEF TypeOK
<1> QED BY <1>2, <1>3, <1>4, <1>5, <1>6, <1>7 DEF TypeOK

LEMMA NextTypes ==
    ASSUME RowAssumption, TypeOK, [Next]_vars
    PROVE  TypeOK'
<1>1. ASSUME NEW a \in Admin, NEW r \in Row, NEW s \in {"APPROVED", "REJECTED"},
             loadSubmissionNotice(a, r, s)
      PROVE  TypeOK'
  <2> DEFINE told == ShouldNotify(status[r], s)
             can == Reachable
             e == [IdleRequest EXCEPT !.pc = "noticed", !.row = r, !.status = s, !.seen = status[r],
                                      !.tell = told, !.reachable = can, !.scope = CountScope(r)]
  <2>1. told \in BOOLEAN /\ can \in BOOLEAN
    BY DEF ShouldNotify, Reachable
  <2>2. CountScope(r) \in Scope /\ status[r] \in Status
    BY ScopeType DEF TypeOK
  <2>3. req' = [req EXCEPT ![a] = e]
    BY <1>1 DEF loadSubmissionNotice
  <2> HIDE DEF told, can
  <2>4. e \in Request /\ e.row = r
    BY <2>1, <2>2, IdleType DEF Request
  <2> HIDE DEF e
  <2> QED BY <1>1, <2>3, <2>4 DEF loadSubmissionNotice, TypeOK
<1>9. ASSUME NEW a \in Admin, resolvePerson(a) PROVE TypeOK'
  <2> DEFINE p == FoundPerson
             c == Existing = {}
             e == [req[a] EXCEPT !.pc = "resolved", !.person = p, !.creates = c]
  <2>1. p \in Person \cup {Nobody} /\ c \in BOOLEAN
    BY FoundType
  <2>2. req' = [req EXCEPT ![a] = e] /\ req[a].row \in Row
    BY <1>9 DEF resolvePerson, TypeOK
  <2> HIDE DEF p, c
  <2>4. req[a] \in Request
    BY DEF TypeOK
  <2>3. e \in Request /\ e.row = req[a].row
    BY <2>1, <2>4 DEF Request
  <2> HIDE DEF e
  <2> QED BY <1>9, <2>2, <2>3 DEF resolvePerson, TypeOK
<1>2. ASSUME NEW a \in Admin, moderateRow(a) PROVE TypeOK'
  BY <1>2, DecisionTypes
<1>3. ASSUME NEW a \in Admin, countPublicRoles(a) PROVE TypeOK'
  <2> DEFINE t == Target(MergeScopes(CountScope(req[a].row), req[a].scope))
             n == [p \in Person |-> Cardinality(PublicRoles(p))]
             c == [people |-> t, company |-> FALSE]
  <2>1. c \in Scope
    BY DEF Target, Scope
  <2>2. n \in [Person -> Nat]
    BY CountIsNumber
  <2> DEFINE e == [req[a] EXCEPT !.pc = "counted", !.scope = c, !.counts = n]
  <2>3. req' = [req EXCEPT ![a] = e]
    BY <1>3 DEF countPublicRoles, TypeOK
  <2> HIDE DEF t, n, c
  <2>6. req[a] \in Request
    BY DEF TypeOK
  <2>5. e \in Request /\ e.pc = "counted"
    BY <2>1, <2>2, <2>6 DEF Request
  <2> HIDE DEF e
  <2>4. /\ req' \in [Admin -> Request]
        /\ \A b \in Admin : req'[b].pc \in {"noticed", "resolved"} => req'[b].row \in Row
    BY <2>3, <2>5 DEF TypeOK
  <2> QED BY <1>3, <2>4 DEF countPublicRoles, TypeOK
<1>4. ASSUME NEW a \in Admin, refreshDirectoryCounts(a) PROVE TypeOK'
  <2>1. req[a].counts \in [Person -> Nat] /\ req[a].status \in {"APPROVED", "REJECTED"}
    BY DEF TypeOK, Request
  <2>2. roleCount' \in [Person -> Nat]
    BY <1>4, <2>1 DEF refreshDirectoryCounts, TypeOK
  <2>3. mail' \in [Row -> Seq(Mail)] /\ untold' \subseteq Row
    <3>1. PICK r : r = req[a].row
      OBVIOUS
    <3>2. PICK sent : sent = [told |-> req[a].status, late |-> r \in untold]
      OBVIOUS
    <3>3. sent \in Mail
      BY <2>1, <3>2 DEF Mail
    <3>4. CASE mail' = [mail EXCEPT ![r] = Append(@, sent)] /\ untold' = untold \ {r}
      <4>1. \A x \in Row : Append(mail[x], sent) \in Seq(Mail)
        BY <3>3 DEF TypeOK
      <4>2. \A x \in Row : mail'[x] = IF x = r THEN Append(mail[x], sent) ELSE mail[x]
        BY <3>4 DEF TypeOK
      <4>3. DOMAIN mail' = Row /\ mail' = [x \in Row |-> mail'[x]]
        BY <3>4 DEF TypeOK
      <4>4. \A x \in Row : mail'[x] \in Seq(Mail)
        BY <4>1, <4>2 DEF TypeOK
      <4> QED BY <3>4, <4>3, <4>4 DEF TypeOK
    <3>5. CASE UNCHANGED <<mail, untold>>
      BY <3>5 DEF TypeOK
    <3> QED BY <1>4, <3>1, <3>2, <3>4, <3>5 DEF refreshDirectoryCounts
  <2>4. /\ req' \in [Admin -> Request]
        /\ \A b \in Admin : req'[b].pc \in {"noticed", "resolved"} => req'[b].row \in Row
    <3>1. IdleRequest.pc = "idle" /\ req' = [req EXCEPT ![a] = IdleRequest]
      BY <1>4 DEF refreshDirectoryCounts, IdleRequest
    <3> QED BY <3>1, IdleType DEF TypeOK
  <2> QED BY <1>4, <2>2, <2>3, <2>4 DEF refreshDirectoryCounts, TypeOK
<1>5. ASSUME NEW a \in Admin, NEW p \in Person, NEW q \in Person, mergePerson(a, p, q) PROVE TypeOK'
  <2> DEFINE e == [IdleRequest EXCEPT !.pc = "decided",
                                      !.scope = [people |-> {p, q}, company |-> FALSE]]
  <2>1. e \in Request /\ e.pc = "decided"
    BY IdleType DEF Request, Scope
  <2>2. req' = [req EXCEPT ![a] = e]
    BY <1>5 DEF mergePerson
  <2> HIDE DEF e
  <2>3. people' \in [Person -> PersonRow]
    BY <1>5 DEF mergePerson, TypeOK, PersonRow
  <2>4. personOf' \in [RoleRow -> Person \cup {Nobody}]
    BY <1>5 DEF mergePerson, TypeOK
  <2> QED BY <1>5, <2>1, <2>2, <2>3, <2>4 DEF mergePerson, TypeOK
<1>6. ASSUME NEW x \in BOOLEAN, NEW y \in BOOLEAN, update(x, y) PROVE TypeOK'
  <2>1. submitter' \in Submitter
    BY <1>6 DEF update, TypeOK, Submitter
  <2>2. status' \in [Row -> Status] /\ untold' \subseteq Row
    BY <1>6 DEF update, TypeOK
  <2> QED BY <1>6, <2>1, <2>2 DEF update, TypeOK
<1>10. CASE verification
  <2>1. submitter' \in Submitter
    BY <1>10 DEF verification, TypeOK, Submitter
  <2> QED BY <1>10, <2>1 DEF verification, TypeOK
<1>7. ASSUME NEW p \in Person, NEW s \in BOOLEAN, setSuppressed(p, s) PROVE TypeOK'
  BY <1>7 DEF setSuppressed, TypeOK, PersonRow
<1>8. CASE UNCHANGED vars
  BY <1>8 DEF vars, TypeOK
<1> QED BY <1>1, <1>2, <1>3, <1>4, <1>5, <1>6, <1>7, <1>8, <1>9, <1>10 DEF Next

\* Every overlap of requests keeps the rows' types: a decision writes statuses,
\* people and entries the tables may hold, and a count is a number.
THEOREM RowsKeepTypes ==
    ASSUME RowAssumption
    PROVE  Spec => []TypeOK
<1>1. TypeOK /\ [Next]_vars => TypeOK'
  BY NextTypes
<1> QED BY <1>1, InitTypes, PTL DEF Spec

----------------------------------------------------------------------------
(* What a decision leaves on a row's timeline. *)

\* The transaction: the row takes the status decided, and an entry.
LEMMA DecisionEntry ==
    ASSUME TypeOK, NEW a \in Admin, moderateRow(a), NEW r, r = req[a].row, NEW s, s = req[a].status
    PROVE  /\ s \in {"APPROVED", "REJECTED"}
           /\ \A x \in Row : status'[x] = IF x = r THEN s ELSE status[x]
           /\ \A x \in Row \ {r} : timeline'[x] = timeline[x]
           /\ r \in Row /\ s = "APPROVED" => LastIs(timeline'[r], "CREATE")
           /\ r \in Row /\ s # "APPROVED" /\ req[a].seen = "APPROVED" => ~ LastIs(timeline'[r], "CREATE")
           /\ r \in Row /\ s # "APPROVED" /\ req[a].seen # "APPROVED" => timeline'[r] = timeline[r]
<1>1. s \in {"APPROVED", "REJECTED"} /\ status' = [status EXCEPT ![r] = s]
  BY DEF moderateRow, TypeOK, Request
<1>2. PICK e : e = Entry(req[a].seen, s)
  OBVIOUS
<1>3. timeline' = [timeline EXCEPT ![r] = @ \o e]
  BY <1>2 DEF moderateRow
<1>4. \A x \in Row : timeline'[x] = IF x = r THEN timeline[x] \o e ELSE timeline[x]
  BY <1>3 DEF TypeOK
<1>5. ASSUME r \in Row
      PROVE  /\ s = "APPROVED" => LastIs(timeline'[r], "CREATE")
             /\ s # "APPROVED" /\ req[a].seen = "APPROVED" => ~ LastIs(timeline'[r], "CREATE")
             /\ s # "APPROVED" /\ req[a].seen # "APPROVED" => timeline'[r] = timeline[r]
  <2> DEFINE tl == timeline[r]
  <2>1. tl \in Seq({"CREATE", "RETRACT"}) /\ timeline'[r] = tl \o e
    BY <1>4, <1>5 DEF TypeOK
  <2> HIDE DEF tl
  <2>2. ASSUME NEW x, e = <<x>>
        PROVE  Len(timeline'[r]) > 0 /\ timeline'[r][Len(timeline'[r])] = x
    BY <2>1, <2>2
  <2>3. CASE s = "APPROVED"
    BY <1>2, <2>2, <2>3 DEF Entry, LastIs
  <2>4. CASE s # "APPROVED" /\ req[a].seen = "APPROVED"
    <3>1. e = <<"RETRACT">>
      BY <1>2, <2>4 DEF Entry
    <3> QED BY <2>2, <2>4, <3>1 DEF LastIs
  <2>5. CASE s # "APPROVED" /\ req[a].seen # "APPROVED"
    <3>1. e = <<>>
      BY <1>2, <2>5 DEF Entry
    <3> QED BY <2>1, <2>5, <3>1 DEF tl
  <2> QED BY <2>3, <2>4, <2>5
<1>6. \A x \in Row : status'[x] = IF x = r THEN s ELSE status[x]
  BY <1>1 DEF TypeOK
<1> QED BY <1>1, <1>4, <1>5, <1>6

LEMMA NextShown ==
    ASSUME TypeOK, ShownIsCreated, [Next]_vars
    PROVE  ShownIsCreated'
<1>1. ASSUME UNCHANGED <<status, timeline>> PROVE ShownIsCreated'
  BY <1>1 DEF ShownIsCreated
<1>2. ASSUME NEW a \in Admin, moderateRow(a) PROVE ShownIsCreated'
  <2>1. PICK r, s : r = req[a].row /\ s = req[a].status
    OBVIOUS
  <2>2. ASSUME NEW x \in Row, status'[x] = "APPROVED" PROVE LastIs(timeline'[x], "CREATE")
    BY <1>2, <2>1, <2>2, DecisionEntry DEF ShownIsCreated
  <2> QED BY <2>2 DEF ShownIsCreated
<1>3. ASSUME NEW x \in BOOLEAN, NEW y \in BOOLEAN, update(x, y) PROVE ShownIsCreated'
  <2>1. \A z \in Row : status'[z] = "APPROVED" => status[z] = "APPROVED"
    BY <1>3 DEF update
  <2> QED BY <1>3, <2>1 DEF ShownIsCreated, update
<1>4. CASE UNCHANGED vars
  BY <1>1, <1>4 DEF vars
<1> QED BY <1>1, <1>2, <1>3, <1>4
        DEF Next, loadSubmissionNotice, resolvePerson, countPublicRoles, refreshDirectoryCounts,
            verification, mergePerson, setSuppressed

\* Whatever overlaps, the newest entry of what a profile shows is its CREATE
\* (moderateRow).
THEOREM ShownStaysCreated ==
    ASSUME RowAssumption
    PROVE  Spec => []ShownIsCreated
<1>1. Init => ShownIsCreated
  BY DEF Init, ShownIsCreated
<1>2. TypeOK /\ ShownIsCreated /\ [Next]_vars => ShownIsCreated'
  BY NextShown
<1>3. TypeOK /\ [Next]_vars => TypeOK'
  BY NextTypes
<1> QED BY <1>1, <1>2, <1>3, InitTypes, PTL DEF Spec

----------------------------------------------------------------------------
(* No two requests overlap: what one of them read, and what it owes.       *)

\* What a request has seen and decided is so, but for what a ban swept away.
Sees(a) ==
    /\ req[a].pc \in {"noticed", "resolved"} =>
         /\ req[a].row \in Row
         /\ req[a].seen = "APPROVED" <=> status[req[a].row] = "APPROVED"
         /\ req[a].seen = status[req[a].row] \/ req[a].row \in untold
         /\ req[a].tell => req[a].seen # req[a].status
         /\ req[a].seen = req[a].status \/ req[a].tell \/ ~ req[a].reachable
         /\ req[a].scope = CountScope(req[a].row)
    /\ req[a].pc \in {"decided", "counted"} =>
         /\ req[a].row \in Row => status[req[a].row] = req[a].status
         /\ req[a].tell => req[a].row \in Row

\* A count is in order but for people a request is still to count.
Due(a, p) ==
    \/ req[a].pc = "decided" /\ p \in Target(MergeScopes(CountScope(req[a].row), req[a].scope))
    \/ req[a].pc = "counted" /\ p \in req[a].scope.people
CountInv ==
    /\ \A p \in Person : roleCount[p] = Cardinality(PublicRoles(p)) \/ \E a \in Admin : Due(a, p)
    /\ \A a \in Admin, p \in Person :
         req[a].pc = "counted" => req[a].counts[p] = Cardinality(PublicRoles(p))

\* The last mail tells the status, but for one a request is still to send.
Told(r) == IF mail[r] = <<>> THEN status[r] = "PENDING" ELSE mail[r][Len(mail[r])].told = status[r]
Owes(a, r) == req[a].pc \in {"decided", "counted"} /\ req[a].tell /\ req[a].row = r
NoTwice(m) == \A i \in 1 .. Len(m) - 1 : m[i].told = m[i + 1].told => m[i + 1].late
News(a, r) == mail[r] = <<>> \/ mail[r][Len(mail[r])].told # req[a].status
MailInv ==
    \A r \in Row :
        /\ NoTwice(mail[r])
        /\ r \in untold \/ Told(r) \/ \E a \in Admin : Owes(a, r)
        /\ \A a \in Admin : Owes(a, r) => r \in untold \/ News(a, r)

SerialInv ==
    /\ TypeOK /\ OneAtATime /\ ShownIsCreated /\ GoneIsRetracted
    /\ (\A a \in Admin : Sees(a)) /\ CountInv /\ MailInv

LEMMA OnlyOne ==
    ASSUME OneAtATime, NEW a \in Admin, req[a].pc # "idle", NEW b \in Admin, b # a
    PROVE  req[b].pc = "idle"
BY DEF OneAtATime

LEMMA InitSerial ==
    ASSUME RowAssumption, Init
    PROVE  SerialInv
<1>1. TypeOK
  BY InitTypes
<1>2. \A a \in Admin : req[a].pc = "idle"
  BY DEF Init, IdleRequest
<1>3. OneAtATime /\ \A a \in Admin : Sees(a)
  BY <1>2 DEF OneAtATime, Sees
<1>4. ShownIsCreated /\ GoneIsRetracted
  BY DEF Init, ShownIsCreated, GoneIsRetracted, LastIs
<1>5. CountInv
  <2>1. \A p \in Person : PublicRoles(p) = {} /\ roleCount[p] = 0
    BY DEF Init, PublicRoles, RowAssumption, NoCounts
  <2> QED BY <1>2, <2>1, FS_EmptySet DEF CountInv
<1>6. MailInv
  BY <1>2 DEF Init, MailInv, NoTwice, Told, Owes, News
<1> QED BY <1>1, <1>3, <1>4, <1>5, <1>6 DEF SerialInv

\* Steps that decide nothing and move no role: the counts stay right.
LEMMA SamePublic ==
    ASSUME personOf' = personOf, \A r \in RoleRow : (status'[r] = "APPROVED") <=> (status[r] = "APPROVED"),
           (status'[CompanyRow] = "APPROVED") <=> (status[CompanyRow] = "APPROVED")
    PROVE  \A p : PublicRoles(p)' = PublicRoles(p)
BY DEF PublicRoles

\* The notice: what it reads is so.
LEMMA NoticeKeeps ==
    ASSUME RowAssumption, SerialInv, OneAtATime', NEW a \in Admin, NEW r \in Row,
           NEW s \in {"APPROVED", "REJECTED"}, loadSubmissionNotice(a, r, s)
    PROVE  SerialInv'
<1> DEFINE told == ShouldNotify(status[r], s)
           can == Reachable
           e == [IdleRequest EXCEPT !.pc = "noticed", !.row = r, !.status = s, !.seen = status[r],
                                    !.tell = told, !.reachable = can, !.scope = CountScope(r)]
<1>1. /\ req' = [req EXCEPT ![a] = e] /\ req[a].pc = "idle"
      /\ UNCHANGED <<status, personOf, people, roleCount, firm, timeline, mail, untold>>
  BY DEF loadSubmissionNotice
<1>2. told => status[r] # s
  BY DEF ShouldNotify
<1>3. status[r] = s \/ told \/ ~ can
  BY DEF ShouldNotify
<1> HIDE DEF told, can
<1>4. /\ e.pc = "noticed" /\ e.row = r /\ e.status = s /\ e.seen = status[r] /\ e.tell = told
      /\ e.reachable = can /\ e.scope = CountScope(r)
  BY DEF IdleRequest
<1> HIDE DEF e
<1>5. \A b \in Admin : req'[b] = IF b = a THEN e ELSE req[b]
  BY <1>1 DEF SerialInv, TypeOK
<1>6. \A b \in Admin \ {a} : req'[b].pc = "idle"
  BY <1>4, <1>5 DEF OneAtATime
<1>7. TypeOK'
  BY NextTypes DEF SerialInv, Next
<1>8. CountScope(r)' = CountScope(r)
  BY <1>1 DEF CountScope
<1>9. Sees(a)'
  <2>2. req'[a].tell => req'[a].seen # req'[a].status
    BY <1>2, <1>4, <1>5
  <2>3. req'[a].seen = req'[a].status \/ req'[a].tell \/ ~ req'[a].reachable
    BY <1>3, <1>4, <1>5
  <2>4. req'[a].pc = "noticed" /\ req'[a].row = r /\ req'[a].seen = status[r] /\ req'[a].scope = CountScope(r)
    BY <1>4, <1>5
  <2> QED BY <1>1, <1>8, <2>2, <2>3, <2>4 DEF Sees
<1>10. \A b \in Admin : Sees(b)'
  BY <1>6, <1>9 DEF Sees
<1>12. CountInv'
  <2>1. \A p : PublicRoles(p)' = PublicRoles(p)
    BY <1>1, SamePublic
  <2>2. \A b \in Admin : req[b].pc = "idle"
    BY <1>1, <1>5, <1>6
  <2>3. \A p \in Person : roleCount[p] = Cardinality(PublicRoles(p))
    BY <2>2 DEF SerialInv, CountInv, Due
  <2>4. \A b \in Admin : req'[b].pc # "counted"
    BY <1>4, <1>5, <1>6
  <2> QED BY <1>1, <2>1, <2>3, <2>4 DEF CountInv
<1>13. MailInv'
  <2>1. \A b \in Admin : req[b].pc = "idle" /\ req'[b].pc \notin {"decided", "counted"}
    BY <1>1, <1>4, <1>5, <1>6
  <2> QED BY <1>1, <2>1 DEF SerialInv, MailInv, Told, Owes, News
<1> QED BY <1>1, <1>7, <1>10, <1>12, <1>13 DEF SerialInv, ShownIsCreated, GoneIsRetracted

\* The look for the person writes nothing yet.
LEMMA ResolveKeeps ==
    ASSUME RowAssumption, SerialInv, OneAtATime', NEW a \in Admin, resolvePerson(a)
    PROVE  SerialInv'
<1> DEFINE p == FoundPerson
           c == Existing = {}
           e == [req[a] EXCEPT !.pc = "resolved", !.person = p, !.creates = c]
<1>1. /\ req' = [req EXCEPT ![a] = e] /\ req[a].pc = "noticed"
      /\ UNCHANGED <<status, personOf, people, roleCount, firm, timeline, mail, untold>>
  BY DEF resolvePerson, SerialInv, TypeOK
<1> HIDE DEF p, c
<1>2. /\ e.pc = "resolved" /\ e.row = req[a].row /\ e.status = req[a].status
      /\ e.seen = req[a].seen /\ e.tell = req[a].tell /\ e.reachable = req[a].reachable
      /\ e.scope = req[a].scope
  BY DEF SerialInv, TypeOK, Request
<1> HIDE DEF e
<1>3. \A b \in Admin : req'[b] = IF b = a THEN e ELSE req[b]
  BY <1>1 DEF SerialInv, TypeOK
<1>4. \A b \in Admin \ {a} : req[b].pc = "idle" /\ req'[b].pc = "idle"
  BY <1>1, <1>3, OnlyOne DEF SerialInv
<1>5. TypeOK'
  BY NextTypes DEF SerialInv, Next
<1>6. \A r : CountScope(r)' = CountScope(r)
  BY <1>1 DEF CountScope
<1>7. Sees(a)'
  BY <1>1, <1>2, <1>3, <1>6 DEF SerialInv, Sees
<1>8. \A b \in Admin : Sees(b)'
  BY <1>4, <1>7 DEF Sees
<1>9. CountInv'
  <2>1. \A q : PublicRoles(q)' = PublicRoles(q)
    BY <1>1, SamePublic
  <2>2. \A q \in Person : roleCount[q] = Cardinality(PublicRoles(q))
    BY <1>1, <1>4 DEF SerialInv, CountInv, Due
  <2>3. \A b \in Admin : req'[b].pc # "counted"
    BY <1>2, <1>3, <1>4
  <2> QED BY <1>1, <2>1, <2>2, <2>3 DEF CountInv
<1>10. MailInv'
  <2>1. \A b \in Admin : req[b].pc \notin {"decided", "counted"} /\ req'[b].pc \notin {"decided", "counted"}
    BY <1>1, <1>2, <1>3, <1>4
  <2> QED BY <1>1, <2>1 DEF SerialInv, MailInv, Told, Owes, News
<1> QED BY <1>1, <1>5, <1>8, <1>9, <1>10 DEF SerialInv, ShownIsCreated, GoneIsRetracted

LEMMA SomebodyElse == \A p \in Person : p # Nobody
BY DEF Person

\* The decision: the row's entry, the counts it moves and the mail it owes.
LEMMA DecisionKeeps ==
    ASSUME RowAssumption, SerialInv, OneAtATime', NEW a \in Admin, moderateRow(a)
    PROVE  SerialInv'
<1>1. PICK r \in Row, s \in {"APPROVED", "REJECTED"} : r = req[a].row /\ s = req[a].status
  BY DEF SerialInv, Sees, moderateRow, TypeOK, Request
<1>2. /\ req[a].pc \in {"noticed", "resolved"} /\ req' = [req EXCEPT ![a].pc = "decided"]
      /\ UNCHANGED <<roleCount, mail>>
      /\ untold' = IF status[r] # s /\ ~ req[a].reachable THEN untold \cup {r} ELSE untold
      /\ \A x \in RoleRow : x # r => personOf'[x] = personOf[x]
      /\ r \notin RoleRow => personOf' = personOf
  <2>1. CASE r \in RoleRow /\ s = "APPROVED"
    <3>1. PICK p : ResolvesTo(r, p)
      BY <1>1, <2>1 DEF moderateRow
    <3> QED BY <1>1, <2>1, <3>1 DEF moderateRow, ResolvesTo, SerialInv, TypeOK
  <2>2. CASE ~ (r \in RoleRow /\ s = "APPROVED")
    BY <1>1, <2>2 DEF moderateRow
  <2> QED BY <2>1, <2>2
<1>3. /\ \A b \in Admin \ {a} : req[b].pc = "idle" /\ req'[b].pc = "idle"
      /\ req'[a].pc = "decided" /\ req'[a].row = r /\ req'[a].status = s
      /\ req'[a].tell = req[a].tell /\ req'[a].scope = req[a].scope /\ req'[a].seen = req[a].seen
  BY <1>1, <1>2, OnlyOne DEF SerialInv, TypeOK, Request
<1>4. /\ \A x \in Row : status'[x] = IF x = r THEN s ELSE status[x]
      /\ \A x \in Row \ {r} : timeline'[x] = timeline[x]
      /\ s # "APPROVED" /\ req[a].seen = "APPROVED" => ~ LastIs(timeline'[r], "CREATE")
      /\ s # "APPROVED" /\ req[a].seen # "APPROVED" => timeline'[r] = timeline[r]
  BY <1>1, DecisionEntry DEF SerialInv
<1>5. TypeOK' /\ ShownIsCreated'
  <2>1. [Next]_vars
    BY DEF Next
  <2> QED BY <2>1, NextTypes, NextShown DEF SerialInv
<1>6. /\ req[a].seen = "APPROVED" <=> status[r] = "APPROVED"
      /\ req[a].seen = status[r] \/ r \in untold
      /\ req[a].tell => req[a].seen # s
      /\ req[a].seen = s \/ req[a].tell \/ ~ req[a].reachable
      /\ req[a].scope = CountScope(r)
  BY <1>1, <1>2 DEF SerialInv, Sees
<1>7. GoneIsRetracted'
  <2>1. ASSUME NEW x \in Row, status'[x] # "APPROVED" PROVE ~ LastIs(timeline'[x], "CREATE")
    <3>1. CASE x # r
      BY <1>4, <2>1, <3>1 DEF SerialInv, GoneIsRetracted
    <3>2. CASE x = r
      BY <1>4, <1>6, <2>1, <3>2 DEF SerialInv, GoneIsRetracted
    <3> QED BY <3>1, <3>2
  <2> QED BY <2>1 DEF GoneIsRetracted
<1>8. \A b \in Admin : Sees(b)'
  BY <1>1, <1>3, <1>4 DEF Sees
<1>9. CountInv'
  <2>1. \A p \in Person : roleCount[p] = Cardinality(PublicRoles(p))
    BY <1>2, <1>3 DEF SerialInv, CountInv, Due
  <2>2. \A b \in Admin : req'[b].pc # "counted"
    BY <1>3
  <2>3. ASSUME NEW p \in Person, ~ Due(a, p)' PROVE PublicRoles(p)' = PublicRoles(p)
    <3>1. PICK scope : scope = req[a].scope
      OBVIOUS
    <3>2. p \notin Target(MergeScopes(CountScope(r), scope))'
      BY <1>3, <2>3, <3>1 DEF Due
    <3>3. scope = CountScope(r)
      BY <1>6, <3>1
    <3>4. CASE r = CompanyRow
      <4>1. r \notin RoleRow /\ personOf' = personOf
        BY <1>2, <3>4 DEF RowAssumption
      <4>2. \A x \in RoleRow : personOf'[x] # p
        BY <3>2, <3>4 DEF Target, MergeScopes, CountScope
      <4> QED BY <4>1, <4>2 DEF PublicRoles
    <3>5. CASE r \in RoleRow
      <4>1. personOf[r] # p /\ personOf'[r] # p
        <5>1. p # Nobody
          BY SomebodyElse
        <5>2. scope.people = {personOf[r]} \ {Nobody}
          BY <3>3, <3>5 DEF CountScope
        <5>3. (CountScope(r).people)' = {personOf'[r]} \ {Nobody}
          BY <3>5 DEF CountScope
        <5>4. p \notin scope.people /\ p \notin (CountScope(r).people)'
          BY <3>2 DEF Target, MergeScopes
        <5> QED BY <5>1, <5>2, <5>3, <5>4
      <4>2. r # CompanyRow /\ CompanyRow \in Row /\ RoleRow \subseteq Row
        BY <3>5 DEF RowAssumption
      <4>3. status'[CompanyRow] = status[CompanyRow]
        BY <1>4, <4>2
      <4>4. \A x \in RoleRow : x # r => status'[x] = status[x] /\ personOf'[x] = personOf[x]
        BY <1>2, <1>4, <4>2
      <4> QED BY <4>1, <4>3, <4>4 DEF PublicRoles
    <3>6. CASE r # CompanyRow /\ r \notin RoleRow
      <4>1. personOf' = personOf /\ CompanyRow \in Row /\ RoleRow \subseteq Row
        BY <1>2, <3>6 DEF RowAssumption
      <4>2. status'[CompanyRow] = status[CompanyRow] /\ \A x \in RoleRow : status'[x] = status[x]
        BY <1>4, <3>6, <4>1
      <4> QED BY <4>1, <4>2 DEF PublicRoles
    <3> QED BY <3>4, <3>5, <3>6
  <2>4. \A p \in Person : roleCount'[p] = Cardinality(PublicRoles(p))' \/ \E b \in Admin : Due(b, p)'
    BY <1>2, <2>1, <2>3
  <2> QED BY <2>2, <2>4 DEF CountInv
<1>10. MailInv'
  <2> SUFFICES ASSUME NEW x \in Row
               PROVE  /\ NoTwice(mail[x])
                      /\ x \in untold' \/ Told(x)' \/ \E b \in Admin : Owes(b, x)'
                      /\ \A b \in Admin : Owes(b, x)' => x \in untold' \/ News(b, x)'
    BY <1>2 DEF MailInv
  <2>1. NoTwice(mail[x]) /\ (x \in untold \/ Told(x))
    BY <1>2, <1>3 DEF SerialInv, MailInv, Owes
  <2>2. CASE x # r
    <3>1. \A b \in Admin : ~ Owes(b, x)'
      BY <1>3, <2>2 DEF Owes
    <3>2. x \in untold' \/ Told(x)'
      BY <1>2, <1>4, <2>1, <2>2 DEF Told
    <3> QED BY <2>1, <3>1, <3>2
  <2>3. CASE x = r /\ req[a].tell
    <3>1. Owes(a, x)' /\ \A b \in Admin \ {a} : ~ Owes(b, x)'
      BY <1>3, <2>3 DEF Owes
    <3>2. x \in untold' \/ News(a, x)'
      <4>1. x \in untold => x \in untold'
        BY <1>2
      <4>2. CASE x \notin untold
        <5>1. status[x] # s /\ Told(x)
          BY <1>6, <2>1, <2>3, <4>2
        <5> QED BY <1>2, <1>3, <5>1 DEF Told, News
      <4> QED BY <4>1, <4>2
    <3> QED BY <2>1, <3>1, <3>2
  <2>4. CASE x = r /\ ~ req[a].tell
    <3>1. \A b \in Admin : ~ Owes(b, x)'
      BY <1>3, <2>4 DEF Owes
    <3>2. x \in untold' \/ Told(x)'
      <4>1. CASE status[r] # s /\ ~ req[a].reachable
        BY <1>2, <2>4, <4>1
      <4>2. CASE status[r] = s
        BY <1>2, <1>4, <2>1, <2>4, <4>2 DEF Told
      <4>3. CASE status[r] # s /\ req[a].reachable
        BY <1>2, <1>6, <2>4, <4>3
      <4> QED BY <4>1, <4>2, <4>3
    <3> QED BY <2>1, <3>1, <3>2
  <2> QED BY <2>2, <2>3, <2>4
<1> QED BY <1>5, <1>7, <1>8, <1>9, <1>10 DEF SerialInv

\* Counting: the numbers are the ones there are.
LEMMA CountKeeps ==
    ASSUME RowAssumption, SerialInv, OneAtATime', NEW a \in Admin, countPublicRoles(a)
    PROVE  SerialInv'
<1> DEFINE t == Target(MergeScopes(CountScope(req[a].row), req[a].scope))
           n == [p \in Person |-> Cardinality(PublicRoles(p))]
           c == [people |-> t, company |-> FALSE]
           e == [req[a] EXCEPT !.pc = "counted", !.scope = c, !.counts = n]
<1>1. /\ req' = [req EXCEPT ![a] = e] /\ req[a].pc = "decided"
      /\ UNCHANGED <<status, personOf, people, roleCount, firm, timeline, mail, untold>>
  BY DEF countPublicRoles, SerialInv, TypeOK
<1>2. c.people = t /\ \A p \in Person : n[p] = Cardinality(PublicRoles(p))
  OBVIOUS
<1>3. \A p \in Person : p \in t => Due(a, p)
  BY <1>1 DEF Due
<1>4. \A p \in Person : Due(a, p) => p \in t
  BY <1>1 DEF Due
<1> HIDE DEF t, n, c
<1>5. /\ e.pc = "counted" /\ e.row = req[a].row /\ e.status = req[a].status
      /\ e.tell = req[a].tell /\ e.scope = c /\ e.counts = n
  BY DEF SerialInv, TypeOK, Request
<1> HIDE DEF e
<1>6. \A b \in Admin : req'[b] = IF b = a THEN e ELSE req[b]
  BY <1>1 DEF SerialInv, TypeOK
<1>7. \A b \in Admin \ {a} : req[b].pc = "idle" /\ req'[b].pc = "idle"
  BY <1>1, <1>6, OnlyOne DEF SerialInv
<1>8. TypeOK'
  BY NextTypes DEF SerialInv, Next
<1>9. \A b \in Admin : Sees(b)'
  BY <1>1, <1>5, <1>6, <1>7 DEF SerialInv, Sees
<1>10. CountInv'
  <2>1. \A p : PublicRoles(p)' = PublicRoles(p)
    BY <1>1, SamePublic
  <2>2. \A p \in Person : p \in t => Due(a, p)'
    BY <1>2, <1>5, <1>6 DEF Due
  <2>3. \A p \in Person, b \in Admin : Due(b, p) => b = a
    BY <1>7 DEF Due
  <2>4. \A p \in Person : roleCount[p] = Cardinality(PublicRoles(p)) \/ Due(a, p)
    BY <2>3 DEF SerialInv, CountInv
  <2>5. \A b \in Admin, p \in Person : req'[b].pc = "counted" => req'[b].counts[p] = Cardinality(PublicRoles(p))
    BY <1>2, <1>5, <1>6, <1>7
  <2>6. \A p \in Person : roleCount'[p] = Cardinality(PublicRoles(p)) \/ \E b \in Admin : Due(b, p)'
    BY <1>1, <1>4, <2>2, <2>4
  <2>7. \A p : Cardinality(PublicRoles(p))' = Cardinality(PublicRoles(p))
    BY <2>1
  <2> QED BY <2>5, <2>6, <2>7 DEF CountInv
<1>11. MailInv'
  <2>1. \A b \in Admin, r \in Row : (Owes(b, r)' <=> Owes(b, r)) /\ req'[b].status = req[b].status
    BY <1>1, <1>5, <1>6, <1>7 DEF Owes
  <2>2. \A r \in Row : Told(r)' = Told(r)
    BY <1>1 DEF Told
  <2>3. \A b \in Admin, r \in Row : News(b, r)' = News(b, r)
    BY <1>1, <2>1 DEF News
  <2> QED BY <1>1, <2>1, <2>2, <2>3 DEF SerialInv, MailInv
<1> QED BY <1>1, <1>8, <1>9, <1>10, <1>11 DEF SerialInv, ShownIsCreated, GoneIsRetracted

\* One more mail: it repeats the one before it only if it is late.
LEMMA MailGrows ==
    ASSUME NEW m \in Seq(Mail), NEW s \in Mail, NoTwice(m),
           s.late \/ m = <<>> \/ m[Len(m)].told # s.told
    PROVE  /\ NoTwice(Append(m, s))
           /\ Append(m, s)[Len(Append(m, s))] = s
           /\ Append(m, s) # <<>>
<1>1. Len(Append(m, s)) = Len(m) + 1 /\ Len(m) \in Nat
  OBVIOUS
<1>2. \A i \in 1 .. Len(m) : Append(m, s)[i] = m[i]
  OBVIOUS
<1>3. Append(m, s)[Len(m) + 1] = s /\ Append(m, s) # <<>>
  OBVIOUS
<1>4. ASSUME NEW i \in 1 .. Len(m), Append(m, s)[i].told = Append(m, s)[i + 1].told
      PROVE  Append(m, s)[i + 1].late
  <2>1. CASE i = Len(m)
    <3>1. m # <<>>
      BY <1>1, <2>1
    <3> QED BY <1>1, <1>2, <1>3, <1>4, <2>1, <3>1
  <2>2. CASE i # Len(m)
    <3>1. i \in 1 .. Len(m) - 1 /\ i + 1 \in 1 .. Len(m)
      BY <1>1, <2>2
    <3> QED BY <1>2, <1>4, <3>1 DEF NoTwice
  <2> QED BY <2>1, <2>2
<1> QED BY <1>1, <1>3, <1>4 DEF NoTwice

\* The answer: the counts it owed are stored, the mail it owed is sent.
LEMMA AnswerKeeps ==
    ASSUME RowAssumption, SerialInv, OneAtATime', NEW a \in Admin, refreshDirectoryCounts(a)
    PROVE  SerialInv'
<1>1. /\ req' = [req EXCEPT ![a] = IdleRequest] /\ req[a].pc = "counted"
      /\ UNCHANGED <<status, personOf, people, firm, timeline>>
      /\ \A p \in Person : roleCount'[p] = IF p \in req[a].scope.people THEN req[a].counts[p] ELSE roleCount[p]
  BY DEF refreshDirectoryCounts
<1>2. \A b \in Admin : req'[b].pc = "idle" /\ (b # a => req[b].pc = "idle")
  BY <1>1, OnlyOne DEF SerialInv, TypeOK, IdleRequest
<1>3. TypeOK'
  BY NextTypes DEF SerialInv, Next
<1>4. \A b \in Admin : Sees(b)'
  BY <1>2 DEF Sees
<1>5. CountInv'
  <2>1. \A p : PublicRoles(p)' = PublicRoles(p)
    BY <1>1, SamePublic
  <2>2. ASSUME NEW p \in Person PROVE roleCount'[p] = Cardinality(PublicRoles(p))
    <3>1. req[a].counts[p] = Cardinality(PublicRoles(p))
      BY <1>1 DEF SerialInv, CountInv
    <3>2. p \in req[a].scope.people \/ roleCount[p] = Cardinality(PublicRoles(p))
      BY <1>1, <1>2 DEF SerialInv, CountInv, Due
    <3> QED BY <1>1, <3>1, <3>2
  <2> QED BY <1>2, <2>1, <2>2 DEF CountInv
<1>6. MailInv'
  <2> SUFFICES ASSUME NEW x \in Row PROVE NoTwice(mail'[x]) /\ (x \in untold' \/ Told(x)')
    BY <1>1, <1>2 DEF MailInv, Owes
  <2>1. /\ NoTwice(mail[x])
        /\ x \in untold \/ Told(x) \/ Owes(a, x)
        /\ Owes(a, x) => x \in untold \/ News(a, x)
    BY <1>2 DEF SerialInv, MailInv, Owes
  <2>2. CASE ~ Owes(a, x)
    <3>1. mail'[x] = mail[x] /\ (x \in untold => x \in untold')
      BY <1>1, <2>2 DEF refreshDirectoryCounts, Owes, SerialInv, TypeOK
    <3> QED BY <1>1, <2>1, <2>2, <3>1 DEF Told
  <2>3. CASE Owes(a, x)
    <3>1. PICK s \in {"APPROVED", "REJECTED"} : s = req[a].status
      BY DEF SerialInv, TypeOK, Request
    <3>2. PICK sent : sent = [told |-> s, late |-> x \in untold]
      OBVIOUS
    <3>8. sent \in Mail /\ sent.told = s
      BY <3>2 DEF Mail
    <3>9. ASSUME x \in untold PROVE sent.late
      BY <3>2, <3>9, Zenon
    <3>3. sent \in Mail /\ sent.told = s /\ (x \in untold => sent.late)
      BY <3>8, <3>9
    <3>4. mail'[x] = Append(mail[x], sent) /\ status[x] = s
      <4>1. mail' = [mail EXCEPT ![x] = Append(@, [told |-> req[a].status, late |-> x \in untold])]
        BY <1>1, <2>3 DEF refreshDirectoryCounts, Owes
      <4>2. sent = [told |-> req[a].status, late |-> x \in untold]
        BY <3>1, <3>2
      <4>3. mail' = [mail EXCEPT ![x] = Append(@, sent)]
        BY <4>1, <4>2
      <4>4. status[x] = s
        BY <1>1, <2>3, <3>1 DEF Owes, SerialInv, Sees
      <4> QED BY <4>3, <4>4 DEF SerialInv, TypeOK
    <3>5. mail[x] \in Seq(Mail)
      BY DEF SerialInv, TypeOK
    <3>6. sent.late \/ mail[x] = <<>> \/ mail[x][Len(mail[x])].told # sent.told
      BY <2>1, <2>3, <3>1, <3>3 DEF News
    <3>7. NoTwice(mail'[x]) /\ mail'[x][Len(mail'[x])] = sent /\ mail'[x] # <<>>
      <4>1. PICK m \in Seq(Mail) : m = mail[x]
        BY <3>5
      <4>2. NoTwice(m) /\ (sent.late \/ m = <<>> \/ m[Len(m)].told # sent.told)
        BY <2>1, <3>6, <4>1
      <4>3. NoTwice(Append(m, sent)) /\ Append(m, sent)[Len(Append(m, sent))] = sent /\ Append(m, sent) # <<>>
        BY <3>3, <4>2, MailGrows
      <4> QED BY <3>4, <4>1, <4>3
    <3> QED BY <1>1, <3>3, <3>4, <3>7 DEF Told
  <2> QED BY <2>2, <2>3
<1> QED BY <1>1, <1>3, <1>4, <1>5, <1>6 DEF SerialInv, ShownIsCreated, GoneIsRetracted

\* A merge: the roles move, and both people are to be counted.
LEMMA MergeKeeps ==
    ASSUME RowAssumption, SerialInv, OneAtATime', NEW a \in Admin, NEW loser \in Person,
           NEW survivor \in Person, mergePerson(a, loser, survivor)
    PROVE  SerialInv'
<1> DEFINE c == [people |-> {loser, survivor}, company |-> FALSE]
           e == [IdleRequest EXCEPT !.pc = "decided", !.scope = c]
<1>1. /\ req' = [req EXCEPT ![a] = e] /\ req[a].pc = "idle"
      /\ personOf' = [r \in RoleRow |-> IF personOf[r] = loser THEN survivor ELSE personOf[r]]
      /\ UNCHANGED <<status, roleCount, firm, timeline, mail, untold>>
  BY DEF mergePerson
<1>2. c.people = {loser, survivor} /\ c.company = FALSE
  OBVIOUS
<1> HIDE DEF c
<1>3. e.pc = "decided" /\ e.row = NoRow /\ e.tell = FALSE /\ e.scope = c
  BY DEF IdleRequest
<1> HIDE DEF e
<1>4. \A b \in Admin : req'[b] = IF b = a THEN e ELSE req[b]
  BY <1>1 DEF SerialInv, TypeOK
<1>5. \A b \in Admin : req[b].pc = "idle" /\ (b # a => req'[b].pc = "idle")
  BY <1>1, <1>3, <1>4 DEF OneAtATime
<1>6. TypeOK'
  BY NextTypes DEF SerialInv, Next
<1>7. \A b \in Admin : Sees(b)'
  BY <1>3, <1>4, <1>5 DEF Sees, RowAssumption
<1>8. CountInv'
  <2>1. \A p \in Person : roleCount[p] = Cardinality(PublicRoles(p))
    BY <1>5 DEF SerialInv, CountInv, Due
  <2>2. \A p \in Person \ {loser, survivor} : PublicRoles(p)' = PublicRoles(p)
    BY <1>1 DEF PublicRoles
  <2>3. ASSUME NEW p \in {loser, survivor} PROVE Due(a, p)'
    <3>1. PICK row : row = req'[a].row
      OBVIOUS
    <3>2. p \in Target(MergeScopes(CountScope(row), c))'
      BY <1>2, <2>3 DEF Target, MergeScopes
    <3> QED BY <1>3, <1>4, <3>1, <3>2 DEF Due
  <2>4. \A b \in Admin : req'[b].pc # "counted"
    BY <1>3, <1>4, <1>5
  <2>5. \A p \in Person \ {loser, survivor} : roleCount'[p] = Cardinality(PublicRoles(p))'
    BY <1>1, <2>1, <2>2
  <2> QED BY <2>3, <2>4, <2>5 DEF CountInv
<1>9. MailInv'
  <2>1. \A b \in Admin, r \in Row : ~ Owes(b, r) /\ ~ Owes(b, r)'
    BY <1>3, <1>4, <1>5 DEF Owes
  <2>2. \A r \in Row : Told(r)' = Told(r)
    BY <1>1 DEF Told
  <2> QED BY <1>1, <2>1, <2>2 DEF SerialInv, MailInv
<1> QED BY <1>1, <1>6, <1>7, <1>8, <1>9 DEF SerialInv, ShownIsCreated, GoneIsRetracted

\* A ban rejects what was pending, untold.
LEMMA UpdateKeeps ==
    ASSUME RowAssumption, SerialInv, OneAtATime', NEW admin \in BOOLEAN, NEW banned \in BOOLEAN,
           update(admin, banned)
    PROVE  SerialInv'
<1>1. PICK swept \in SUBSET Row :
           /\ \A r \in swept : status[r] = "PENDING"
           /\ \A r \in Row : status'[r] = IF r \in swept THEN "REJECTED" ELSE status[r]
           /\ untold' = untold \cup swept
           /\ UNCHANGED <<personOf, people, roleCount, firm, timeline, mail, req>>
  <2>1. PICK swept : swept = IF banned /\ ~ submitter.banned
                             THEN {r \in Row : status[r] = "PENDING"} ELSE {}
    OBVIOUS
  <2>2. swept \in SUBSET Row /\ \A r \in swept : status[r] = "PENDING"
    BY <2>1
  <2>3. /\ status' = [r \in Row |-> IF r \in swept THEN "REJECTED" ELSE status[r]]
        /\ untold' = untold \cup swept
        /\ UNCHANGED <<personOf, people, roleCount, firm, timeline, mail, req>>
    BY <2>1 DEF update
  <2> QED BY <2>2, <2>3
<1>2. TypeOK' /\ ShownIsCreated'
  <2>1. [Next]_vars
    BY DEF Next
  <2> QED BY <2>1, NextTypes, NextShown DEF SerialInv
<1>3. \A r \in Row : status'[r] = "APPROVED" <=> status[r] = "APPROVED"
  BY <1>1
<1>4. GoneIsRetracted'
  BY <1>1, <1>3 DEF SerialInv, GoneIsRetracted
<1>5. ASSUME NEW a \in Admin PROVE Sees(a)'
  <2>1. Sees(a) /\ req[a].status \in {"APPROVED", "REJECTED"}
    BY DEF SerialInv, TypeOK, Request
  <2>2. PICK r : r = req[a].row
    OBVIOUS
  <2>3. CountScope(r)' = CountScope(r)
    BY <1>1 DEF CountScope
  <2>4. ASSUME req[a].pc \in {"noticed", "resolved"}
        PROVE  /\ r \in Row /\ (req[a].seen = "APPROVED" <=> status'[r] = "APPROVED")
               /\ req[a].seen = status'[r] \/ r \in untold'
               /\ req[a].tell => req[a].seen # req[a].status
               /\ req[a].seen = req[a].status \/ req[a].tell \/ ~ req[a].reachable
               /\ req[a].scope = CountScope(r)'
    BY <1>1, <1>3, <2>1, <2>2, <2>3, <2>4 DEF Sees
  <2>5. ASSUME req[a].pc \in {"decided", "counted"}
        PROVE  (r \in Row => status'[r] = req[a].status) /\ (req[a].tell => r \in Row)
    BY <1>1, <2>1, <2>2, <2>5 DEF Sees
  <2> QED BY <1>1, <2>2, <2>4, <2>5 DEF Sees
<1>6. CountInv'
  <2>1. \A p : PublicRoles(p)' = PublicRoles(p)
    BY <1>1, <1>3, SamePublic DEF RowAssumption
  <2>2. ASSUME NEW a \in Admin, NEW p \in Person PROVE Due(a, p)' <=> Due(a, p)
    BY <1>1 DEF Due, Target, MergeScopes, CountScope
  <2> QED BY <1>1, <2>1, <2>2 DEF SerialInv, CountInv
<1>7. MailInv'
  <2>1. \A a \in Admin, r \in Row : (Owes(a, r)' <=> Owes(a, r)) /\ (News(a, r)' <=> News(a, r))
    BY <1>1 DEF Owes, News
  <2>2. \A r \in Row : Told(r) => Told(r)' \/ r \in untold'
    BY <1>1 DEF Told
  <2> QED BY <1>1, <2>1, <2>2 DEF SerialInv, MailInv
<1> QED BY <1>2, <1>4, <1>5, <1>6, <1>7 DEF SerialInv

\* Steps that write no row and answer no request.
LEMMA LooksKeep ==
    ASSUME SerialInv, OneAtATime', TypeOK',
           UNCHANGED <<status, personOf, roleCount, timeline, mail, untold, req>>
    PROVE  SerialInv'
<1>1. \A a \in Admin : Sees(a)'
  BY DEF SerialInv, Sees, CountScope
<1>2. CountInv'
  <2>1. \A p : PublicRoles(p)' = PublicRoles(p)
    BY SamePublic
  <2>2. ASSUME NEW a \in Admin, NEW p \in Person PROVE Due(a, p)' <=> Due(a, p)
    BY DEF Due, Target, MergeScopes, CountScope
  <2> QED BY <2>1, <2>2 DEF SerialInv, CountInv
<1>3. MailInv'
  <2>1. \A b \in Admin, r \in Row : Owes(b, r)' = Owes(b, r)
    BY DEF Owes
  <2>2. \A r \in Row : Told(r)' = Told(r)
    BY DEF Told
  <2>3. \A b \in Admin, r \in Row : News(b, r)' = News(b, r)
    BY DEF News
  <2> QED BY <2>1, <2>2, <2>3 DEF SerialInv, MailInv
<1> QED BY <1>1, <1>2, <1>3 DEF SerialInv, ShownIsCreated, GoneIsRetracted

LEMMA NextSerial ==
    ASSUME RowAssumption, SerialInv, [Next /\ OneAtATime']_vars
    PROVE  SerialInv'
<1>1. CASE UNCHANGED vars
  <2>1. OneAtATime' /\ TypeOK'
    BY <1>1 DEF SerialInv, vars, OneAtATime, TypeOK
  <2> QED BY <1>1, <2>1, LooksKeep DEF vars
<1>2. CASE Next /\ OneAtATime'
  <2>1. ASSUME NEW p \in Person, NEW s \in BOOLEAN, setSuppressed(p, s) PROVE SerialInv'
    <3>1. TypeOK'
      BY <1>2, NextTypes DEF SerialInv
    <3> QED BY <1>2, <2>1, <3>1, LooksKeep DEF setSuppressed
  <2>2. ASSUME verification PROVE SerialInv'
    <3>1. TypeOK'
      BY <1>2, NextTypes DEF SerialInv
    <3> QED BY <1>2, <2>2, <3>1, LooksKeep DEF verification
  <2> QED BY <1>2, <2>1, <2>2, NoticeKeeps, ResolveKeeps, DecisionKeeps, CountKeeps, AnswerKeeps,
             MergeKeeps, UpdateKeeps
          DEF Next
<1> QED BY <1>1, <1>2

\* When no two requests overlap, while the submitter's role, ban and address
\* change as they may: a row that left a profile does not end its timeline with
\* a CREATE; once every request is answered the submitter was last told the
\* status each row has, unless it changed while they could not be mailed, and
\* nothing twice running but after such a change; and the stored counts are
\* the public ones (moderateRow, moderate, refreshDirectoryCounts).
THEOREM DecisionsAreTold ==
    ASSUME RowAssumption
    PROVE  SerialSpec => [](TypeOK /\ ShownIsCreated /\ GoneIsRetracted /\ MailTellsTheStatus /\ CountsInOrder)
<1>1. Init => SerialInv
  BY InitSerial
<1>2. SerialInv /\ [Next /\ OneAtATime']_vars => SerialInv'
  BY NextSerial
<1>3. SerialInv => TypeOK /\ ShownIsCreated /\ GoneIsRetracted /\ MailTellsTheStatus /\ CountsInOrder
  <2> SUFFICES ASSUME SerialInv PROVE MailTellsTheStatus /\ CountsInOrder
    BY DEF SerialInv
  <2>1. CountsInOrder
    BY DEF SerialInv, CountInv, Due, CountsInOrder, Idle
  <2>2. MailTellsTheStatus
    BY DEF SerialInv, MailInv, Told, Owes, NoTwice, MailTellsTheStatus, Idle
  <2> QED BY <2>1, <2>2
<1> QED BY <1>1, <1>2, <1>3, PTL DEF SerialSpec

=============================================================================
