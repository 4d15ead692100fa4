------------------------ MODULE WebsiteEnrichmentProofs ------------------------
(***************************************************************************)
(* Theorems of WebsiteEnrichment, for any number of companies, sites and   *)
(* technologies, any expiry and any bounds.                                *)
(***************************************************************************)
EXTENDS WebsiteEnrichment, FiniteSetTheorems, WellFoundedInduction, TLAPS

----------------------------------------------------------------------------
(* Retirement: what an observation counts is what its scans missed. *)

Observation ==
    [seen : BOOLEAN, last : Nat, version : Nat, absences : 0 .. 2, absentAt : Nat,
     retired : BOOLEAN, suppressed : BOOLEAN]
Misses == SUBSET (Nat \X Nat)

ObservedType ==
    /\ week \in Nat /\ version \in Nat
    /\ seen \in [Key -> [Technology -> Observation]]
    /\ missed \in [Key -> [Technology -> Misses]]

\* The first absence is one that was missed, under the row's rules; two make
\* it retired, and nothing else does.
Tells(o, misses) ==
    /\ o.retired <=> o.absences = 2
    /\ o.absences = 1 => <<o.absentAt, o.version>> \in misses
    /\ o.retired => \E x, y \in misses : x[1] < y[1] /\ x[2] = o.version /\ y[2] = o.version

CountsTellTheMisses == \A k \in Key, t \in Technology : Tells(seen[k][t], missed[k][t])

AbsenceInv == ObservedType /\ CountsTellTheMisses

LEMMA CountedType ==
    ASSUME NEW o \in Observation, NEW n \in 0 .. 2, NEW w \in Nat
    PROVE  [o EXCEPT !.absences = n, !.absentAt = w] \in Observation
BY DEF Observation

LEMMA RetiredType ==
    ASSUME NEW o \in Observation
    PROVE  [o EXCEPT !.retired = TRUE] \in Observation /\ [o EXCEPT !.retired = FALSE] \in Observation
BY DEF Observation

LEMMA SuppressedType ==
    ASSUME NEW o \in Observation, NEW on \in BOOLEAN
    PROVE  [o EXCEPT !.suppressed = on] \in Observation
BY DEF Observation

LEMMA FoundTells ==
    ASSUME NEW o \in Observation, week \in Nat, version \in Nat
    PROVE  Found(o) \in Observation /\ Tells(Found(o), {})
<1> DEFINE f == Found(o)
           o1 == [o EXCEPT !.seen = TRUE]
           o2 == [o1 EXCEPT !.last = week, !.version = version]
           o3 == [o2 EXCEPT !.absences = 0, !.absentAt = 0]
<1>1. o1 \in Observation
  BY DEF Observation
<1>2. f = [o3 EXCEPT !.retired = FALSE]
  BY Zenon DEF Found
<1>3. o2 \in Observation
  <2> HIDE DEF o1
  <2> QED BY <1>1 DEF Observation
<1>4. o3 \in Observation
  <2> HIDE DEF o1, o2
  <2>1. 0 \in 0 .. 2 /\ 0 \in Nat
    OBVIOUS
  <2> QED BY <1>3, <2>1, CountedType, Zenon
<1>5. o3.absences = 0
  <2> HIDE DEF o1, o2
  <2> QED BY <1>3 DEF Observation
<1> HIDE DEF f, o1, o2, o3
<1>6. f \in Observation
  BY <1>2, <1>4, RetiredType
<1>7. f.absences = 0 /\ f.retired = FALSE
  BY <1>2, <1>4, <1>5 DEF Observation
<1>8. Tells(f, {})
  BY <1>7 DEF Tells
<1> QED BY <1>6, <1>8 DEF f

LEMMA AbsentTells ==
    ASSUME NEW o \in Observation, NEW misses \in Misses, week \in Nat, version \in Nat,
           Tells(o, misses), counts(o)
    PROVE  Absent(o) \in Observation /\ Tells(Absent(o), misses \cup {<<week, version>>})
<1> DEFINE a == Absent(o)
           more == misses \cup {<<week, version>>}
<1>1. ~ o.retired /\ o.version = version /\ o.absences \in 0 .. 2
  BY DEF Observation, counts
<1>2. o.absences # 2
  BY <1>1 DEF Tells
<1>3. <<week, version>> \in more
  OBVIOUS
<1>4. CASE o.absences = 0
  <2>1. (o.absences = 1) = FALSE /\ o.absences + 1 = 1
    BY <1>4
  <2>2. a = [o EXCEPT !.absences = 1, !.absentAt = week, !.retired = FALSE]
    BY <2>1, Zenon DEF Absent
  <2> DEFINE b == [o EXCEPT !.absences = 1, !.absentAt = week]
  <2>c. 1 \in 0 .. 2
    OBVIOUS
  <2>b. b \in Observation
    BY <2>c, CountedType, Zenon
  <2>a. a = [b EXCEPT !.retired = FALSE]
    BY <2>2, Zenon
  <2> HIDE DEF a, b
  <2>o. a \in Observation
    BY <2>a, <2>b, RetiredType
  <2>3. a.absences = 1 /\ a.absentAt = week /\ a.version = version
    BY <2>2, <1>1 DEF Observation
  <2>4. a.retired = FALSE
    BY <2>2 DEF Observation
  <2> HIDE DEF more
  <2>5. Tells(a, more)
    BY <2>3, <2>4, <1>3 DEF Tells
  <2> QED BY <2>o, <2>5 DEF a, more
<1>5. CASE o.absences = 1
  <2>1. (o.absences = 1) = TRUE /\ o.absences + 1 = 2
    BY <1>5
  <2>2. a = [o EXCEPT !.absences = 2, !.absentAt = week, !.retired = TRUE]
    BY <2>1, Zenon DEF Absent
  <2> DEFINE b == [o EXCEPT !.absences = 2, !.absentAt = week]
  <2>c. 2 \in 0 .. 2
    OBVIOUS
  <2>b. b \in Observation
    BY <2>c, CountedType, Zenon
  <2>a. a = [b EXCEPT !.retired = TRUE]
    BY <2>2, Zenon
  <2> HIDE DEF a, b
  <2>o. a \in Observation
    BY <2>a, <2>b, RetiredType
  <2>3. a.absences = 2 /\ a.version = version
    BY <2>2, <1>1 DEF Observation
  <2>4. a.retired = TRUE
    BY <2>2 DEF Observation
  <2>5. <<o.absentAt, version>> \in more /\ o.absentAt < week
    BY <1>1, <1>5 DEF Tells, counts
  <2> HIDE DEF more
  <2>6. Tells(a, more)
    <3> DEFINE x == <<o.absentAt, version>>
               y == <<week, version>>
    <3>1. x[1] < y[1] /\ x[2] = version /\ y[2] = version /\ x \in more /\ y \in more
      BY <2>5, <1>3
    <3> HIDE DEF x, y
    <3> QED BY <2>3, <2>4, <3>1 DEF Tells
  <2> QED BY <2>o, <2>6 DEF a, more
<1> QED BY <1>1, <1>2, <1>4, <1>5

LEMMA MoreTells ==
    ASSUME NEW o, NEW misses, NEW more, Tells(o, misses), misses \subseteq more
    PROVE  Tells(o, more)
BY DEF Tells

LEMMA SuppressedTells ==
    ASSUME NEW o \in Observation, NEW misses, NEW on \in BOOLEAN, Tells(o, misses)
    PROVE  Tells([o EXCEPT !.suppressed = on], misses)
<1> DEFINE a == [o EXCEPT !.suppressed = on]
<1>1. /\ a.retired = o.retired /\ a.absences = o.absences
      /\ a.absentAt = o.absentAt /\ a.version = o.version
  BY DEF Observation
<1> HIDE DEF a
<1>2. Tells(a, misses)
  BY <1>1 DEF Tells
<1> QED BY <1>2 DEF a

LEMMA InitAbsence == Init => AbsenceInv
<1> SUFFICES ASSUME Init PROVE AbsenceInv
  OBVIOUS
<1>1. Unseen \in Observation /\ Tells(Unseen, {})
  BY DEF Unseen, Observation, Tells
<1>2. week = 0 /\ version = 0
  BY DEF Init
<1>3. seen = [k \in Key |-> [t \in Technology |-> Unseen]]
  BY DEF Init
<1>4. missed = [k \in Key |-> [t \in Technology |-> {}]]
  BY DEF Init
<1>5. ObservedType
  BY <1>1, <1>2, <1>3, <1>4 DEF ObservedType, Misses
<1>6. CountsTellTheMisses
  BY <1>1, <1>3, <1>4 DEF CountsTellTheMisses
<1> QED BY <1>5, <1>6 DEF AbsenceInv

\* What one successful scan makes of one technology of its key.
LEMMA FiledTells ==
    ASSUME AbsenceInv, NEW found \in SUBSET Technology, persistSuccess(found),
           Current(job.key, job.owner)
    PROVE  AbsenceInv'
<1> DEFINE k == job.key
           Then(t) == IF t \in found THEN Found(seen[k][t])
                      ELSE IF counts(seen[k][t]) THEN Absent(seen[k][t]) ELSE seen[k][t]
           Now(t) == IF t \in found THEN {}
                     ELSE IF t \in {u \in Technology \ found : seen[k][u].seen} /\ eligible(scan[k].at) = k[2]
                     THEN missed[k][t] \cup {<<week, version>>} ELSE missed[k][t]
<1>1. k \in Key /\ eligible(scan[k].at) = k[2]
  BY DEF Current, Elected, Group
<1>2. /\ seen' = [seen EXCEPT ![k] = [t \in Technology |-> Then(t)]]
      /\ missed' = [missed EXCEPT ![k] = [t \in Technology |-> Now(t)]]
  BY DEF persistSuccess
<1>3. /\ week' = week /\ version' = version /\ week \in Nat /\ version \in Nat
      /\ seen \in [Key -> [Technology -> Observation]]
      /\ missed \in [Key -> [Technology -> Misses]]
      /\ \A j \in Key, t \in Technology : Tells(seen[j][t], missed[j][t])
  BY DEF persistSuccess, AbsenceInv, ObservedType, CountsTellTheMisses
<1>4. ASSUME NEW t \in Technology
      PROVE  Then(t) \in Observation /\ Now(t) \in Misses /\ Tells(Then(t), Now(t))
  <2>1. /\ seen[k][t] \in Observation /\ missed[k][t] \in Misses
        /\ Tells(seen[k][t], missed[k][t])
    BY <1>1, <1>3
  <2>2. {} \in Misses /\ missed[k][t] \cup {<<week, version>>} \in Misses
    BY <1>3, <2>1 DEF Misses
  <2>3. CASE t \in found
    BY <1>3, <2>1, <2>2, <2>3, FoundTells
  <2>4. CASE t \notin found /\ counts(seen[k][t])
    <3>1. Then(t) = Absent(seen[k][t])
      BY <2>4
    <3>2. Now(t) = missed[k][t] \cup {<<week, version>>}
      BY <1>1, <2>4 DEF counts
    <3> QED BY <1>3, <2>1, <2>2, <2>4, <3>1, <3>2, AbsentTells
  <2>5. CASE t \notin found /\ ~ counts(seen[k][t])
    <3>1. Then(t) = seen[k][t]
      BY <2>5
    <3>2. Now(t) \in Misses /\ missed[k][t] \subseteq Now(t)
      BY <2>1, <2>2, <2>5
    <3> HIDE DEF Now, Then
    <3> QED BY <2>1, <3>1, <3>2, MoreTells
  <2> QED BY <2>3, <2>4, <2>5
<1> HIDE DEF Then, Now, k
<1>5. ObservedType'
  BY <1>1, <1>2, <1>3, <1>4 DEF ObservedType
<1>6. CountsTellTheMisses'
  BY <1>1, <1>2, <1>3, <1>4 DEF CountsTellTheMisses
<1> QED BY <1>5, <1>6 DEF AbsenceInv

LEMMA SuppressAbsence ==
    ASSUME AbsenceInv, NEW k \in Key, NEW t \in Technology, NEW on \in BOOLEAN,
           suppress(k, t, on)
    PROVE  AbsenceInv'
<1> DEFINE rows == {j \in Group(scan[k].at, k[2]) : seen[j][t].seen}
<1>1. seen' = [j \in Key |-> IF j \in rows THEN [seen[j] EXCEPT ![t].suppressed = on] ELSE seen[j]]
  BY DEF suppress
<1>2. /\ missed' = missed /\ week' = week /\ version' = version /\ week \in Nat /\ version \in Nat
      /\ seen \in [Key -> [Technology -> Observation]]
      /\ missed \in [Key -> [Technology -> Misses]]
      /\ \A j \in Key, u \in Technology : Tells(seen[j][u], missed[j][u])
  BY DEF suppress, AbsenceInv, ObservedType, CountsTellTheMisses
<1> HIDE DEF rows
<1>3. ASSUME NEW j \in Key
      PROVE  /\ seen'[j] \in [Technology -> Observation]
             /\ \A u \in Technology : Tells(seen'[j][u], missed[j][u])
  <2>1. /\ seen[j] \in [Technology -> Observation]
        /\ \A u \in Technology : Tells(seen[j][u], missed[j][u])
    BY <1>2
  <2>2. CASE j \in rows
    <3> DEFINE a == [seen[j][t] EXCEPT !.suppressed = on]
    <3>1. seen'[j] = [seen[j] EXCEPT ![t] = a]
      BY <1>1, <2>2
    <3>2. a \in Observation /\ Tells(a, missed[j][t])
      BY <2>1, SuppressedType, SuppressedTells
    <3> HIDE DEF a
    <3> QED BY <2>1, <3>1, <3>2
  <2>3. CASE j \notin rows
    BY <1>1, <2>1, <2>3
  <2> QED BY <2>2, <2>3
<1>4. DOMAIN seen' = Key /\ seen' = [j \in Key |-> seen'[j]]
  BY <1>1
<1>5. ObservedType'
  BY <1>2, <1>3, <1>4 DEF ObservedType
<1>6. CountsTellTheMisses'
  BY <1>2, <1>3 DEF CountsTellTheMisses
<1> QED BY <1>5, <1>6 DEF AbsenceInv

LEMMA SameAbsence ==
    ASSUME AbsenceInv, seen' = seen, missed' = missed, week' \in Nat, version' \in Nat
    PROVE  AbsenceInv'
BY DEF AbsenceInv, ObservedType, CountsTellTheMisses

LEMMA NextAbsence == AbsenceInv /\ [Next]_vars => AbsenceInv'
<1> SUFFICES ASSUME AbsenceInv, [Next]_vars PROVE AbsenceInv'
  OBVIOUS
<1>0. week \in Nat /\ version \in Nat
  BY DEF AbsenceInv, ObservedType
<1>1. ASSUME seen' = seen, missed' = missed, week' = week, version' = version PROVE AbsenceInv'
  BY <1>0, <1>1, SameAbsence
<1>2. CASE discover
  BY <1>1, <1>2 DEF discover
<1>3. CASE finish
  BY <1>1, <1>3 DEF finish
<1>4. CASE pass
  BY <1>0, <1>4, SameAbsence DEF pass
<1>5. CASE deploy
  BY <1>0, <1>5, SameAbsence DEF deploy
<1>6. ASSUME NEW n \in 0 .. Page - 1, breakOff(n) PROVE AbsenceInv'
  BY <1>1, <1>6 DEF breakOff
<1>7. ASSUME NEW batch \in SUBSET Key, selectDueScans(batch) PROVE AbsenceInv'
  BY <1>1, <1>7 DEF selectDueScans
<1>8. ASSUME NEW k \in Key, NEW c \in Company, fetch(k, c) PROVE AbsenceInv'
  BY <1>1, <1>8 DEF fetch
<1>9. ASSUME NEW k \in Key, NEW t \in Technology, NEW on \in BOOLEAN, suppress(k, t, on)
      PROVE  AbsenceInv'
  BY <1>9, SuppressAbsence
<1>10. ASSUME NEW found \in SUBSET Technology, persistSuccess(found) PROVE AbsenceInv'
  <2>1. CASE Current(job.key, job.owner)
    BY <1>10, <2>1, FiledTells
  <2>2. CASE ~ Current(job.key, job.owner)
    BY <1>1, <1>10, <2>2 DEF persistSuccess
  <2> QED BY <2>1, <2>2
<1>11. ASSUME NEW delay \in 0 .. 1, persistFailure(delay) PROVE AbsenceInv'
  BY <1>1, <1>11 DEF persistFailure
<1>12. ASSUME NEW c \in Company, unmergeCompany(c) PROVE AbsenceInv'
  BY <1>1, <1>12 DEF unmergeCompany
<1>13. ASSUME NEW c \in Company, NEW l \in Company, mergeCompany(c, l) PROVE AbsenceInv'
  BY <1>1, <1>13 DEF mergeCompany
<1>14. ASSUME NEW c \in Company, NEW s \in Site \cup {none}, updateCompany(c, s)
       PROVE  AbsenceInv'
  BY <1>1, <1>14 DEF updateCompany
<1>15. CASE UNCHANGED vars
  BY <1>1, <1>15 DEF vars
<1> QED BY <1>2, <1>3, <1>4, <1>5, <1>6, <1>7, <1>8, <1>9, <1>10, <1>11, <1>12, <1>13,
           <1>14, <1>15 DEF Next

\* A technology is retired only when two scans of different weeks missed it
\* under the rules that found it (persistSuccess), whatever edits, merges,
\* suppressions and new rules came in between.
THEOREM RetiredTwiceMissed == Spec => []RetiredOnTwoAbsences
<1>1. AbsenceInv => RetiredOnTwoAbsences
  BY DEF AbsenceInv, CountsTellTheMisses, Tells, RetiredOnTwoAbsences
<1> QED BY <1>1, InitAbsence, NextAbsence, PTL DEF Spec

----------------------------------------------------------------------------
(* Suppression: what was ruled is marked on a scan of the group, and a merge *)
(* that is reversed takes back the scans it moved and no other.              *)

\* A row of scan has its three fields and an owner or none.
Shape(r) == DOMAIN r = {"at", "born", "due"} /\ r.at \in Company \cup {Nobody}

MergedType ==
    /\ mergedInto \in [Company -> Company \cup {Nobody}]
    /\ moved \in [Company -> SUBSET Key]
    /\ DOMAIN scan = Key /\ \A k \in Key : Shape(scan[k])
    /\ DOMAIN seen = Key /\ \A k \in Key : DOMAIN seen[k] = Technology
    /\ ruled \subseteq Key \X Technology

\* The scans a tombstone gave up are its survivor's, or went on from there.
MovedAreTraced ==
    \A l \in Company : \A k \in moved[l] :
        /\ mergedInto[l] \in Company
        /\ mergedInto[mergedInto[l]] = Nobody => scan[k].at = mergedInto[l]
        /\ mergedInto[mergedInto[l]] # Nobody => k \in moved[mergedInto[l]]

MovedOnce ==
    \A l, m \in Company : l # m /\ mergedInto[l] = mergedInto[m] => moved[l] \cap moved[m] = {}

RuledIsMarked ==
    \A c \in Company, s \in Site, t \in Technology :
        mergedInto[c] = Nobody /\ <<<<c, s>>, t>> \in ruled =>
            \E k \in Key : scan[k].at = c /\ k[2] = s /\ seen[k][t].suppressed

SuppressedInv == MergedType /\ MovedAreTraced /\ MovedOnce /\ RuledIsMarked

\* Steps that leave companies, marks and rulings alone, and give no scan away.
LEMMA QuietSteps ==
    ASSUME SuppressedInv, mergedInto' = mergedInto, moved' = moved, ruled' = ruled,
           DOMAIN scan' = Key, \A k \in Key : Shape(scan'[k]),
           \A k \in Key : scan[k].at # Nobody => scan'[k].at = scan[k].at,
           DOMAIN seen' = Key, \A k \in Key : DOMAIN seen'[k] = Technology,
           \A k \in Key, t \in Technology : seen[k][t].suppressed => seen'[k][t].suppressed
    PROVE  SuppressedInv'
<1>1. MergedType'
  BY DEF SuppressedInv, MergedType
<1>n. \A c \in Company : c # Nobody
  BY DEF Company, Nobody
<1>2. MovedAreTraced'
  BY <1>n DEF SuppressedInv, MergedType, MovedAreTraced
<1>3. MovedOnce'
  BY DEF SuppressedInv, MovedOnce
<1>4. RuledIsMarked'
  BY <1>n DEF SuppressedInv, RuledIsMarked
<1> QED BY <1>1, <1>2, <1>3, <1>4 DEF SuppressedInv

LEMMA InitSuppressed == Init => SuppressedInv
<1> SUFFICES ASSUME Init PROVE SuppressedInv
  OBVIOUS
<1>1. MergedType
  BY DEF Init, MergedType, Shape, Unscanned
<1>2. MovedAreTraced /\ MovedOnce /\ RuledIsMarked
  BY DEF Init, MovedAreTraced, MovedOnce, RuledIsMarked
<1> QED BY <1>1, <1>2 DEF SuppressedInv

LEMMA NewScansAreQuiet ==
    ASSUME SuppressedInv, NEW cs, ensureScans(cs),
           mergedInto' = mergedInto, moved' = moved, ruled' = ruled, seen' = seen
    PROVE  SuppressedInv'
<1> DEFINE fresh == {k \in {<<c, site[c]>> : c \in cs \cap Missing} : scan[k].at = Nobody}
           Order(k) == Cardinality({j \in Key : scan[j].at # Nobody})
                         + Cardinality({j \in fresh : j[1] <= k[1]})
<1>1. scan' = [k \in Key |-> IF k \in fresh
                             THEN [at |-> k[1], born |-> Order(k), due |-> week] ELSE scan[k]]
  BY DEF ensureScans
<1>2. \A k \in fresh : scan[k].at = Nobody
  OBVIOUS
<1> HIDE DEF fresh, Order
<1>3. DOMAIN scan' = Key /\ \A k \in Key : Shape(scan'[k])
  <2>1. \A k \in Key : k[1] \in Company
    BY DEF Key
  <2> QED BY <1>1, <2>1 DEF SuppressedInv, MergedType, Shape
<1>4. \A k \in Key : scan[k].at # Nobody => scan'[k].at = scan[k].at
  BY <1>1, <1>2
<1> QED BY <1>3, <1>4, QuietSteps DEF SuppressedInv, MergedType

\* A scan that is only put off keeps its owner.
LEMMA PutOff ==
    ASSUME SuppressedInv, NEW k, NEW w, scan' = [scan EXCEPT ![k].due = w]
    PROVE  /\ DOMAIN scan' = Key /\ \A j \in Key : Shape(scan'[j])
           /\ \A j \in Key : scan'[j].at = scan[j].at
BY DEF SuppressedInv, MergedType, Shape

LEMMA MarksOutlastScans ==
    ASSUME NEW o \in Observation
    PROVE  Found(o).suppressed = o.suppressed /\ Absent(o).suppressed = o.suppressed
BY DEF Found, Absent, Observation

LEMMA FiledIsQuiet ==
    ASSUME SuppressedInv, ObservedType, NEW found \in SUBSET Technology, persistSuccess(found)
    PROVE  SuppressedInv'
<1> DEFINE k == job.key
           Then(t) == IF t \in found THEN Found(seen[k][t])
                      ELSE IF counts(seen[k][t]) THEN Absent(seen[k][t]) ELSE seen[k][t]
<1>1. mergedInto' = mergedInto /\ moved' = moved /\ ruled' = ruled
  BY DEF persistSuccess, companyVars
<1>2. CASE Current(k, job.owner)
  <2>1. seen' = [seen EXCEPT ![k] = [t \in Technology |-> Then(t)]]
    BY <1>2 DEF persistSuccess
  <2>2. scan' = [scan EXCEPT ![k].due = week + Refresh]
    BY <1>2 DEF persistSuccess
  <2>3. \A t \in Technology : Then(t).suppressed = seen[k][t].suppressed
    <3>1. k \in Key
      BY <1>2 DEF Current, Elected, Group
    <3> QED BY <3>1, MarksOutlastScans DEF ObservedType
  <2>4. /\ DOMAIN scan' = Key /\ \A j \in Key : Shape(scan'[j])
        /\ \A j \in Key : scan'[j].at = scan[j].at
    <3> HIDE DEF k
    <3> QED BY <2>2, PutOff
  <2> HIDE DEF Then, k
  <2>5. /\ DOMAIN seen' = Key /\ \A j \in Key : DOMAIN seen'[j] = Technology
        /\ \A j \in Key, t \in Technology : seen[j][t].suppressed => seen'[j][t].suppressed
    BY <2>1, <2>3 DEF SuppressedInv, MergedType
  <2> QED BY <1>1, <2>4, <2>5, QuietSteps
<1>3. CASE ~ Current(k, job.owner)
  BY <1>1, <1>3, QuietSteps DEF persistSuccess, SuppressedInv, MergedType
<1> QED BY <1>2, <1>3

\* A ruling marks every row of the group; taking one back unmarks no other's.
LEMMA SuppressKeepsMarks ==
    ASSUME SuppressedInv, ObservedType, NEW k \in Key, NEW t \in Technology,
           NEW on \in BOOLEAN, suppress(k, t, on)
    PROVE  SuppressedInv'
<1> DEFINE c == scan[k].at
           rows == {j \in Group(c, k[2]) : seen[j][t].seen}
<1>1. /\ rows # {}
      /\ seen' = [j \in Key |-> IF j \in rows THEN [seen[j] EXCEPT ![t].suppressed = on] ELSE seen[j]]
      /\ ruled' = IF on THEN ruled \cup {<<<<c, k[2]>>, t>>} ELSE ruled \ {<<<<c, k[2]>>, t>>}
      /\ mergedInto' = mergedInto /\ moved' = moved /\ scan' = scan
  BY DEF suppress, companyVars
<1>2. MergedType'
  <2>1. ruled' \subseteq Key \X Technology
    <3>1. CASE on
      <4>1. c \in Company
        BY DEF SuppressedInv, MergedType, Shape, suppress
      <4>2. <<<<c, k[2]>>, t>> \in Key \X Technology
        BY <4>1 DEF Key
      <4> QED BY <1>1, <3>1, <4>2 DEF SuppressedInv, MergedType
    <3>2. CASE ~ on
      BY <1>1, <3>2 DEF SuppressedInv, MergedType
    <3> QED BY <3>1, <3>2
  <2> QED BY <1>1, <2>1 DEF SuppressedInv, MergedType
<1>3. MovedAreTraced' /\ MovedOnce'
  BY <1>1 DEF SuppressedInv, MovedAreTraced, MovedOnce
<1>4. RuledIsMarked'
  <2> SUFFICES ASSUME NEW d \in Company, NEW s \in Site, NEW u \in Technology,
                      mergedInto'[d] = Nobody, <<<<d, s>>, u>> \in ruled'
               PROVE  \E j \in Key : scan'[j].at = d /\ j[2] = s /\ seen'[j][u].suppressed
    BY DEF RuledIsMarked
  <2>1. CASE <<<<d, s>>, u>> = <<<<c, k[2]>>, t>>
    <3>1. on = TRUE /\ d = c /\ s = k[2] /\ u = t
      BY <1>1, <2>1
    <3>2. PICK j \in rows : TRUE
      BY <1>1
    <3>3. j \in Key /\ scan[j].at = c /\ j[2] = k[2]
      BY DEF Group
    <3>4. seen'[j][t].suppressed
      <4> DEFINE r == seen[j][t]
      <4>1. seen'[j] = [seen[j] EXCEPT ![t] = [r EXCEPT !.suppressed = on]]
        BY <1>1, <3>3
      <4>2. seen'[j][t] = [r EXCEPT !.suppressed = on]
        BY <3>3, <4>1 DEF SuppressedInv, MergedType
      <4>3. r \in Observation
        BY <3>3 DEF ObservedType
      <4> HIDE DEF r
      <4> QED BY <3>1, <4>2, <4>3 DEF Observation
    <3> QED BY <1>1, <3>1, <3>3, <3>4
  <2>2. CASE <<<<d, s>>, u>> # <<<<c, k[2]>>, t>>
    <3>1. PICK j \in Key : scan[j].at = d /\ j[2] = s /\ seen[j][u].suppressed
      BY <1>1, <2>2 DEF SuppressedInv, RuledIsMarked
    <3>2. seen'[j][u] = seen[j][u]
      <4>1. CASE j \in rows
        <5>1. u # t
          BY <2>2, <3>1, <4>1 DEF Group
        <5> QED BY <1>1, <4>1, <5>1 DEF SuppressedInv, MergedType
      <4>2. CASE j \notin rows
        BY <1>1, <4>2
      <4> QED BY <4>1, <4>2
    <3> QED BY <1>1, <3>1, <3>2
  <2> QED BY <2>1, <2>2
<1> QED BY <1>2, <1>3, <1>4 DEF SuppressedInv

LEMMA MergeCarriesMarks ==
    ASSUME SuppressedInv, NEW s \in Company, NEW l \in Company, mergeCompany(s, l)
    PROVE  SuppressedInv'
<1>1. /\ s # l /\ mergedInto[s] = Nobody /\ mergedInto[l] = Nobody
      /\ mergedInto' = [mergedInto EXCEPT ![l] = s]
      /\ moved' = [moved EXCEPT ![l] = {k \in Key : scan[k].at = l}]
      /\ scan' = [k \in Key |-> IF scan[k].at = l THEN [scan[k] EXCEPT !.at = s] ELSE scan[k]]
      /\ ruled' = ruled \cup {<<<<s, x[1][2]>>, x[2]>> : x \in {y \in ruled : y[1][1] = l}}
      /\ seen' = seen
  BY DEF mergeCompany
<1>2. \A c \in Company : c # Nobody
  BY DEF Company, Nobody
<1>3. /\ MergedType /\ MovedAreTraced /\ MovedOnce /\ RuledIsMarked
  BY DEF SuppressedInv
<1>4. \A k \in Key : scan'[k].at = IF scan[k].at = l THEN s ELSE scan[k].at
  BY <1>1, <1>3 DEF MergedType, Shape
<1>5. MergedType'
  <2>1. ruled' \subseteq Key \X Technology
    BY <1>1, <1>3 DEF MergedType, Key
  <2> QED BY <1>1, <1>3, <2>1 DEF MergedType, Shape
<1>6. \A c \in Company : mergedInto'[c] = IF c = l THEN s ELSE mergedInto[c]
  BY <1>1, <1>3 DEF MergedType
<1>7. \A c \in Company : moved'[c] = IF c = l THEN {k \in Key : scan[k].at = l} ELSE moved[c]
  BY <1>1, <1>3 DEF MergedType
<1>8. MovedAreTraced'
  <2> SUFFICES ASSUME NEW m \in Company, NEW k \in moved'[m]
               PROVE  /\ mergedInto'[m] \in Company
                      /\ mergedInto'[mergedInto'[m]] = Nobody => scan'[k].at = mergedInto'[m]
                      /\ mergedInto'[mergedInto'[m]] # Nobody => k \in moved'[mergedInto'[m]]
    BY DEF MovedAreTraced
  <2>1. k \in Key
    BY <1>5 DEF MergedType
  <2>2. CASE m = l
    <3>1. mergedInto'[m] = s /\ mergedInto'[s] = Nobody
      BY <1>1, <1>6, <2>2
    <3>2. moved'[m] = {j \in Key : scan[j].at = l}
      BY <1>7, <2>2
    <3>3. scan'[k].at = s
      BY <1>4, <2>1, <3>2
    <3> QED BY <3>1, <3>3
  <2>3. CASE m # l
    <3>1. /\ k \in moved[m] /\ mergedInto'[m] = mergedInto[m] /\ mergedInto[m] \in Company
          /\ mergedInto[mergedInto[m]] = Nobody => scan[k].at = mergedInto[m]
          /\ mergedInto[mergedInto[m]] # Nobody => k \in moved[mergedInto[m]]
      BY <1>3, <1>6, <1>7, <2>3 DEF MovedAreTraced
    <3>2. CASE mergedInto[m] = l
      <4>1. scan[k].at = l /\ mergedInto'[l] = s
        BY <1>1, <1>6, <3>1, <3>2
      <4>2. k \in moved'[l]
        BY <1>7, <2>1, <4>1
      <4> QED BY <1>2, <3>1, <3>2, <4>1, <4>2
    <3>3. CASE mergedInto[m] # l
      BY <1>1, <1>4, <1>6, <1>7, <2>1, <3>1, <3>3
    <3> QED BY <3>2, <3>3
  <2> QED BY <2>2, <2>3
<1>9. MovedOnce'
  \* What moves now is the loser's; what the survivor's other tombstones gave is not.
  <2>1. ASSUME NEW m \in Company, m # l, mergedInto[m] = s
        PROVE  moved[m] \cap {k \in Key : scan[k].at = l} = {}
    <3>1. \A k \in moved[m] : scan[k].at = s
      BY <1>1, <1>3, <2>1 DEF MovedAreTraced
    <3> QED BY <1>1, <3>1
  <2> QED BY <1>3, <1>6, <1>7, <2>1 DEF MovedOnce
<1>10. RuledIsMarked'
  <2> SUFFICES ASSUME NEW c \in Company, NEW p \in Site, NEW t \in Technology,
                      mergedInto'[c] = Nobody, <<<<c, p>>, t>> \in ruled'
               PROVE  \E k \in Key : scan'[k].at = c /\ k[2] = p /\ seen'[k][t].suppressed
    BY DEF RuledIsMarked
  <2>1. c # l /\ mergedInto[c] = Nobody
    BY <1>1, <1>2, <1>6
  <2>2. CASE <<<<c, p>>, t>> \in ruled
    <3>1. PICK k \in Key : scan[k].at = c /\ k[2] = p /\ seen[k][t].suppressed
      BY <1>3, <2>1, <2>2 DEF RuledIsMarked
    <3> QED BY <1>1, <1>4, <2>1, <3>1
  <2>3. CASE <<<<c, p>>, t>> \notin ruled
    <3>1. PICK x \in ruled : x[1][1] = l /\ <<<<c, p>>, t>> = <<<<s, x[1][2]>>, x[2]>>
      BY <1>1, <2>3
    <3>2. c = s /\ x[1][2] = p /\ x[2] = t
      BY <3>1
    <3>3. <<<<l, p>>, t>> \in ruled
      <4>1. x \in (Company \X Site) \X Technology
        BY <1>3 DEF MergedType, Key
      <4>2. x = <<<<l, p>>, t>>
        BY <3>1, <3>2, <4>1
      <4> QED BY <3>1, <4>2
    <3>4. PICK k \in Key : scan[k].at = l /\ k[2] = p /\ seen[k][t].suppressed
      BY <1>1, <1>3, <3>3 DEF RuledIsMarked
    <3> QED BY <1>1, <1>4, <3>2, <3>4
  <2> QED BY <2>2, <2>3
<1> QED BY <1>5, <1>8, <1>9, <1>10 DEF SuppressedInv

\* Only what the merge moved goes back, and the survivor's own scans stay.
LEMMA UnmergeKeepsMarks ==
    ASSUME SuppressedInv, NEW l \in Company, unmergeCompany(l)
    PROVE  SuppressedInv'
<1> DEFINE s == mergedInto[l]
<1>1. /\ s # Nobody /\ mergedInto[s] = Nobody
      /\ mergedInto' = [mergedInto EXCEPT ![l] = Nobody]
      /\ moved' = [moved EXCEPT ![l] = {}]
      /\ scan' = [k \in Key |-> IF k \in moved[l] THEN [scan[k] EXCEPT !.at = l] ELSE scan[k]]
      /\ ruled' = {x \in ruled : /\ x[1][1] # l
                                 /\ x[1][1] = s => \A k \in moved[l] : k[2] # x[1][2]}
      /\ seen' = seen
  BY DEF unmergeCompany
<1>2. \A c \in Company : c # Nobody
  BY DEF Company, Nobody
<1>3. /\ MergedType /\ MovedAreTraced /\ MovedOnce /\ RuledIsMarked
  BY DEF SuppressedInv
<1>4. s \in Company /\ s # l
  BY <1>1, <1>3 DEF MergedType
<1> HIDE DEF s
<1>5. \A k \in Key : scan'[k].at = IF k \in moved[l] THEN l ELSE scan[k].at
  BY <1>1, <1>3 DEF MergedType, Shape
<1>6. MergedType'
  BY <1>1, <1>3 DEF MergedType, Shape
<1>7. \A c \in Company : mergedInto'[c] = IF c = l THEN Nobody ELSE mergedInto[c]
  BY <1>1, <1>3 DEF MergedType
<1>8. \A c \in Company : moved'[c] = IF c = l THEN {} ELSE moved[c]
  BY <1>1, <1>3 DEF MergedType
<1>9. \A k \in moved[l] : k \in Key /\ scan[k].at = s
  BY <1>1, <1>3 DEF MergedType, MovedAreTraced, s
<1>10. MovedAreTraced'
  <2> SUFFICES ASSUME NEW m \in Company, NEW k \in moved'[m]
               PROVE  /\ mergedInto'[m] \in Company
                      /\ mergedInto'[mergedInto'[m]] = Nobody => scan'[k].at = mergedInto'[m]
                      /\ mergedInto'[mergedInto'[m]] # Nobody => k \in moved'[mergedInto'[m]]
    BY DEF MovedAreTraced
  <2>1. m # l /\ k \in Key
    BY <1>6, <1>8 DEF MergedType
  <2> DEFINE p == mergedInto[m]
  <2>2. /\ k \in moved[m] /\ mergedInto'[m] = p /\ p \in Company
        /\ mergedInto[p] = Nobody => scan[k].at = p
        /\ mergedInto[p] # Nobody => k \in moved[p]
    BY <1>3, <1>7, <1>8, <2>1 DEF MovedAreTraced
  <2>3. p = s => k \notin moved[l]
    BY <1>3, <2>1, <2>2 DEF MovedOnce, s
  <2> HIDE DEF p
  <2>4. CASE p = l
    <3>1. mergedInto[l] # Nobody /\ k \in moved[l]
      BY <1>1, <2>2, <2>4 DEF s
    <3>2. mergedInto'[l] = Nobody /\ scan'[k].at = l
      BY <1>5, <1>7, <2>1, <3>1
    <3> QED BY <2>2, <2>4, <3>2
  <2>5. CASE p # l
    <3>1. mergedInto'[p] = mergedInto[p] /\ moved'[p] = moved[p]
      BY <1>7, <1>8, <2>2, <2>5
    <3>2. mergedInto[p] = Nobody => scan'[k].at = p
      BY <1>5, <1>9, <2>1, <2>2, <2>3
    <3> QED BY <2>2, <3>1, <3>2
  <2> QED BY <2>4, <2>5
<1>11. MovedOnce'
  <2> SUFFICES ASSUME NEW m \in Company, NEW n \in Company, m # n, mergedInto'[m] = mergedInto'[n]
               PROVE  moved'[m] \cap moved'[n] = {}
    BY DEF MovedOnce
  <2>1. CASE m = l \/ n = l
    BY <1>8, <2>1
  <2>2. CASE m # l /\ n # l
    BY <1>3, <1>7, <1>8, <2>2 DEF MovedOnce
  <2> QED BY <2>1, <2>2
<1>12. RuledIsMarked'
  <2> SUFFICES ASSUME NEW c \in Company, NEW p \in Site, NEW t \in Technology,
                      mergedInto'[c] = Nobody, <<<<c, p>>, t>> \in ruled'
               PROVE  \E k \in Key : scan'[k].at = c /\ k[2] = p /\ seen'[k][t].suppressed
    BY DEF RuledIsMarked
  <2>1. c # l /\ <<<<c, p>>, t>> \in ruled /\ (c = s => \A k \in moved[l] : k[2] # p)
    BY <1>1
  <2>2. mergedInto[c] = Nobody
    BY <1>7, <2>1
  <2>3. PICK k \in Key : scan[k].at = c /\ k[2] = p /\ seen[k][t].suppressed
    BY <1>3, <2>1, <2>2 DEF RuledIsMarked
  <2>4. scan'[k].at = c
    BY <1>5, <1>9, <2>1, <2>3
  <2> QED BY <1>1, <2>3, <2>4
<1> QED BY <1>6, <1>10, <1>11, <1>12 DEF SuppressedInv

LEMMA NextSuppressed == SuppressedInv /\ ObservedType /\ [Next]_vars => SuppressedInv'
<1> SUFFICES ASSUME SuppressedInv, ObservedType, [Next]_vars PROVE SuppressedInv'
  OBVIOUS
<1>1. ASSUME mergedInto' = mergedInto, moved' = moved, ruled' = ruled, seen' = seen, scan' = scan
      PROVE  SuppressedInv'
  BY <1>1, QuietSteps DEF SuppressedInv, MergedType
<1>2. CASE discover
  BY <1>2, NewScansAreQuiet DEF discover, companyVars
<1>3. CASE finish
  BY <1>1, <1>3 DEF finish, companyVars
<1>4. CASE pass
  BY <1>1, <1>4 DEF pass, companyVars
<1>5. CASE deploy
  BY <1>1, <1>5 DEF deploy, companyVars
<1>6. ASSUME NEW n \in 0 .. Page - 1, breakOff(n) PROVE SuppressedInv'
  BY <1>6, NewScansAreQuiet DEF breakOff, companyVars
<1>7. ASSUME NEW batch \in SUBSET Key, selectDueScans(batch) PROVE SuppressedInv'
  BY <1>1, <1>7 DEF selectDueScans, companyVars
<1>8. ASSUME NEW k \in Key, NEW c \in Company, fetch(k, c) PROVE SuppressedInv'
  BY <1>1, <1>8 DEF fetch, companyVars
<1>9. ASSUME NEW k \in Key, NEW t \in Technology, NEW on \in BOOLEAN, suppress(k, t, on)
      PROVE  SuppressedInv'
  BY <1>9, SuppressKeepsMarks
<1>10. ASSUME NEW found \in SUBSET Technology, persistSuccess(found) PROVE SuppressedInv'
  BY <1>10, FiledIsQuiet
<1>11. ASSUME NEW delay \in 0 .. 1, persistFailure(delay) PROVE SuppressedInv'
  <2>1. CASE Current(job.key, job.owner)
    <3>1. scan' = [scan EXCEPT ![job.key].due = week + delay]
      BY <1>11, <2>1 DEF persistFailure
    <3>2. /\ DOMAIN scan' = Key /\ \A j \in Key : Shape(scan'[j])
          /\ \A j \in Key : scan'[j].at = scan[j].at
      BY <3>1, PutOff
    <3>3. mergedInto' = mergedInto /\ moved' = moved /\ ruled' = ruled /\ seen' = seen
      BY <1>11 DEF persistFailure, companyVars
    <3> QED BY <3>2, <3>3, QuietSteps DEF SuppressedInv, MergedType
  <2>2. CASE ~ Current(job.key, job.owner)
    BY <1>1, <1>11, <2>2 DEF persistFailure, companyVars
  <2> QED BY <2>1, <2>2
<1>12. ASSUME NEW c \in Company, unmergeCompany(c) PROVE SuppressedInv'
  BY <1>12, UnmergeKeepsMarks
<1>13. ASSUME NEW c \in Company, NEW l \in Company, mergeCompany(c, l) PROVE SuppressedInv'
  BY <1>13, MergeCarriesMarks
<1>14. ASSUME NEW c \in Company, NEW s \in Site \cup {none}, updateCompany(c, s)
       PROVE  SuppressedInv'
  BY <1>1, <1>14 DEF updateCompany
<1>15. CASE UNCHANGED vars
  BY <1>1, <1>15 DEF vars, companyVars
<1> QED BY <1>2, <1>3, <1>4, <1>5, <1>6, <1>7, <1>8, <1>9, <1>10, <1>11, <1>12, <1>13,
           <1>14, <1>15 DEF Next

\* What an operator suppressed for a company's site (suppress) is not shown
\* there (loadCompanyTechnology) through any scans, edits and merges, until it
\* is taken back or a merge is reversed.
THEOREM SuppressionLasts == Spec => []SuppressedStaysHidden
<1>1. SuppressedInv => SuppressedStaysHidden
  <2> SUFFICES ASSUME SuppressedInv, NEW c \in Company, NEW t \in Technology,
                      mergedInto[c] = Nobody, <<<<c, site[c]>>, t>> \in ruled
               PROVE  t \notin Shown(c)
    BY DEF SuppressedStaysHidden
  <2>1. site[c] \in Site
    BY DEF SuppressedInv, MergedType, Key
  <2>2. PICK k \in Key : scan[k].at = c /\ k[2] = site[c] /\ seen[k][t].suppressed
    BY <2>1 DEF SuppressedInv, RuledIsMarked
  <2>3. k \in Group(c, site[c])
    BY <2>2 DEF Group
  <2>4. t \in suppressed(c, site[c])
    BY <2>2, <2>3 DEF suppressed
  <2> QED BY <2>4 DEF Shown
<1>2. AbsenceInv => ObservedType
  BY DEF AbsenceInv
<1> QED BY <1>1, <1>2, InitAbsence, NextAbsence, InitSuppressed, NextSuppressed, PTL DEF Spec

\* A merge that is reversed takes back every scan it moved, from the survivor
\* (unmergeCompany), and two merges into one company never moved the same scan.
THEOREM MovedScansAreTraced == Spec => [](MovedAreTraced /\ MovedOnce)
<1>1. SuppressedInv => MovedAreTraced /\ MovedOnce
  BY DEF SuppressedInv
<1>2. AbsenceInv => ObservedType
  BY DEF AbsenceInv
<1> QED BY <1>1, <1>2, InitAbsence, NextAbsence, InitSuppressed, NextSuppressed, PTL DEF Spec

----------------------------------------------------------------------------
(* Types: what an update, a merge and its reversal do to a stamp is counted *)
(* by the merges there were, and scans are numbered up to the keys there are. *)

ScanRow == [at : Company \cup {Nobody}, born : 0 .. Cardinality(Key), due : Nat]
SeenRow == [seen : BOOLEAN, last : 0 .. MaxWeek, version : 0 .. MaxVersion, absences : 0 .. 2,
            absentAt : 0 .. MaxWeek, retired : BOOLEAN, suppressed : BOOLEAN]

CompaniesTyped ==
    /\ site \in [Company -> Site \cup {none}] /\ stamp \in [Company -> Stamp]
    /\ mergedInto \in [Company -> Company \cup {Nobody}]
    /\ moved \in [Company -> SUBSET Key]
    /\ ruled \subseteq Key \X Technology
ScansTyped ==
    /\ scan \in [Key -> ScanRow]
    /\ \A k \in Key : scan[k].at # Nobody => mergedInto[scan[k].at] = Nobody
SeenTyped == seen \in [Key -> [Technology -> SeenRow]]
JobTyped ==
    /\ cursor \in Company \cup {Nobody}
    /\ job \in [pc : {"idle", "discovered", "next", "fetching"}, todo : SUBSET (Key \X Company),
                key : Key \cup {none}, owner : Company \cup {Nobody}, stamp : Stamp]

\* A company was updated MaxEdits times, and became a tombstone and live again
\* no more often than there were merges.
StampsCounted ==
    /\ week \in 0 .. MaxWeek /\ version \in 0 .. MaxVersion /\ merges \in 0 .. MaxMerges
    /\ \A c \in Company :
        /\ mergedInto[c] # Nobody => merges # 0
        /\ mergedInto[c] = Nobody => stamp[c] <= MaxEdits + 2 * merges
        /\ mergedInto[c] # Nobody => stamp[c] + 1 <= MaxEdits + 2 * merges

TypeInv == CompaniesTyped /\ ScansTyped /\ SeenTyped /\ JobTyped /\ StampsCounted

LEMMA InvIsTyped == TypeInv => TypeOK
  BY DEF TypeInv, CompaniesTyped, ScansTyped, ScanRow, SeenTyped, SeenRow, JobTyped, TypeOK

LEMMA CompanyNames == \A c \in Company : c # Nobody /\ c \in Nat
  BY DEF Company, Nobody

LEMMA Bounds ==
    ASSUME EnrichmentAssumption
    PROVE  /\ MaxWeek \in Nat /\ MaxVersion \in Nat /\ MaxEdits \in Nat /\ MaxMerges \in Nat
           /\ Refresh \in Nat /\ 0 \in Stamp
  BY DEF EnrichmentAssumption, Stamp

LEMMA KeysAreFinite ==
    ASSUME EnrichmentAssumption
    PROVE  IsFiniteSet(Key) /\ Cardinality(Key) \in Nat
<1>1. IsFiniteSet(Company)
  BY FS_Interval DEF EnrichmentAssumption, Company
<1>2. IsFiniteSet(Site)
  BY DEF EnrichmentAssumption
<1> QED BY <1>1, <1>2, FS_Product, FS_CardinalityType DEF Key

LEMMA InitTypes == ASSUME EnrichmentAssumption, Init PROVE TypeInv
<1>1. CompaniesTyped
  BY Bounds DEF Init, CompaniesTyped
<1>2. ScansTyped
  <2>1. Unscanned \in ScanRow /\ Unscanned.at = Nobody
    BY KeysAreFinite DEF Unscanned, ScanRow
  <2> QED BY <2>1 DEF Init, ScansTyped
<1>3. SeenTyped
  <2>1. Unseen \in SeenRow
    BY Bounds DEF Unseen, SeenRow
  <2> QED BY <2>1 DEF Init, SeenTyped
<1>4. JobTyped
  BY Bounds DEF Init, JobTyped, NoJob
<1>5. StampsCounted
  BY Bounds DEF Init, StampsCounted
<1> QED BY <1>1, <1>2, <1>3, <1>4, <1>5 DEF TypeInv

\* New scans are of live companies, and are numbered after the scans there are.
LEMMA NewScansTyped ==
    ASSUME EnrichmentAssumption, TypeInv, NEW cs, ensureScans(cs), mergedInto' = mergedInto
    PROVE  ScansTyped'
<1> DEFINE fresh == {k \in {<<c, site[c]>> : c \in cs \cap Missing} : scan[k].at = Nobody}
           filed == {j \in Key : scan[j].at # Nobody}
           upTo(k) == {j \in fresh : j[1] <= k[1]}
           Order(k) == Cardinality(filed) + Cardinality(upTo(k))
<1>1. scan' = [k \in Key |-> IF k \in fresh
                             THEN [at |-> k[1], born |-> Order(k), due |-> week] ELSE scan[k]]
  BY DEF ensureScans
<1>2. ASSUME NEW k \in fresh
      PROVE  k \in Key /\ k[1] \in Company /\ mergedInto[k[1]] = Nobody /\ scan[k].at = Nobody
  <2>1. PICK c \in Missing : k = <<c, site[c]>>
    OBVIOUS
  <2>2. c \in Company /\ eligible(c) # none
    BY DEF Missing
  <2>3. mergedInto[c] = Nobody /\ site[c] # none
    BY <2>2 DEF eligible
  <2>4. site[c] \in Site
    BY <2>2, <2>3 DEF TypeInv, CompaniesTyped
  <2>5. scan[k].at = Nobody
    OBVIOUS
  <2> HIDE DEF fresh
  <2> QED BY <2>1, <2>2, <2>3, <2>4, <2>5 DEF Key
<1>3. ASSUME NEW k \in fresh PROVE Order(k) \in 0 .. Cardinality(Key)
  <2>1. filed \in SUBSET Key /\ upTo(k) \in SUBSET Key
    BY <1>2
  <2>2. filed \cap upTo(k) = {}
    BY <1>2
  <2> HIDE DEF filed, upTo
  <2>3. filed \cup upTo(k) \in SUBSET Key
    BY <2>1
  <2>4. IsFiniteSet(filed) /\ IsFiniteSet(upTo(k))
        /\ Cardinality(filed \cup upTo(k)) <= Cardinality(Key)
    BY <2>1, <2>3, KeysAreFinite, FS_Subset
  <2>5. Cardinality(filed \cup upTo(k)) =
            Cardinality(filed) + Cardinality(upTo(k)) - Cardinality(filed \cap upTo(k))
    BY <2>4, FS_Union
  <2>6. Cardinality(filed) \in Nat /\ Cardinality(upTo(k)) \in Nat
    BY <2>4, FS_CardinalityType
  <2>7. Cardinality(filed \cap upTo(k)) = 0
    BY <2>2, FS_EmptySet
  <2> QED BY <2>4, <2>5, <2>6, <2>7, KeysAreFinite
<1>4. week \in Nat
  BY DEF TypeInv, StampsCounted
<1> HIDE DEF fresh, Order
<1>5. ASSUME NEW k \in Key
      PROVE  /\ scan'[k] \in ScanRow
             /\ scan'[k].at # Nobody => mergedInto[scan'[k].at] = Nobody
  <2>1. CASE k \in fresh
    BY <1>1, <1>2, <1>3, <1>4, <2>1 DEF ScanRow
  <2>2. CASE k \notin fresh
    BY <1>1, <2>2 DEF TypeInv, ScansTyped
  <2> QED BY <2>1, <2>2
<1>6. scan' \in [Key -> ScanRow]
  BY <1>1, <1>5
<1> QED BY <1>5, <1>6 DEF ScansTyped

LEMMA SeenRowIsObserved == ASSUME EnrichmentAssumption PROVE SeenRow \subseteq Observation
  BY Bounds DEF SeenRow, Observation

LEMMA FoundTyped ==
    ASSUME EnrichmentAssumption, TypeInv, NEW o \in SeenRow
    PROVE  Found(o) \in SeenRow
<1> DEFINE o1 == [o EXCEPT !.seen = TRUE, !.last = week]
           o2 == [o1 EXCEPT !.version = version, !.absences = 0]
           o3 == [o2 EXCEPT !.absentAt = 0, !.retired = FALSE]
<1>1. Found(o) = o3
  BY Zenon DEF Found
<1>2. week \in 0 .. MaxWeek /\ version \in 0 .. MaxVersion /\ 0 \in 0 .. MaxWeek /\ 0 \in 0 .. 2
  BY Bounds DEF TypeInv, StampsCounted
<1>3. o1 \in SeenRow
  BY <1>2 DEF SeenRow
<1> HIDE DEF o1
<1>4. o2 \in SeenRow
  BY <1>2, <1>3 DEF SeenRow
<1> HIDE DEF o2
<1>5. o3 \in SeenRow
  BY <1>2, <1>4 DEF SeenRow
<1> QED BY <1>1, <1>5

\* What is not retired has one absence at most, so counting one more is two.
LEMMA AbsentTyped ==
    ASSUME EnrichmentAssumption, TypeInv, NEW o \in SeenRow, NEW misses, Tells(o, misses), counts(o)
    PROVE  Absent(o) \in SeenRow
<1> DEFINE n == o.absences + 1
           one == o.absences = 1
           o1 == [o EXCEPT !.absences = n, !.absentAt = week]
           o2 == [o1 EXCEPT !.retired = one]
<1>1. Absent(o) = o2
  BY Zenon DEF Absent
<1>2. week \in 0 .. MaxWeek
  BY DEF TypeInv, StampsCounted
<1>3. o.absences \in 0 .. 2 /\ o.absences # 2
  BY DEF SeenRow, counts, Tells
<1>4. n \in 0 .. 2 /\ one \in BOOLEAN
  BY <1>3
<1> HIDE DEF n, one
<1>5. o1 \in SeenRow
  BY <1>2, <1>4 DEF SeenRow
<1> HIDE DEF o1
<1>6. o2 \in SeenRow
  BY <1>4, <1>5 DEF SeenRow
<1> QED BY <1>1, <1>6

\* A scan that is only put off stays one of its owner.
LEMMA PutOffTyped ==
    ASSUME ScansTyped, mergedInto' = mergedInto, NEW k, NEW w \in Nat,
           scan' = [scan EXCEPT ![k].due = w]
    PROVE  ScansTyped'
<1>1. ASSUME NEW j \in Key
      PROVE  scan'[j] \in ScanRow /\ scan'[j].at = scan[j].at
  <2>1. scan[j] \in ScanRow
    BY DEF ScansTyped
  <2>2. CASE j = k
    <3> DEFINE r == scan[j]
    <3>1. scan'[j] = [r EXCEPT !.due = w]
      BY <2>2 DEF ScansTyped
    <3> HIDE DEF r
    <3>2. r \in ScanRow /\ r = scan[j]
      BY <2>1 DEF r
    <3> QED BY <3>1, <3>2 DEF ScanRow
  <2>3. CASE j # k
    BY <2>1, <2>3 DEF ScansTyped
  <2> QED BY <2>2, <2>3
<1>2. DOMAIN scan' = Key /\ scan' = [j \in DOMAIN scan' |-> scan'[j]]
  BY DEF ScansTyped
<1>3. scan' \in [Key -> ScanRow]
  BY <1>1, <1>2
<1> QED BY <1>1, <1>3 DEF ScansTyped

LEMMA FiledTyped == ASSUME JobTyped PROVE Filed \in
            [pc : {"idle", "discovered", "next", "fetching"}, todo : SUBSET (Key \X Company),
             key : Key \cup {none}, owner : Company \cup {Nobody}, stamp : {0}]
  BY DEF JobTyped, Filed, NoJob

LEMMA SuccessTyped ==
    ASSUME EnrichmentAssumption, TypeInv, AbsenceInv,
           NEW found \in SUBSET Technology, persistSuccess(found)
    PROVE  SeenTyped' /\ ScansTyped'
<1> DEFINE k == job.key
           Then(t) == IF t \in found THEN Found(seen[k][t])
                      ELSE IF counts(seen[k][t]) THEN Absent(seen[k][t]) ELSE seen[k][t]
<1>1. CASE Current(k, job.owner)
  <2>1. k \in Key
    BY <1>1 DEF Current, Elected, Group
  <2>2. /\ seen' = [seen EXCEPT ![k] = [t \in Technology |-> Then(t)]]
        /\ scan' = [scan EXCEPT ![k].due = week + Refresh] /\ mergedInto' = mergedInto
    BY <1>1 DEF persistSuccess, companyVars
  <2>3. ASSUME NEW t \in Technology PROVE Then(t) \in SeenRow
    <3>1. seen[k][t] \in SeenRow /\ Tells(seen[k][t], missed[k][t])
      BY <2>1 DEF TypeInv, SeenTyped, AbsenceInv, CountsTellTheMisses
    <3> QED BY <3>1, FoundTyped, AbsentTyped
  <2> HIDE DEF Then, k
  <2>4. SeenTyped'
    BY <2>2, <2>3 DEF TypeInv, SeenTyped
  <2>5. week + Refresh \in Nat
    BY Bounds DEF TypeInv, StampsCounted
  <2> QED BY <2>2, <2>4, <2>5, PutOffTyped DEF TypeInv
<1>2. CASE ~ Current(k, job.owner)
  BY <1>2 DEF persistSuccess, companyVars, TypeInv, SeenTyped, ScansTyped
<1> QED BY <1>1, <1>2

LEMMA SuppressTyped ==
    ASSUME TypeInv, NEW k \in Key, NEW t \in Technology, NEW on \in BOOLEAN, suppress(k, t, on)
    PROVE  SeenTyped' /\ CompaniesTyped'
<1> DEFINE c == scan[k].at
           rows == {j \in Group(c, k[2]) : seen[j][t].seen}
<1>1. /\ c # Nobody
      /\ seen' = [j \in Key |-> IF j \in rows THEN [seen[j] EXCEPT ![t].suppressed = on] ELSE seen[j]]
      /\ ruled' = IF on THEN ruled \cup {<<<<c, k[2]>>, t>>} ELSE ruled \ {<<<<c, k[2]>>, t>>}
      /\ UNCHANGED <<site, stamp, mergedInto, moved>>
  BY DEF suppress, companyVars
<1>2. <<<<c, k[2]>>, t>> \in Key \X Technology
  BY <1>1 DEF TypeInv, ScansTyped, ScanRow, Key
<1> HIDE DEF rows, c
<1>3. ASSUME NEW j \in Key PROVE seen'[j] \in [Technology -> SeenRow]
  <2>1. seen[j] \in [Technology -> SeenRow]
    BY DEF TypeInv, SeenTyped
  <2>2. CASE j \in rows
    <3> DEFINE a == [seen[j][t] EXCEPT !.suppressed = on]
    <3>1. seen'[j] = [seen[j] EXCEPT ![t] = a]
      BY <1>1, <2>2
    <3>2. a \in SeenRow
      BY <2>1 DEF SeenRow
    <3> HIDE DEF a
    <3> QED BY <2>1, <3>1, <3>2
  <2>3. CASE j \notin rows
    BY <1>1, <2>1, <2>3
  <2> QED BY <2>2, <2>3
<1>4. SeenTyped'
  BY <1>1, <1>3 DEF SeenTyped
<1>5. ruled' \subseteq Key \X Technology
  <2>1. CASE on
    BY <1>1, <1>2, <2>1 DEF TypeInv, CompaniesTyped
  <2>2. CASE ~ on
    BY <1>1, <2>2 DEF TypeInv, CompaniesTyped
  <2> QED BY <2>1, <2>2
<1>6. CompaniesTyped'
  BY <1>1, <1>5 DEF TypeInv, CompaniesTyped
<1> QED BY <1>4, <1>6

LEMMA GreatestOf ==
    ASSUME NEW n \in Nat, NEW T \in SUBSET (1 .. n), T # {}
    PROVE  \E x \in T : \A y \in T : y <= x
<1> DEFINE U == {n - x : x \in T}
<1>1. U \in SUBSET Nat /\ U # {}
  <2>1. ASSUME NEW x \in T PROVE n - x \in Nat
    <3>1. x \in 1 .. n
      OBVIOUS
    <3> QED BY <3>1
  <2> QED BY <2>1
<1>2. PICK u \in U : \A v \in U : ~ (<<v, u>> \in OpToRel(<, Nat))
  BY <1>1, NatLessThanWellFounded, WFMin
<1>3. PICK x \in T : u = n - x
  OBVIOUS
<1>4. \A y \in T : y <= x
  <2> TAKE y \in T
  <2>1. n - y \in U /\ n - y \in Nat /\ u \in Nat
    OBVIOUS
  <2>2. ~ (n - y < u)
    BY <1>2, <2>1 DEF OpToRel
  <2> QED BY <1>3, <2>2
<1> QED BY <1>4

\* The cursor stops at the last company of a full page.
LEMMA DiscoverTyped ==
    ASSUME EnrichmentAssumption, TypeInv, discover
    PROVE  ScansTyped' /\ JobTyped'
<1>1. ScansTyped'
  BY NewScansTyped DEF discover, companyVars
<1>2. job' \in [pc : {"idle", "discovered", "next", "fetching"}, todo : SUBSET (Key \X Company),
                key : Key \cup {none}, owner : Company \cup {Nobody}, stamp : Stamp]
  BY Bounds DEF discover, NoJob
<1>3. cursor' \in Company \cup {Nobody}
  <2>1. CASE Cardinality(Rows) = Page
    <3>1. Rows # {}
      BY <2>1, FS_EmptySet DEF EnrichmentAssumption
    <3>2. Rows \in SUBSET (1 .. CompanyCount) /\ CompanyCount \in Nat
      BY DEF Rows, FirstOf, Company, EnrichmentAssumption
    <3>3. \E c \in Rows : \A d \in Rows : d <= c
      BY <3>1, <3>2, GreatestOf
    <3>4. cursor' = CHOOSE c \in Rows : \A d \in Rows : d <= c
      BY <2>1 DEF discover
    <3>5. cursor' \in Rows
      BY <3>3, <3>4
    <3> QED BY <3>2, <3>5 DEF Company
  <2>2. CASE Cardinality(Rows) # Page
    BY <2>2 DEF discover
  <2> QED BY <2>1, <2>2
<1> QED BY <1>1, <1>2, <1>3 DEF JobTyped

\* A batch is of scans with an owner.
LEMMA SelectTyped ==
    ASSUME EnrichmentAssumption, TypeInv, NEW batch \in SUBSET Key, selectDueScans(batch)
    PROVE  JobTyped'
<1> DEFINE todo == {<<k, scan[k].at>> : k \in batch}
<1>1. todo \in SUBSET (Key \X Company)
  <2>1. ASSUME NEW k \in batch PROVE k \in Key /\ scan[k].at \in Company
    <3>1. k \in Due
      BY DEF selectDueScans
    <3>2. PICK c \in Company : k \in Elected(c, eligible(c))
      BY <3>1 DEF Due
    <3> QED BY <3>2 DEF Elected, Group
  <2> QED BY <2>1
<1>2. job' = [NoJob EXCEPT !.pc = "next", !.todo = todo] /\ cursor' = cursor
  BY DEF selectDueScans
<1> HIDE DEF todo
<1> QED BY <1>1, <1>2, Bounds DEF NoJob, JobTyped, TypeInv

LEMMA FetchTyped ==
    ASSUME EnrichmentAssumption, TypeInv, NEW k \in Key, NEW c \in Company, fetch(k, c)
    PROVE  JobTyped'
<1> DEFINE rest == job.todo \ {<<k, c>>}
<1>1. /\ cursor' = cursor
      /\ job' = IF eligible(c) = k[2]
                THEN [pc |-> "fetching", todo |-> rest, key |-> k, owner |-> c, stamp |-> stamp[c]]
                ELSE [job EXCEPT !.todo = rest]
  BY DEF fetch
<1>2. rest \in SUBSET (Key \X Company) /\ stamp[c] \in Stamp
  BY DEF TypeInv, JobTyped, CompaniesTyped
<1> HIDE DEF rest
<1>3. CASE eligible(c) = k[2]
  BY <1>1, <1>2, <1>3 DEF JobTyped, TypeInv
<1>4. CASE eligible(c) # k[2]
  BY <1>1, <1>2, <1>4 DEF JobTyped, TypeInv
<1> QED BY <1>3, <1>4

LEMMA UpdateTyped ==
    ASSUME EnrichmentAssumption, TypeInv, NEW c \in Company, NEW s \in Site \cup {none},
           updateCompany(c, s)
    PROVE  CompaniesTyped' /\ StampsCounted'
<1>1. /\ stamp[c] < MaxEdits /\ stamp' = [stamp EXCEPT ![c] = stamp[c] + 1]
      /\ site' = [site EXCEPT ![c] = s]
      /\ UNCHANGED <<mergedInto, merges, moved, ruled, week, version>>
  BY DEF updateCompany
<1>2. stamp[c] \in Nat /\ stamp[c] + 1 \in Stamp
  BY <1>1, Bounds DEF TypeInv, CompaniesTyped, Stamp
<1>3. CompaniesTyped'
  BY <1>1, <1>2 DEF TypeInv, CompaniesTyped
<1>4. ASSUME NEW d \in Company
      PROVE  /\ mergedInto[d] # Nobody => merges # 0
             /\ mergedInto[d] = Nobody => stamp'[d] <= MaxEdits + 2 * merges
             /\ mergedInto[d] # Nobody => stamp'[d] + 1 <= MaxEdits + 2 * merges
  <2>1. stamp'[d] = IF d = c THEN stamp[c] + 1 ELSE stamp[d]
    BY <1>1 DEF TypeInv, CompaniesTyped
  <2>2. /\ merges \in Nat /\ stamp[d] \in Nat
        /\ mergedInto[d] # Nobody => merges # 0
        /\ mergedInto[d] = Nobody => stamp[d] <= MaxEdits + 2 * merges
        /\ mergedInto[d] # Nobody => stamp[d] + 1 <= MaxEdits + 2 * merges
    BY DEF TypeInv, StampsCounted, CompaniesTyped, Stamp
  <2> QED BY <1>1, <1>2, <2>1, <2>2, Bounds
<1>5. StampsCounted'
  BY <1>1, <1>4 DEF TypeInv, StampsCounted
<1> QED BY <1>3, <1>5

LEMMA MergeTyped ==
    ASSUME EnrichmentAssumption, TypeInv, NEW s \in Company, NEW l \in Company, mergeCompany(s, l)
    PROVE  CompaniesTyped' /\ ScansTyped' /\ StampsCounted'
<1>1. /\ s # l /\ mergedInto[s] = Nobody /\ mergedInto[l] = Nobody /\ merges < MaxMerges
      /\ merges' = merges + 1
      /\ mergedInto' = [mergedInto EXCEPT ![l] = s]
      /\ stamp' = [stamp EXCEPT ![l] = stamp[l] + 1]
      /\ moved' = [moved EXCEPT ![l] = {k \in Key : scan[k].at = l}]
      /\ scan' = [k \in Key |-> IF scan[k].at = l THEN [scan[k] EXCEPT !.at = s] ELSE scan[k]]
      /\ ruled' = ruled \cup {<<<<s, x[1][2]>>, x[2]>> : x \in {y \in ruled : y[1][1] = l}}
      /\ UNCHANGED <<site, week, version>>
  BY DEF mergeCompany
<1>2. ASSUME NEW c \in Company
      PROVE  /\ stamp[c] \in Nat /\ merges \in Nat /\ merges <= MaxMerges
             /\ mergedInto[c] # Nobody => merges # 0
             /\ mergedInto[c] = Nobody => stamp[c] <= MaxEdits + 2 * merges
             /\ mergedInto[c] # Nobody => stamp[c] + 1 <= MaxEdits + 2 * merges
  BY Bounds DEF TypeInv, StampsCounted, CompaniesTyped, Stamp
<1>3. stamp[l] + 1 \in Stamp
  BY <1>1, <1>2, Bounds DEF Stamp
<1>4. ruled' \subseteq Key \X Technology
  BY <1>1 DEF TypeInv, CompaniesTyped, Key
<1>5. CompaniesTyped'
  BY <1>1, <1>3, <1>4 DEF TypeInv, CompaniesTyped
<1>6. ASSUME NEW c \in Company
      PROVE  /\ mergedInto'[c] # Nobody => merges' # 0
             /\ mergedInto'[c] = Nobody => stamp'[c] <= MaxEdits + 2 * merges'
             /\ mergedInto'[c] # Nobody => stamp'[c] + 1 <= MaxEdits + 2 * merges'
  <2>1. CASE c = l
    <3>1. mergedInto'[c] = s /\ stamp'[c] = stamp[l] + 1
      BY <1>1, <2>1 DEF TypeInv, CompaniesTyped
    <3> QED BY <1>1, <1>2, <3>1, CompanyNames, Bounds
  <2>2. CASE c # l
    <3>1. mergedInto'[c] = mergedInto[c] /\ stamp'[c] = stamp[c]
      BY <1>1, <2>2 DEF TypeInv, CompaniesTyped
    <3> QED BY <1>1, <1>2, <3>1, Bounds
  <2> QED BY <2>1, <2>2
<1>7. StampsCounted'
  <2>1. merges' \in 0 .. MaxMerges
    BY <1>1, <1>2, Bounds
  <2> QED BY <1>1, <1>6, <2>1 DEF TypeInv, StampsCounted
<1>8. ASSUME NEW k \in Key
      PROVE  scan'[k] \in ScanRow /\ (scan'[k].at # Nobody => mergedInto'[scan'[k].at] = Nobody)
  <2> DEFINE r == scan[k]
  <2>1. r \in ScanRow /\ (r.at # Nobody => mergedInto[r.at] = Nobody)
    BY DEF TypeInv, ScansTyped
  <2>2. scan'[k] = IF r.at = l THEN [r EXCEPT !.at = s] ELSE r
    BY <1>1
  <2> HIDE DEF r
  <2>3. CASE r.at = l
    BY <1>1, <2>1, <2>2, <2>3 DEF ScanRow, TypeInv, CompaniesTyped
  <2>4. CASE r.at # l
    BY <1>1, <2>1, <2>2, <2>4 DEF ScanRow, TypeInv, CompaniesTyped
  <2> QED BY <2>3, <2>4
<1>9. scan' \in [Key -> ScanRow]
  BY <1>1, <1>8
<1> QED BY <1>5, <1>7, <1>8, <1>9 DEF ScansTyped

LEMMA UnmergeTyped ==
    ASSUME EnrichmentAssumption, TypeInv, NEW l \in Company, unmergeCompany(l)
    PROVE  CompaniesTyped' /\ ScansTyped' /\ StampsCounted'
<1> DEFINE s == mergedInto[l]
<1>1. /\ s # Nobody /\ mergedInto[s] = Nobody
      /\ mergedInto' = [mergedInto EXCEPT ![l] = Nobody]
      /\ stamp' = [stamp EXCEPT ![l] = stamp[l] + 1]
      /\ moved' = [moved EXCEPT ![l] = {}]
      /\ scan' = [k \in Key |-> IF k \in moved[l] THEN [scan[k] EXCEPT !.at = l] ELSE scan[k]]
      /\ ruled' = {x \in ruled : /\ x[1][1] # l
                                 /\ x[1][1] = s => \A k \in moved[l] : k[2] # x[1][2]}
      /\ UNCHANGED <<site, merges, week, version>>
  BY DEF unmergeCompany
<1>2. ASSUME NEW c \in Company
      PROVE  /\ stamp[c] \in Nat /\ merges \in Nat /\ merges <= MaxMerges
             /\ mergedInto[c] # Nobody => merges # 0
             /\ mergedInto[c] = Nobody => stamp[c] <= MaxEdits + 2 * merges
             /\ mergedInto[c] # Nobody => stamp[c] + 1 <= MaxEdits + 2 * merges
  BY Bounds DEF TypeInv, StampsCounted, CompaniesTyped, Stamp
<1>3. stamp[l] + 1 \in Stamp
  BY <1>1, <1>2, Bounds DEF Stamp
<1>5. CompaniesTyped'
  BY <1>1, <1>3 DEF TypeInv, CompaniesTyped
<1>6. ASSUME NEW c \in Company
      PROVE  /\ mergedInto'[c] # Nobody => merges' # 0
             /\ mergedInto'[c] = Nobody => stamp'[c] <= MaxEdits + 2 * merges'
             /\ mergedInto'[c] # Nobody => stamp'[c] + 1 <= MaxEdits + 2 * merges'
  <2>1. CASE c = l
    <3>1. mergedInto'[c] = Nobody /\ stamp'[c] = stamp[l] + 1
      BY <1>1, <2>1 DEF TypeInv, CompaniesTyped
    <3> QED BY <1>1, <1>2, <2>1, <3>1, Bounds
  <2>2. CASE c # l
    <3>1. mergedInto'[c] = mergedInto[c] /\ stamp'[c] = stamp[c]
      BY <1>1, <2>2 DEF TypeInv, CompaniesTyped
    <3> QED BY <1>1, <1>2, <3>1, Bounds
  <2> QED BY <2>1, <2>2
<1>7. StampsCounted'
  BY <1>1, <1>6 DEF TypeInv, StampsCounted
<1>8. ASSUME NEW k \in Key
      PROVE  scan'[k] \in ScanRow /\ (scan'[k].at # Nobody => mergedInto'[scan'[k].at] = Nobody)
  <2> DEFINE r == scan[k]
  <2>1. r \in ScanRow /\ (r.at # Nobody => mergedInto[r.at] = Nobody)
    BY DEF TypeInv, ScansTyped
  <2>2. scan'[k] = IF k \in moved[l] THEN [r EXCEPT !.at = l] ELSE r
    BY <1>1
  <2>3. \A c \in Company : mergedInto'[c] = IF c = l THEN Nobody ELSE mergedInto[c]
    BY <1>1 DEF TypeInv, CompaniesTyped
  <2> HIDE DEF r
  <2>4. CASE k \in moved[l]
    BY <2>1, <2>2, <2>3, <2>4 DEF ScanRow
  <2>5. CASE k \notin moved[l]
    BY <2>1, <2>2, <2>3, <2>5 DEF ScanRow
  <2> QED BY <2>4, <2>5
<1>9. scan' \in [Key -> ScanRow]
  BY <1>1, <1>8
<1> QED BY <1>5, <1>7, <1>8, <1>9 DEF ScansTyped

LEMMA NextTypes == ASSUME EnrichmentAssumption, TypeInv, AbsenceInv, [Next]_vars PROVE TypeInv'
<1>c. UNCHANGED <<site, stamp, mergedInto, moved, ruled>> => CompaniesTyped'
  BY DEF TypeInv, CompaniesTyped
<1>s. UNCHANGED <<scan, mergedInto>> => ScansTyped'
  BY DEF TypeInv, ScansTyped
<1>o. UNCHANGED seen => SeenTyped'
  BY DEF TypeInv, SeenTyped
<1>j. UNCHANGED <<cursor, job>> => JobTyped'
  BY DEF TypeInv, JobTyped
<1>w. UNCHANGED <<stamp, mergedInto, merges, week, version>> => StampsCounted'
  BY DEF TypeInv, StampsCounted
<1> USE DEF companyVars
<1>2. CASE discover
  BY <1>c, <1>o, <1>w, <1>2, DiscoverTyped DEF discover, TypeInv
<1>3. CASE finish
  <2>1. JobTyped'
    BY <1>3, Bounds DEF finish, NoJob, JobTyped, TypeInv
  <2> QED BY <1>c, <1>s, <1>o, <1>w, <1>3, <2>1 DEF finish, TypeInv
<1>4. CASE pass
  <2>1. StampsCounted'
    BY <1>4, Bounds DEF pass, StampsCounted, TypeInv
  <2> QED BY <1>c, <1>s, <1>o, <1>j, <1>4, <2>1 DEF pass, TypeInv
<1>5. CASE deploy
  <2>1. StampsCounted'
    BY <1>5, Bounds DEF deploy, StampsCounted, TypeInv
  <2> QED BY <1>c, <1>s, <1>o, <1>j, <1>5, <2>1 DEF deploy, TypeInv
<1>6. ASSUME NEW n \in 0 .. Page - 1, breakOff(n) PROVE TypeInv'
  BY <1>c, <1>o, <1>j, <1>w, <1>6, NewScansTyped DEF breakOff, TypeInv
<1>7. ASSUME NEW batch \in SUBSET Key, selectDueScans(batch) PROVE TypeInv'
  BY <1>c, <1>s, <1>o, <1>w, <1>7, SelectTyped DEF selectDueScans, TypeInv
<1>8. ASSUME NEW k \in Key, NEW c \in Company, fetch(k, c) PROVE TypeInv'
  BY <1>c, <1>s, <1>o, <1>w, <1>8, FetchTyped DEF fetch, TypeInv
<1>9. ASSUME NEW k \in Key, NEW t \in Technology, NEW on \in BOOLEAN, suppress(k, t, on)
      PROVE  TypeInv'
  BY <1>s, <1>j, <1>w, <1>9, SuppressTyped DEF suppress, TypeInv
<1>f. job' = Filed /\ cursor' = cursor => JobTyped'
  BY FiledTyped, Bounds DEF JobTyped, TypeInv
<1>10. ASSUME NEW found \in SUBSET Technology, persistSuccess(found) PROVE TypeInv'
  <2>1. JobTyped' /\ CompaniesTyped' /\ StampsCounted'
    BY <1>c, <1>f, <1>w, <1>10 DEF persistSuccess
  <2> QED BY <1>10, <2>1, SuccessTyped DEF TypeInv
<1>11. ASSUME NEW delay \in 0 .. 1, persistFailure(delay) PROVE TypeInv'
  <2>1. JobTyped' /\ CompaniesTyped' /\ StampsCounted' /\ SeenTyped'
    BY <1>c, <1>f, <1>w, <1>o, <1>11 DEF persistFailure
  <2>2. CASE Current(job.key, job.owner)
    <3>1. scan' = [scan EXCEPT ![job.key].due = week + delay] /\ mergedInto' = mergedInto
      BY <1>11, <2>2 DEF persistFailure
    <3>2. week + delay \in Nat
      BY DEF TypeInv, StampsCounted
    <3> QED BY <2>1, <3>1, <3>2, PutOffTyped DEF TypeInv
  <2>3. CASE ~ Current(job.key, job.owner)
    BY <1>s, <1>11, <2>1, <2>3 DEF persistFailure, TypeInv
  <2> QED BY <2>2, <2>3
<1>12. ASSUME NEW c \in Company, unmergeCompany(c) PROVE TypeInv'
  BY <1>o, <1>j, <1>12, UnmergeTyped DEF unmergeCompany, TypeInv
<1>13. ASSUME NEW c \in Company, NEW l \in Company, mergeCompany(c, l) PROVE TypeInv'
  BY <1>o, <1>j, <1>13, MergeTyped DEF mergeCompany, TypeInv
<1>14. ASSUME NEW c \in Company, NEW s \in Site \cup {none}, updateCompany(c, s)
       PROVE  TypeInv'
  BY <1>s, <1>o, <1>j, <1>14, UpdateTyped DEF updateCompany, TypeInv
<1>15. CASE UNCHANGED vars
  BY <1>c, <1>s, <1>o, <1>j, <1>w, <1>15 DEF vars, TypeInv
<1> QED BY <1>2, <1>3, <1>4, <1>5, <1>6, <1>7, <1>8, <1>9, <1>10, <1>11, <1>12, <1>13,
           <1>14, <1>15 DEF Next

\* Every row keeps its type; in particular a live scan is never left on a
\* tombstone (mergeCompany, unmergeCompany), new scans are numbered after those
\* there are (ensureScans), and no stamp outgrows the updates there were.
THEOREM EnrichmentTypes == ASSUME EnrichmentAssumption PROVE Spec => []TypeOK
<1>1. Init => TypeInv
  BY InitTypes
<1>2. TypeInv /\ AbsenceInv /\ [Next]_vars => TypeInv'
  BY NextTypes
<1> QED BY <1>1, <1>2, InvIsTyped, InitAbsence, NextAbsence, PTL DEF Spec
=============================================================================
