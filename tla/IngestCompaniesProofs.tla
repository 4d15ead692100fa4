------------------------ MODULE IngestCompaniesProofs ------------------------
(***************************************************************************)
(* Theorems of IngestCompanies, for any records, companies and values,     *)
(* and merges between runs; among them, what the proofs use of companies   *)
(* that are folded into companies.                                         *)
(***************************************************************************)
EXTENDS IngestCompanies, FiniteSetTheorems, WellFoundedInduction, TLAPS

DealNumbers == 1 .. DealCount

RowsType ==
    /\ reported \in [Record -> Nat]
    /\ DOMAIN dealAt = Deal
    /\ DOMAIN company = Company
    /\ \A c \in Company : DOMAIN company[c] = {"exists", "domain", "mergedInto"}
    /\ run.pc = "writing" => run.record \in Record
    /\ run.todo \subseteq Record

\* No deal is stored that its source has not published.
OnlyReported ==
    \A r \in Record, n \in DealNumbers : dealAt[<<r, n>>] # none => n <= reported[r]

\* A record that is being written has its deals nowhere else.
WrittenWhole ==
    run.pc = "writing" =>
        \A n \in DealNumbers : dealAt[<<run.record, n>>] \in {none, run.company}

WholeInv == RowsType /\ OnlyReported /\ WrittenWhole

LEMMA DealTuples ==
    /\ \A r \in Record, n \in DealNumbers : <<r, n>> \in Deal
    /\ \A x \in Deal : x[1] \in Record /\ x[2] \in DealNumbers /\ x = <<x[1], x[2]>>
BY DEF Deal, DealNumbers

\* What writeDeals makes of the deals of a record, and of the others'.
LEMMA WrittenDeals ==
    ASSUME RowsType, NEW r \in Record, NEW m \in Nat, NEW c, writeDeals({r} \X (1 .. m), c)
    PROVE  /\ DOMAIN dealAt' = Deal
           /\ \A q \in Record, n \in DealNumbers :
                dealAt'[<<q, n>>] = IF q = r /\ n <= m /\ dealAt[<<q, n>>] = none THEN c
                                    ELSE dealAt[<<q, n>>]
<1>1. \A q \in Record, n \in DealNumbers : <<q, n>> \in {r} \X (1 .. m) <=> q = r /\ n <= m
  BY DEF DealNumbers
<1>2. DOMAIN dealAt' = Deal
  BY DEF writeDeals, RowsType
<1>3. \A q \in Record, n \in DealNumbers :
        dealAt'[<<q, n>>] = IF <<q, n>> \in {r} \X (1 .. m) /\ dealAt[<<q, n>>] = none THEN c
                            ELSE dealAt[<<q, n>>]
  BY DealTuples DEF writeDeals
<1> QED BY <1>1, <1>2, <1>3

LEMMA InitWhole == Init => WholeInv
<1> SUFFICES ASSUME Init PROVE WholeInv
  OBVIOUS
<1>1. RowsType
  BY DEF Init, RowsType, NoRun
<1>2. OnlyReported
  BY DealTuples DEF Init, OnlyReported
<1>3. WrittenWhole
  BY DEF Init, NoRun, WrittenWhole
<1> QED BY <1>1, <1>2, <1>3 DEF WholeInv

\* Steps that write no deal and begin to write no record.
LEMMA NoDealWritten ==
    ASSUME WholeInv, dealAt' = dealAt, reported' = reported, run'.pc # "writing",
           run'.todo \subseteq Record, DOMAIN company' = Company,
           \A c \in Company : DOMAIN company'[c] = {"exists", "domain", "mergedInto"}
    PROVE  WholeInv'
BY DEF WholeInv, RowsType, OnlyReported, WrittenWhole

LEMMA UpsertCompanyWhole ==
    ASSUME WholeInv, NEW r \in Record, upsertCompany(r)
    PROVE  WholeInv'
<1> DEFINE m == decideCompanyMatch(index, r)
<1>1. dealAt' = dealAt /\ reported' = reported /\ run.todo \subseteq Record
  BY DEF upsertCompany, WholeInv, RowsType
<1>2. ASSUME NEW c, NEW method, run' = Writing(r, c, method), DOMAIN company' = Company,
             \A k \in Company : DOMAIN company'[k] = {"exists", "domain", "mergedInto"},
             \A n \in DealNumbers : dealAt[<<r, n>>] \in {none, c}
      PROVE  WholeInv'
  BY <1>1, <1>2 DEF WholeInv, RowsType, OnlyReported, WrittenWhole, Writing
<1>3. run' = Done(r) /\ UNCHANGED company => WholeInv'
  BY <1>1, NoDealWritten DEF Done, NoRun, WholeInv, RowsType
<1>4. ~ childOwnerClash(r, m.company) =>
         \A n \in DealNumbers : dealAt[<<r, n>>] \in {none, m.company}
  <2> SUFFICES ASSUME ~ childOwnerClash(r, m.company), NEW n \in DealNumbers,
                      dealAt[<<r, n>>] # none
               PROVE  dealAt[<<r, n>>] = m.company
    OBVIOUS
  <2>1. n <= reported[r]
    BY DEF WholeInv, OnlyReported
  <2>2. <<r, n>> \in {r} \X (1 .. reported[r])
    BY <2>1 DEF DealNumbers, WholeInv, RowsType
  <2> HIDE DEF m
  <2> QED BY <2>2 DEF childOwnerClash
<1> HIDE DEF m
<1>5. CASE m.kind = "conflict"
  BY <1>3, <1>5 DEF upsertCompany, recordConflict, m
<1>6. CASE m.kind # "conflict" /\ (m.kind = "hold" \/ childOwnerClash(r, m.company))
  BY <1>3, <1>6 DEF upsertCompany, m
<1>7. CASE m.kind = "existing" /\ ~ childOwnerClash(r, m.company)
  <2>1. updateCompany(r, m)
    BY <1>7 DEF upsertCompany, m
  <2>2. run' = Writing(r, m.company, m.method)
    BY <2>1 DEF updateCompany
  <2>3. /\ DOMAIN company' = Company
        /\ \A k \in Company : DOMAIN company'[k] = {"exists", "domain", "mergedInto"}
    BY <2>1 DEF updateCompany, WholeInv, RowsType
  <2> QED BY <1>2, <1>4, <1>7, <2>2, <2>3
<1>8. CASE m.kind \notin {"conflict", "hold", "existing"} /\ ~ childOwnerClash(r, m.company)
  <2>1. createCompany(r)
    BY <1>8 DEF upsertCompany, m
  <2>2. run' = Writing(r, r, "created")
    BY <2>1 DEF createCompany
  <2>3. /\ DOMAIN company' = Company
        /\ \A k \in Company : DOMAIN company'[k] = {"exists", "domain", "mergedInto"}
    BY <2>1 DEF createCompany, WholeInv, RowsType
  <2>4. m.company = none
    BY <1>8 DEF m, decideCompanyMatch, ByIdentifier, ByDomain, Create, Hold, Conflict, Existing
  <2> QED BY <1>2, <1>4, <1>8, <2>2, <2>3, <2>4
<1> QED BY <1>5, <1>6, <1>7, <1>8

\* What is written of a record is what it reports, and all goes to one company.
LEMMA RecordWritten ==
    ASSUME WholeInv, run.pc = "writing", NEW m \in Nat, m <= reported[run.record],
           writeDeals({run.record} \X (1 .. m), run.company),
           reported' = reported, run'.pc # "writing", run'.todo \subseteq Record, company' = company
    PROVE  /\ WholeInv'
           /\ \A r \in Record : Split(r)' => Split(r)
<1> DEFINE r == run.record
           c == run.company
<1>1. r \in Record
  BY DEF WholeInv, RowsType
<1>2. /\ DOMAIN dealAt' = Deal
      /\ \A q \in Record, n \in DealNumbers :
           dealAt'[<<q, n>>] = IF q = r /\ n <= m /\ dealAt[<<q, n>>] = none THEN c
                               ELSE dealAt[<<q, n>>]
  BY <1>1, WrittenDeals DEF WholeInv
<1>3. \A n \in DealNumbers : dealAt'[<<r, n>>] \in {none, c}
  BY <1>1, <1>2 DEF WholeInv, WrittenWhole
<1>4. RowsType'
  BY <1>2 DEF WholeInv, RowsType
<1>5. OnlyReported'
  <2> SUFFICES ASSUME NEW q \in Record, NEW n \in DealNumbers, dealAt'[<<q, n>>] # none
               PROVE  n <= reported'[q]
    BY DEF OnlyReported
  <2>1. CASE dealAt[<<q, n>>] # none
    BY <2>1 DEF WholeInv, OnlyReported
  <2>2. CASE dealAt[<<q, n>>] = none
    <3>1. q = r /\ n <= m
      BY <1>2, <2>2
    <3>2. reported[r] \in Nat /\ n \in Nat
      BY <1>1 DEF WholeInv, RowsType, DealNumbers
    <3> QED BY <3>1, <3>2
  <2> QED BY <2>1, <2>2
<1>6. WholeInv'
  BY <1>4, <1>5 DEF WholeInv, WrittenWhole
<1>7. ASSUME NEW q \in Record, Split(q)'
      PROVE  Split(q)
  <2>1. PICK i, j \in DealNumbers :
          /\ dealAt'[<<q, i>>] # dealAt'[<<q, j>>]
          /\ dealAt'[<<q, i>>] # none /\ dealAt'[<<q, j>>] # none
    BY <1>7 DEF Split, DealNumbers
  <2>2. q # r
    BY <1>3, <2>1
  <2>3. dealAt'[<<q, i>>] = dealAt[<<q, i>>] /\ dealAt'[<<q, j>>] = dealAt[<<q, j>>]
    BY <1>2, <2>2
  <2>4. <<q, i>> \in {q} \X (1 .. DealCount) /\ <<q, j>> \in {q} \X (1 .. DealCount)
    BY DEF DealNumbers
  <2> QED BY <2>1, <2>3, <2>4 DEF Split
<1> QED BY <1>6, <1>7

\* A merge takes the deals of a record together.
LEMMA MergeWhole ==
    ASSUME WholeInv, run.pc = "idle", NEW s \in Company, NEW l \in Company, mergeCompany(s, l),
           none \notin Company
    PROVE  /\ WholeInv'
           /\ \A r \in Record : Split(r)' => Split(r)
<1>1. /\ dealAt' = [x \in Deal |-> IF dealAt[x] = l THEN s ELSE dealAt[x]]
      /\ reported' = reported /\ run' = run
      /\ company' = [company EXCEPT ![l].mergedInto = s]
  BY DEF mergeCompany
<1>2. RowsType'
  BY <1>1 DEF WholeInv, RowsType
<1>3. \A q \in Record, n \in DealNumbers :
        dealAt'[<<q, n>>] = IF dealAt[<<q, n>>] = l THEN s ELSE dealAt[<<q, n>>]
  BY <1>1, DealTuples
<1>4. OnlyReported'
  BY <1>1, <1>3 DEF WholeInv, OnlyReported
<1>5. ASSUME NEW q \in Record, Split(q)' PROVE Split(q)
  <2>1. PICK i, j \in DealNumbers :
          /\ dealAt'[<<q, i>>] # dealAt'[<<q, j>>]
          /\ dealAt'[<<q, i>>] # none /\ dealAt'[<<q, j>>] # none
    BY <1>5 DEF Split, DealNumbers
  <2>2. /\ dealAt[<<q, i>>] # dealAt[<<q, j>>]
        /\ dealAt[<<q, i>>] # none /\ dealAt[<<q, j>>] # none
    BY <1>3, <2>1
  <2>3. <<q, i>> \in {q} \X (1 .. DealCount) /\ <<q, j>> \in {q} \X (1 .. DealCount)
    BY DEF DealNumbers
  <2> QED BY <2>2, <2>3 DEF Split
<1>6. WrittenWhole'
  BY <1>1 DEF WrittenWhole
<1> QED BY <1>2, <1>4, <1>5, <1>6 DEF WholeInv

\* A reversed merge may take some of a record's deals: those it moved.
LEMMA UnmergeWhole ==
    ASSUME WholeInv, run.pc = "idle", NEW l \in Company, unmergeCompany(l),
           \A x \in moved[l].deals : dealAt[x] # none
    PROVE  WholeInv' /\ company[l].mergedInto # none /\ company'[l].mergedInto = none
<1>1. /\ dealAt' = [x \in Deal |-> IF x \in moved[l].deals THEN l ELSE dealAt[x]]
      /\ reported' = reported /\ run' = run /\ company[l].mergedInto # none
      /\ company' = [company EXCEPT ![l].mergedInto = none]
  BY DEF unmergeCompany
<1>2. RowsType' /\ company'[l].mergedInto = none
  BY <1>1 DEF WholeInv, RowsType
<1>3. \A q \in Record, n \in DealNumbers : dealAt'[<<q, n>>] # none => dealAt[<<q, n>>] # none
  BY <1>1, DealTuples
<1>4. OnlyReported'
  BY <1>1, <1>3 DEF WholeInv, OnlyReported
<1> QED BY <1>1, <1>2, <1>4 DEF WholeInv, WrittenWhole

\* What a tombstone's merge moved are rows, and rows are never deleted.
MovedRows ==
    /\ DOMAIN moved = Company
    /\ \A l \in Company : \A x \in moved[l].deals : x \in Deal /\ dealAt[x] # none

LEMMA RowsLast ==
    ASSUME MovedRows, moved' = moved, \A x \in Deal : dealAt[x] # none => dealAt'[x] # none
    PROVE  MovedRows'
BY DEF MovedRows

LEMMA WrittenLast ==
    ASSUME MovedRows, moved' = moved, NEW xs, NEW c, writeDeals(xs, c)
    PROVE  MovedRows'
BY RowsLast DEF writeDeals

LEMMA NextWhole ==
    ASSUME IngestAssumption, WholeInv, MovedRows, [SerialNext]_vars
    PROVE  (WholeInv /\ MovedRows)' /\ [NeverSplits]_vars
<1>n. none \notin Company /\ \A r \in Record : run.todo \ {r} \subseteq Record
  BY DEF IngestAssumption, Company, WholeInv, RowsType
<1>1. ASSUME \A r \in Record : Split(r)' => Split(r) PROVE [NeverSplits]_vars
  BY <1>1 DEF NeverSplits
<1>2. ASSUME dealAt' = dealAt PROVE [NeverSplits]_vars
  BY <1>2 DEF NeverSplits, Split
<1>3. CASE upsert
  <2>1. /\ run.pc = "writing" /\ writeDeals(Deals(run.record), run.company)
        /\ run' = Done(run.record) /\ reported' = reported /\ company' = company /\ moved' = moved
    BY <1>3 DEF upsert
  <2>2. run.record \in Record /\ reported[run.record] \in Nat
    BY <2>1 DEF WholeInv, RowsType
  <2>3. run'.pc # "writing" /\ run'.todo \subseteq Record
    BY <1>n, <2>1, <2>2 DEF Done, NoRun
  <2>4. WholeInv' /\ \A r \in Record : Split(r)' => Split(r)
    BY <2>1, <2>2, <2>3, RecordWritten DEF Deals
  <2> QED BY <1>1, <2>1, <2>4, WrittenLast
<1>4. ASSUME NEW ks \in SUBSET Key, NEW n \in 0 .. DealCount, breakOff(ks, n)
      PROVE  (WholeInv /\ MovedRows)' /\ [NeverSplits]_vars
  <2>1. /\ run.pc = "writing" /\ n \in 0 .. reported[run.record]
        /\ writeDeals({run.record} \X (1 .. n), run.company)
        /\ run' = Done(run.record) \/ run' = NoRun
        /\ reported' = reported /\ company' = company /\ moved' = moved
    BY <1>4 DEF breakOff
  <2>2. run.record \in Record /\ reported[run.record] \in Nat /\ n \in Nat /\ n <= reported[run.record]
    BY <2>1 DEF WholeInv, RowsType
  <2>3. run'.pc # "writing" /\ run'.todo \subseteq Record
    <3>1. CASE run' = Done(run.record)
      BY <1>n, <2>2, <3>1 DEF Done, NoRun
    <3>2. CASE run' = NoRun
      BY <3>2 DEF NoRun
    <3> QED BY <2>1, <3>1, <3>2
  <2>4. WholeInv' /\ \A r \in Record : Split(r)' => Split(r)
    BY <2>1, <2>2, <2>3, RecordWritten
  <2> QED BY <1>1, <2>1, <2>4, WrittenLast
<1>5. CASE finish
  <2>1. WholeInv'
    BY <1>5, NoDealWritten DEF finish, NoRun, dbVars, WholeInv, RowsType
  <2> QED BY <1>2, <1>5, <2>1 DEF finish, dbVars, MovedRows
<1>6. ASSUME NEW r \in Record, upsertCompany(r)
      PROVE  (WholeInv /\ MovedRows)' /\ [NeverSplits]_vars
  BY <1>2, <1>6, UpsertCompanyWhole DEF upsertCompany, MovedRows
<1>7. ASSUME NEW r \in Record, report(r)
      PROVE  (WholeInv /\ MovedRows)' /\ [NeverSplits]_vars
  <2>1. /\ run.pc = "idle" /\ reported' = [reported EXCEPT ![r] = @ + 1]
        /\ UNCHANGED <<company, dealAt, moved, run>>
    BY <1>7 DEF report, dbVars
  <2>2. RowsType'
    BY <2>1 DEF WholeInv, RowsType
  <2>3. OnlyReported'
    BY <2>1 DEF WholeInv, RowsType, OnlyReported, DealNumbers
  <2> QED BY <1>2, <2>1, <2>2, <2>3 DEF WholeInv, WrittenWhole, MovedRows
<1>8. ASSUME NEW source \in {Record, Partner, Record \ Partner}, start(source)
      PROVE  (WholeInv /\ MovedRows)' /\ [NeverSplits]_vars
  <2>1. source \subseteq Record
    BY DEF IngestAssumption
  <2>2. run'.pc # "writing" /\ run'.todo = source /\ UNCHANGED <<reported, dealAt, company, moved>>
    BY <1>8 DEF start, NoRun, dbVars
  <2>3. WholeInv'
    BY <2>1, <2>2, NoDealWritten DEF WholeInv, RowsType
  <2> QED BY <1>2, <2>2, <2>3 DEF MovedRows
<1>9. ASSUME run.pc = "idle", NEW s \in Company, NEW l \in Company, mergeCompany(s, l)
      PROVE  (WholeInv /\ MovedRows)' /\ [NeverSplits]_vars
  <2>1. WholeInv' /\ \A r \in Record : Split(r)' => Split(r)
    BY <1>9, <1>n, MergeWhole
  <2>2. /\ moved' = [moved EXCEPT ![l] = [deals |-> {x \in Deal : dealAt[x] = l},
                                         keys |-> {k \in Key : ident[k] = l}]]
        /\ dealAt' = [x \in Deal |-> IF dealAt[x] = l THEN s ELSE dealAt[x]]
    BY <1>9 DEF mergeCompany
  <2>3. MovedRows'
    BY <1>n, <2>2 DEF MovedRows
  <2> QED BY <1>1, <2>1, <2>3
<1>10. ASSUME run.pc = "idle", NEW l \in Company, unmergeCompany(l)
       PROVE  (WholeInv /\ MovedRows)' /\ [NeverSplits]_vars
  <2>1. /\ WholeInv' /\ company[l].mergedInto # none /\ company'[l].mergedInto = none
    BY <1>10, UnmergeWhole DEF MovedRows
  <2>2. /\ moved' = [moved EXCEPT ![l] = Nothing]
        /\ dealAt' = [x \in Deal |-> IF x \in moved[l].deals THEN l ELSE dealAt[x]]
    BY <1>10 DEF unmergeCompany
  <2>3. MovedRows'
    BY <1>n, <2>2 DEF MovedRows, Nothing
  <2>4. [NeverSplits]_vars
    BY <2>1 DEF NeverSplits
  <2> QED BY <2>1, <2>3, <2>4
<1>11. CASE UNCHANGED vars
  BY <1>2, <1>11 DEF vars, dbVars, WholeInv, RowsType, OnlyReported, WrittenWhole, MovedRows
<1> QED BY <1>3, <1>4, <1>5, <1>6, <1>7, <1>8, <1>9, <1>10, <1>11
        DEF SerialNext, IngestNext, AdminNext

\* However records fail, workers die, sources grow and merges come between the
\* runs, only the reversal of a merge leaves one record's rows on two
\* companies (childOwnerClash, upsert, mergeCompany).
THEOREM RecordsAreWrittenWhole ==
    ASSUME IngestAssumption
    PROVE  SerialSpec => RecordsStayWhole
<1>1. Init => WholeInv /\ MovedRows
  <2>1. ASSUME moved = [c \in Company |-> Nothing] PROVE MovedRows
    BY <2>1 DEF MovedRows, Nothing
  <2> QED BY <2>1, InitWhole DEF Init
<1>2. WholeInv /\ MovedRows /\ [SerialNext]_vars =>
         (WholeInv /\ MovedRows)' /\ [NeverSplits]_vars
  BY NextWhole
<1> QED BY <1>1, <1>2, PTL DEF SerialSpec, RecordsStayWhole

----------------------------------------------------------------------------
(* Before any merge: which records share a company, and on what evidence.  *)

\* A legal identifier of the record is the company's.
Legal(r, c) == \E k \in stated[r].legal : ident[k] = c

StatedType ==
    /\ merges \in Nat
    /\ stated \in [Record -> [legal : SUBSET LegalId, domain : Domain \cup {none}]]

NoTombstones ==
    /\ \A c \in Company : company[c].mergedInto = none
    /\ ident \in [Key -> Company \cup {none}]
    /\ binding \in [Record -> Binding]
    /\ \A r \in Record : binding[r].status = "RESOLVED" => binding[r].company \in Company

\* The index of a run is what the tables hold, whatever the run wrote.
IndexTells ==
    run.pc # "idle" =>
        /\ DOMAIN index = {"byKey", "byIdentifier", "holders", "bindings", "numbers"}
        /\ index.byKey = [r \in Record |-> IF company[r].exists THEN r ELSE none]
        /\ index.byIdentifier = ident
        /\ index.holders \in [Domain -> SUBSET Company]
        /\ DOMAIN index.bindings = Record
        /\ \A r \in run.todo : index.bindings[r] = binding[r]

\* A partner record's id is on the company its deals, its binding and its own
\* row name.
AliasTells ==
    \A p \in Partner :
        /\ company[p].exists => ident[p] \in {none, p}
        /\ binding[p].status = "RESOLVED" => ident[p] = binding[p].company /\ ident[p] # none
        /\ dealAt[<<p, 1>>] # none => ident[p] = dealAt[<<p, 1>>]

\* A partner record on another's own row is there on legal evidence, and of
\* two on a row that is neither's, one is.
SharedOnEvidence ==
    \A p, q \in Partner :
        /\ p # q /\ ident[p] = q => Legal(p, q)
        /\ \A c \in Company \ {p, q} :
             p # q /\ ident[p] = c /\ ident[q] = c => Legal(p, c) \/ Legal(q, c)

\* The record being written: its company, and why.
WrittenOnEvidence ==
    run.pc = "writing" =>
        /\ run.company \in Company
        /\ LET p == run.record
               c == run.company
           IN  p \in Partner =>
                 /\ ident[p] \in {none, c}
                 /\ company[p].exists /\ ident[p] = none => c = p
                 /\ ident[p] = none =>
                      \/ c = p
                      \/ Legal(p, c)
                      \/ c \notin Partner /\ \A q \in Partner : ident[q] # c

Fresh == NoTombstones /\ IndexTells /\ AliasTells /\ SharedOnEvidence /\ WrittenOnEvidence
JoinInv == StatedType /\ (merges = 0 => Fresh)

\* Without tombstones every company is its own survivor.
LEMMA OwnSurvivor ==
    ASSUME IngestAssumption, NoTombstones, NEW c \in Company
    PROVE  survivorOf(c) = c
<1> DEFINE N == Cardinality(Company)
           F(g) == [n \in 0 .. N |-> [x \in Company |->
                      IF n = 0 \/ company[x].mergedInto = none THEN x ELSE g[n - 1][company[x].mergedInto]]]
           same == [n \in 0 .. N |-> [x \in Company |-> x]]
<1>1. Hop = CHOOSE g : g = F(g)
  BY DEF Hop
<1>2. \A g : F(g) = same
  BY DEF NoTombstones
<1> HIDE DEF F
<1>3. Hop = same
  BY <1>1, <1>2
<1>4. N \in 0 .. N
  <2>1. IsFiniteSet(Company)
    BY FS_Union DEF IngestAssumption, Company
  <2>2. N \in Nat
    BY <2>1, FS_CardinalityType
  <2> QED BY <2>2
<1> QED BY <1>3, <1>4 DEF survivorOf

LEMMA IndexLoaded ==
    ASSUME IngestAssumption, NoTombstones
    PROVE  /\ DOMAIN Loaded = {"byKey", "byIdentifier", "holders", "bindings", "numbers"}
           /\ Loaded.byKey = [r \in Record |-> IF company[r].exists THEN r ELSE none]
           /\ Loaded.byIdentifier = ident
           /\ Loaded.holders \in [Domain -> SUBSET Company]
           /\ DOMAIN Loaded.bindings = Record
           /\ \A r \in Record : Loaded.bindings[r] = binding[r]
<1>1. \A c \in Company \cup {none} : resolved(c) = c
  BY OwnSurvivor DEF resolved
<1>2. Loaded.byKey = [r \in Record |-> IF company[r].exists THEN r ELSE none]
  BY <1>1 DEF Loaded, Company
<1>3. Loaded.byIdentifier = ident
  <2>1. \A k \in Key : resolved(ident[k]) = ident[k]
    BY <1>1 DEF NoTombstones
  <2> QED BY <2>1 DEF Loaded, NoTombstones
<1>4. Loaded.holders \in [Domain -> SUBSET Company]
  <2>1. \A d \in Domain : {resolved(c) : c \in {x \in Company : HasDomain(x, d)}} \subseteq Company
    BY <1>1
  <2> QED BY <2>1 DEF Loaded
<1>5. DOMAIN Loaded.bindings = Record /\ \A r \in Record : Loaded.bindings[r] = binding[r]
  <2>1. \A r \in Record : binding[r] \in [status : {"NONE", "RESOLVED", "REVIEW_REQUIRED"},
                                         company : Company \cup {none}]
    BY DEF NoTombstones, Binding
  <2>2. \A r \in Record : [binding[r] EXCEPT !.company = resolved(@)] = binding[r]
    BY <1>1, <2>1
  <2> QED BY <2>2 DEF Loaded
<1>6. DOMAIN Loaded = {"byKey", "byIdentifier", "holders", "bindings", "numbers"}
  BY DEF Loaded
<1> QED BY <1>2, <1>3, <1>4, <1>5, <1>6

\* What the matcher decides of a record, before any merge.
LEMMA Decides ==
    ASSUME IngestAssumption, StatedType, Fresh, run.pc = "next", NEW r \in run.todo, r \in Record,
           NEW m, m = decideCompanyMatch(index, r)
    PROVE  /\ m.kind = "existing" => m.company \in Company
           /\ r \in Partner /\ m.kind = "existing" =>
                \/ m.company = r /\ company[r].exists
                \/ ident[r] = m.company
                \/ ident[r] = none /\ ~ company[r].exists /\ Legal(r, m.company)
                \/ /\ ident[r] = none /\ ~ company[r].exists
                   /\ m.company \notin Partner \ {r} /\ \A q \in Partner \ {r} : ident[q] # m.company
           /\ m.kind \notin {"conflict", "hold", "existing"} => ~ company[r].exists
           /\ r \in Partner /\ m.kind \notin {"conflict", "hold", "existing"} => ident[r] = none
<1> DEFINE bound == index.bindings[r]
           legal == {index.byIdentifier[k] : k \in stated[r].legal} \ {none}
           alias == {index.byIdentifier[k] : k \in {r} \cap Partner} \ {none}
           holders == {c \in UNION {index.holders[d] : d \in {stated[r].domain} \ {none}} : Live(c)}
<1>1. /\ bound = binding[r] /\ bound \in Binding
      /\ index.byKey[r] = IF company[r].exists THEN r ELSE none
      /\ index.byIdentifier = ident
  BY DEF Fresh, IndexTells, NoTombstones
<1>2. r \in Company /\ r # none /\ (r \in Partner => r \in Key /\ alias = {ident[r]} \ {none})
  BY <1>1 DEF IngestAssumption, Company, Key
<1>3. legal \subseteq Company /\ \A c \in legal : Legal(r, c) /\ c # none
  <2>1. \A k \in stated[r].legal : k \in Key /\ ident[k] \in Company \cup {none}
    BY DEF StatedType, Key, Fresh, NoTombstones
  <2> QED BY <1>1, <2>1 DEF Legal
<1>4. holders \subseteq Company
  BY DEF Fresh, IndexTells, StatedType
<1>5. bound.status = "RESOLVED" /\ r \in Partner => ident[r] = bound.company
  BY <1>1 DEF Fresh, AliasTells
<1>6. alias = {} /\ r \in Partner => ident[r] = none
  BY <1>2
<1>7. m = IF bound.status = "REVIEW_REQUIRED" THEN Hold
          ELSE IF index.byKey[r] # none THEN Existing(index.byKey[r], "own")
          ELSE IF bound.status = "RESOLVED"
               THEN IF Live(bound.company) THEN Existing(bound.company, "binding") ELSE Hold
          ELSE IF Cardinality(legal) > 1 THEN Conflict
          ELSE IF alias # {} THEN IF legal \subseteq alias THEN Hold ELSE Conflict
          ELSE IF legal # {} THEN ByIdentifier(index, r, CHOOSE c \in legal : TRUE)
          ELSE IF Cardinality(holders) = 1 THEN ByDomain(index, r, CHOOSE c \in holders : TRUE)
          ELSE Create
  BY Zenon DEF decideCompanyMatch
<1> HIDE DEF alias, legal, holders, bound
<1>8. /\ Hold.kind = "hold" /\ Conflict.kind = "conflict" /\ Create.kind = "create"
      /\ \A c, how : Existing(c, how).kind = "existing" /\ Existing(c, how).company = c
  BY DEF Hold, Conflict, Create, Existing
<1>9. CASE bound.status = "REVIEW_REQUIRED"
  BY <1>7, <1>8, <1>9
<1>10. CASE bound.status # "REVIEW_REQUIRED" /\ index.byKey[r] # none
  BY <1>1, <1>2, <1>7, <1>8, <1>10
<1>11. CASE bound.status = "RESOLVED" /\ index.byKey[r] = none
  <2>1. m = IF Live(bound.company) THEN Existing(bound.company, "binding") ELSE Hold
    BY <1>7, <1>11
  <2>2. CASE Live(bound.company)
    <3>1. m.kind = "existing" /\ m.company = bound.company
      BY <2>1, <2>2, <1>8
    <3>2. bound.company \in Company
      BY <1>1, <1>11 DEF Fresh, NoTombstones
    <3> QED BY <3>1, <3>2, <1>5, <1>11
  <2>3. CASE ~ Live(bound.company)
    BY <2>1, <2>3, <1>8
  <2> QED BY <2>2, <2>3
<1>12. ~ company[r].exists \/ index.byKey[r] # none
  BY <1>1, <1>2
<1>13. CASE /\ bound.status \notin {"REVIEW_REQUIRED", "RESOLVED"} /\ index.byKey[r] = none
            /\ Cardinality(legal) > 1 \/ alias # {}
  BY <1>7, <1>8, <1>13
<1>14. CASE /\ bound.status \notin {"REVIEW_REQUIRED", "RESOLVED"} /\ index.byKey[r] = none
            /\ ~ (Cardinality(legal) > 1) /\ alias = {} /\ legal # {}
  <2> DEFINE c == CHOOSE x \in legal : TRUE
  <2>1. c \in legal
    BY <1>14
  <2>2. m = ByIdentifier(index, r, c)
    BY <1>7, <1>14
  <2> HIDE DEF c
  <2>3. m.kind = "existing" => m.company = c
    BY <2>2, <1>8 DEF ByIdentifier
  <2> QED BY <2>1, <2>3, <1>3, <1>6, <1>12, <1>14
<1>15. CASE /\ bound.status \notin {"REVIEW_REQUIRED", "RESOLVED"} /\ index.byKey[r] = none
            /\ ~ (Cardinality(legal) > 1) /\ alias = {} /\ legal = {} /\ Cardinality(holders) = 1
  <2> DEFINE c == CHOOSE x \in holders : TRUE
  <2>1. c \in holders
    BY <1>15, FS_EmptySet
  <2>2. m = ByDomain(index, r, c)
    BY <1>7, <1>15
  <2> HIDE DEF c
  <2>3. m.kind = "existing" => m.company = c /\ ~ holdsOtherRecord(c, r)
    BY <2>2, <1>8 DEF ByDomain
  <2>4. ~ holdsOtherRecord(c, r) /\ r \in Partner =>
          c \notin Partner \ {r} /\ \A q \in Partner \ {r} : ident[q] # c
    BY DEF holdsOtherRecord, RecordIds, IngestAssumption
  <2> QED BY <2>1, <2>3, <2>4, <1>4, <1>6, <1>12, <1>15
<1>16. CASE /\ bound.status \notin {"REVIEW_REQUIRED", "RESOLVED"} /\ index.byKey[r] = none
            /\ ~ (Cardinality(legal) > 1) /\ alias = {} /\ legal = {} /\ Cardinality(holders) # 1
  <2>1. m = Create
    BY <1>7, <1>16
  <2> QED BY <2>1, <1>6, <1>8, <1>12, <1>16
<1> QED BY <1>9, <1>10, <1>11, <1>13, <1>14, <1>15, <1>16

\* The record's company is settled: the tables keep what they hold, up to the
\* company the record creates.
LEMMA UpsertCompanyJoins ==
    ASSUME IngestAssumption, JoinInv, WholeInv, NEW r \in Record, upsertCompany(r)
    PROVE  JoinInv'
<1> DEFINE m == decideCompanyMatch(index, r)
<1>1. /\ run.pc = "next" /\ r \in run.todo
      /\ UNCHANGED <<stated, ident, dealAt, merges>>
  BY DEF upsertCompany
<1>2. StatedType'
  BY <1>1 DEF StatedType, JoinInv
<1> SUFFICES ASSUME merges = 0 PROVE Fresh'
  BY <1>1, <1>2 DEF JoinInv
<1>3. Fresh /\ StatedType
  BY DEF JoinInv
<1>4. /\ r \in Company /\ none \notin Company /\ Partner \subseteq Company
      /\ Partner \subseteq Record /\ Partner \subseteq Key
      /\ DOMAIN company = Company
      /\ \A c \in Company : DOMAIN company[c] = {"exists", "domain", "mergedInto"}
  BY DEF WholeInv, RowsType, IngestAssumption, Company, Key
<1>5. SharedOnEvidence'
  BY <1>1, <1>3 DEF Fresh, SharedOnEvidence, Legal
<1>6. /\ m.kind = "existing" => m.company \in Company
      /\ r \in Partner /\ m.kind = "existing" =>
           \/ m.company = r /\ company[r].exists
           \/ ident[r] = m.company
           \/ ident[r] = none /\ ~ company[r].exists /\ Legal(r, m.company)
           \/ /\ ident[r] = none /\ ~ company[r].exists
              /\ m.company \notin Partner \ {r} /\ \A q \in Partner \ {r} : ident[q] # m.company
      /\ m.kind \notin {"conflict", "hold", "existing"} => ~ company[r].exists
      /\ r \in Partner /\ m.kind \notin {"conflict", "hold", "existing"} => ident[r] = none
  BY <1>1, <1>3, Decides
<1>7. \/ m.kind = "conflict" /\ recordConflict(r)
      \/ run' = Done(r) /\ UNCHANGED <<company, binding, index>>
      \/ m.kind = "existing" /\ updateCompany(r, m)
      \/ m.kind \notin {"conflict", "hold", "existing"} /\ createCompany(r)
  BY DEF upsertCompany
<1> HIDE DEF m
<1>8. ASSUME run' = Done(r) PROVE run'.pc = "next" /\ run'.todo = run.todo \ {r}
  BY <1>8 DEF Done, NoRun
<1>9. CASE run' = Done(r) /\ UNCHANGED <<company, binding, index>>
  BY <1>1, <1>3, <1>5, <1>8, <1>9
     DEF Fresh, NoTombstones, IndexTells, AliasTells, WrittenOnEvidence
<1>10. CASE recordConflict(r)
  <2>1. /\ binding' = [binding EXCEPT ![r] = [status |-> "REVIEW_REQUIRED", company |-> none]]
        /\ index' = [index EXCEPT !.bindings[r] = [status |-> "REVIEW_REQUIRED", company |-> none]]
        /\ run' = Done(r) /\ company' = company
    BY <1>10 DEF recordConflict
  <2>2. [status |-> "REVIEW_REQUIRED", company |-> none] \in Binding
    BY DEF Binding
  <2>3. NoTombstones'
    BY <1>1, <1>3, <2>1, <2>2 DEF Fresh, NoTombstones
  <2>4. IndexTells'
    <3>1. /\ DOMAIN index' = DOMAIN index /\ index'.byKey = index.byKey
          /\ index'.byIdentifier = index.byIdentifier /\ index'.holders = index.holders
          /\ index'.bindings = [index.bindings EXCEPT ![r] = [status |-> "REVIEW_REQUIRED", company |-> none]]
      BY <1>1, <1>3, <2>1 DEF Fresh, IndexTells
    <3>2. \A q \in run'.todo : q # r /\ q \in run.todo
      BY <1>8, <2>1
    <3>3. DOMAIN binding = Record /\ run.todo \subseteq Record
      BY <1>3 DEF Fresh, NoTombstones, WholeInv, RowsType
    <3>4. \A q \in run'.todo : index'.bindings[q] = index.bindings[q] /\ binding'[q] = binding[q]
      BY <2>1, <3>1, <3>2, <3>3, <1>1, <1>3 DEF Fresh, IndexTells
    <3> QED BY <1>1, <1>3, <2>1, <3>1, <3>2, <3>4 DEF Fresh, IndexTells
  <2>5. AliasTells'
    <3>1. \A p \in Partner : binding'[p].status = "RESOLVED" => binding'[p] = binding[p]
      BY <1>3, <1>4, <2>1 DEF Fresh, NoTombstones
    <3> QED BY <1>1, <1>3, <2>1, <3>1 DEF Fresh, AliasTells
  <2>6. WrittenOnEvidence'
    BY <1>8, <2>1 DEF WrittenOnEvidence
  <2> QED BY <1>5, <2>3, <2>4, <2>5, <2>6 DEF Fresh
<1>11. CASE m.kind = "existing" /\ updateCompany(r, m)
  <2>1. /\ run' = Writing(r, m.company, m.method) /\ UNCHANGED <<binding, index>>
        /\ company' = IF m.method # "own" /\ company[m.company].domain = none
                      THEN [company EXCEPT ![m.company].domain = stated[r].domain] ELSE company
    BY <1>11 DEF updateCompany
  <2>2. \A c \in Company : company'[c].exists = company[c].exists
                           /\ company'[c].mergedInto = company[c].mergedInto
    BY <1>4, <2>1
  <2>3. /\ run'.pc = "writing" /\ run'.record = r /\ run'.company = m.company
        /\ run'.todo = run.todo \ {r}
    BY <2>1 DEF Writing
  <2>4. NoTombstones'
    BY <1>1, <1>3, <2>1, <2>2 DEF Fresh, NoTombstones
  <2>5. IndexTells'
    BY <1>1, <1>3, <2>1, <2>2, <2>3 DEF Fresh, IndexTells, Company
  <2>6. AliasTells'
    BY <1>1, <1>3, <1>4, <2>1, <2>2 DEF Fresh, AliasTells
  <2>7. WrittenOnEvidence'
    <3> DEFINE c == m.company
    <3>1. c \in Company
      BY <1>6, <1>11
    <3>2. ASSUME r \in Partner
          PROVE  /\ ident[r] \in {none, c}
                 /\ company[r].exists /\ ident[r] = none => c = r
                 /\ ident[r] = none =>
                      \/ c = r
                      \/ Legal(r, c)
                      \/ c \notin Partner /\ \A q \in Partner : ident[q] # c
      <4>1. company[r].exists => ident[r] \in {none, r}
        BY <3>2, <1>3 DEF Fresh, AliasTells
      <4> QED BY <1>4, <1>6, <1>11, <3>1, <3>2, <4>1
    <3> HIDE DEF c
    <3>4. run'.company = c
      BY <2>3 DEF c
    <3>5. ident' = ident /\ stated' = stated
      BY <1>1
    <3> QED BY <1>4, <2>2, <2>3, <3>1, <3>2, <3>4, <3>5 DEF WrittenOnEvidence, Legal
  <2> QED BY <1>5, <2>4, <2>5, <2>6, <2>7 DEF Fresh
<1>12. CASE m.kind \notin {"conflict", "hold", "existing"} /\ createCompany(r)
  <2>1. /\ company' = [company EXCEPT ![r].exists = TRUE, ![r].domain = stated[r].domain]
        /\ index' = [index EXCEPT !.byKey[r] = r,
                       !.holders = [d \in Domain |-> IF d = stated[r].domain
                                                     THEN @[d] \cup {r} ELSE @[d]]]
        /\ run' = Writing(r, r, "created")
        /\ binding' = binding
    BY <1>12 DEF createCompany
  <2>2. /\ company'[r].exists
        /\ \A c \in Company \ {r} : company'[c] = company[c]
        /\ \A c \in Company : company'[c].mergedInto = company[c].mergedInto
    BY <1>4, <2>1
  <2>3. run'.pc = "writing" /\ run'.record = r /\ run'.company = r /\ run'.todo = run.todo \ {r}
    BY <2>1 DEF Writing
  <2>4. NoTombstones'
    BY <1>1, <1>3, <2>1, <2>2 DEF Fresh, NoTombstones
  <2>5. IndexTells'
    <3>1. /\ DOMAIN index' = DOMAIN index
          /\ index'.byKey = [index.byKey EXCEPT ![r] = r]
          /\ index'.byIdentifier = index.byIdentifier /\ index'.bindings = index.bindings
          /\ index'.holders = [d \in Domain |-> IF d = stated[r].domain
                                 THEN index.holders[d] \cup {r} ELSE index.holders[d]]
      BY <1>1, <1>3, <2>1 DEF Fresh, IndexTells
    <3>2. index'.holders \in [Domain -> SUBSET Company]
      BY <1>1, <1>3, <1>4, <3>1 DEF Fresh, IndexTells
    <3>3. index'.byKey = [q \in Record |-> IF company'[q].exists THEN q ELSE none]
      BY <1>1, <1>3, <2>2, <3>1 DEF Fresh, IndexTells, Company
    <3> QED BY <1>1, <1>3, <2>1, <2>3, <3>1, <3>2, <3>3 DEF Fresh, IndexTells
  <2>6. AliasTells'
    BY <1>1, <1>3, <1>4, <1>6, <1>12, <2>1, <2>2 DEF Fresh, AliasTells
  <2>7. WrittenOnEvidence'
    BY <1>1, <1>4, <1>6, <1>12, <2>3 DEF WrittenOnEvidence
  <2> QED BY <1>5, <2>4, <2>5, <2>6, <2>7 DEF Fresh
<1> QED BY <1>7, <1>9, <1>10, <1>11, <1>12

\* What a record has written, to the end or until it broke off, is on its
\* company, and the partner's ids among it are its own.
LEMMA IdentifiersJoin ==
    ASSUME IngestAssumption, StatedType, Fresh, WholeInv, run.pc = "writing",
           NEW ks, ks \subseteq Identifiers(run.record),
           ident' = [k \in Key |-> IF k \in ks /\ ident[k] = none THEN run.company ELSE ident[k]],
           NEW n \in Nat, n > 0 => ks = Identifiers(run.record),
           writeDeals({run.record} \X (1 .. n), run.company),
           company' = company, stated' = stated,
           \/ binding' = binding
           \/ /\ ks = Identifiers(run.record)
              /\ binding' = [binding EXCEPT ![run.record] =
                               [status |-> "RESOLVED", company |-> run.company]]
    PROVE  NoTombstones' /\ AliasTells' /\ SharedOnEvidence'
<1> DEFINE r == run.record
           c == run.company
<1>1. /\ r \in Record /\ c \in Company /\ none \notin Company /\ Partner \subseteq Key
      /\ Partner \subseteq Record /\ Partner \subseteq Company /\ none \notin Key
      /\ DOMAIN ident = Key /\ binding \in [Record -> Binding]
  BY DEF WholeInv, RowsType, Fresh, NoTombstones, WrittenOnEvidence, IngestAssumption, Company, Key
<1>2. \A k \in Key : ident'[k] = IF k \in ks /\ ident[k] = none THEN c ELSE ident[k]
  OBVIOUS
<1>3. \A p \in Partner : p \in Identifiers(r) <=> p = r
  <2>1. stated[r].legal \subseteq LegalId /\ stated[r].domain \in Domain \cup {none}
    BY <1>1 DEF StatedType
  <2> QED BY <1>1, <2>1 DEF Identifiers, IngestAssumption
<1>4. r \in Partner =>
        /\ ident[r] \in {none, c}
        /\ company[r].exists /\ ident[r] = none => c = r
        /\ ident[r] = none =>
             \/ c = r
             \/ Legal(r, c)
             \/ c \notin Partner /\ \A q \in Partner : ident[q] # c
  BY DEF Fresh, WrittenOnEvidence
<1>5. \A q \in Partner : 1 \in DealNumbers /\
        dealAt'[<<q, 1>>] = IF q = r /\ 1 <= n /\ dealAt[<<q, 1>>] = none THEN c
                            ELSE dealAt[<<q, 1>>]
  <2>1. 1 \in DealNumbers
    BY DEF DealNumbers, IngestAssumption
  <2>2. \A q \in Record, i \in DealNumbers :
          dealAt'[<<q, i>>] = IF q = r /\ i <= n /\ dealAt[<<q, i>>] = none THEN c
                              ELSE dealAt[<<q, i>>]
    <3>1. \A q \in Record, i \in DealNumbers :
            <<q, i>> \in {run.record} \X (1 .. n) <=> q = run.record /\ i <= n
      BY DEF DealNumbers
    <3>2. \A x \in Deal : dealAt'[x] = IF x \in {run.record} \X (1 .. n) /\ dealAt[x] = none
                                      THEN run.company ELSE dealAt[x]
      BY DEF writeDeals
    <3> QED BY <3>1, <3>2, DealTuples
  <2> QED BY <1>1, <2>1, <2>2
<1>6. /\ \A q \in Record \ {r} : binding'[q] = binding[q]
      /\ \/ binding'[r] = binding[r]
         \/ /\ ks = Identifiers(r)
            /\ binding'[r].status = "RESOLVED" /\ binding'[r].company = c
  BY <1>1
<1>7. [status |-> "RESOLVED", company |-> c] \in Binding
  BY <1>1 DEF Binding
<1> HIDE DEF r, c
<1>8. NoTombstones'
  <2>1. \A q \in Record : binding'[q].status = "RESOLVED" => binding'[q].company \in Company
    BY <1>1, <1>6 DEF Fresh, NoTombstones
  <2>2. ident' \in [Key -> Company \cup {none}]
    BY <1>1 DEF Fresh, NoTombstones, r, c
  <2>3. binding' \in [Record -> Binding]
    BY <1>1, <1>7 DEF r, c
  <2> QED BY <2>1, <2>2, <2>3 DEF Fresh, NoTombstones
<1>9. \A p \in Partner : ident'[p] = IF p = r /\ r \in ks /\ ident[r] = none THEN c ELSE ident[p]
  BY <1>1, <1>2, <1>3 DEF r
<1>10. ks = Identifiers(r) /\ r \in Partner => r \in ks
  BY <1>3
<1>11. n > 0 => ks = Identifiers(r)
  BY DEF r
<1>12. \A p \in Partner, d \in Company : Legal(p, d) => Legal(p, d)'
  <2>1. \A p \in Partner : stated[p].legal \subseteq Key
    BY <1>1 DEF StatedType, Key
  <2> QED BY <1>1, <1>2, <2>1 DEF Legal
<1>13. AliasTells'
  <2> SUFFICES ASSUME NEW p \in Partner
               PROVE  /\ company[p].exists => ident'[p] \in {none, p}
                      /\ binding'[p].status = "RESOLVED" =>
                           ident'[p] = binding'[p].company /\ ident'[p] # none
                      /\ dealAt'[<<p, 1>>] # none => ident'[p] = dealAt'[<<p, 1>>]
    BY DEF AliasTells
  <2>1. /\ company[p].exists => ident[p] \in {none, p}
        /\ binding[p].status = "RESOLVED" => ident[p] = binding[p].company /\ ident[p] # none
        /\ dealAt[<<p, 1>>] # none => ident[p] = dealAt[<<p, 1>>]
    BY DEF Fresh, AliasTells
  <2>2. CASE p # r
    BY <1>1, <1>5, <1>6, <1>9, <2>1, <2>2
  <2>3. CASE p = r
    <3>1. ident'[p] = IF r \in ks /\ ident[p] = none THEN c ELSE ident[p]
      BY <1>9, <2>3
    <3>2. company[p].exists => ident'[p] \in {none, p}
      BY <1>4, <2>1, <2>3, <3>1
    <3>3. binding'[p].status = "RESOLVED" => ident'[p] = binding'[p].company /\ ident'[p] # none
      BY <1>1, <1>4, <1>6, <1>10, <2>1, <2>3, <3>1
    <3>4. dealAt'[<<p, 1>>] # none => ident'[p] = dealAt'[<<p, 1>>]
      <4>1. CASE dealAt[<<p, 1>>] # none
        BY <1>1, <1>4, <1>5, <2>1, <2>3, <3>1, <4>1
      <4>2. CASE dealAt[<<p, 1>>] = none /\ 1 <= n
        BY <1>4, <1>5, <1>10, <1>11, <2>3, <3>1, <4>2
      <4>3. CASE dealAt[<<p, 1>>] = none /\ ~ (1 <= n)
        BY <1>5, <4>3
      <4> QED BY <4>1, <4>2, <4>3
    <3> QED BY <3>2, <3>3, <3>4
  <2> QED BY <2>2, <2>3
<1>14. SharedOnEvidence'
  <2>1. ASSUME NEW p \in Partner, NEW q \in Partner, p # q, ident'[p] = q
        PROVE  Legal(p, q)'
    BY <1>1, <1>4, <1>9, <1>12, <2>1 DEF Fresh, SharedOnEvidence
  <2>2. ASSUME NEW p \in Partner, NEW q \in Partner, NEW d \in Company \ {p, q},
               p # q, ident'[p] = d, ident'[q] = d
        PROVE  Legal(p, d)' \/ Legal(q, d)'
    <3>1. CASE ident[p] = d /\ ident[q] = d
      BY <1>12, <2>2, <3>1 DEF Fresh, SharedOnEvidence
    <3>2. CASE ident[p] # d
      BY <1>1, <1>4, <1>9, <1>12, <2>2, <3>2
    <3>3. CASE ident[q] # d
      BY <1>1, <1>4, <1>9, <1>12, <2>2, <3>3
    <3> QED BY <3>1, <3>2, <3>3
  <2> QED BY <2>1, <2>2 DEF SharedOnEvidence
<1> QED BY <1>8, <1>13, <1>14

LEMMA UpsertJoins ==
    ASSUME IngestAssumption, JoinInv, WholeInv, upsert
    PROVE  JoinInv'
<1> DEFINE r == run.record
           c == run.company
           ks == Identifiers(r)
           written == {k \in ks : ident[k] = none}
<1>1. /\ run.pc = "writing" /\ run' = Done(r) /\ writeDeals(Deals(r), c)
      /\ binding' = [x \in Record |-> IF x \in (IF binds(run.method) THEN {r} ELSE {})
                                      THEN [status |-> "RESOLVED", company |-> c] ELSE binding[x]]
      /\ UNCHANGED <<stated, company, merges>>
  BY DEF upsert
<1> DEFINE learned == Learned(ks, c)
           bound == IF binds(run.method) THEN {r} ELSE {}
           b == [status |-> "RESOLVED", company |-> c]
<1>2. /\ ident' = [k \in Key |-> IF k \in written THEN c ELSE ident[k]]
      /\ index' = [learned EXCEPT !.bindings =
                      [x \in Record |-> IF x \in bound THEN b ELSE learned.bindings[x]]]
      /\ learned = [index EXCEPT
             !.byIdentifier = [k \in Key |-> IF k \in written THEN c ELSE index.byIdentifier[k]],
             !.holders = [d \in Domain |-> IF d \in written THEN index.holders[d] \cup {c}
                                            ELSE index.holders[d]],
             !.numbers = IF \E n \in Number : <<c, n>> \in index.numbers THEN index.numbers
                         ELSE index.numbers \cup ({c} \X (ks \cap Number))]
  BY DEF upsert, writeIdentifiers, Learned
<1>3. StatedType'
  BY <1>1 DEF StatedType, JoinInv
<1> SUFFICES ASSUME merges = 0 PROVE Fresh'
  BY <1>1, <1>3 DEF JoinInv
<1>4. /\ Fresh /\ StatedType /\ r \in Record /\ reported[r] \in Nat
      /\ c \in Company /\ binding \in [Record -> Binding]
  BY <1>1 DEF JoinInv, WholeInv, RowsType, Fresh, WrittenOnEvidence, NoTombstones
<1>5. NoTombstones' /\ AliasTells' /\ SharedOnEvidence'
  <2>1. ident' = [k \in Key |-> IF k \in ks /\ ident[k] = none THEN c ELSE ident[k]]
    BY <1>2
  <2>2. \/ binding' = binding
        \/ binding' = [binding EXCEPT ![r] = [status |-> "RESOLVED", company |-> c]]
    <3>1. CASE binds(run.method)
      BY <1>1, <1>4, <3>1
    <3>2. CASE ~ binds(run.method)
      BY <1>1, <1>4, <3>2
    <3> QED BY <3>1, <3>2
  <2>3. writeDeals({r} \X (1 .. reported[r]), c)
    BY <1>1 DEF Deals
  <2>4. PICK n \in Nat : n = reported[r]
    BY <1>4
  <2>5. writeDeals({r} \X (1 .. n), c)
    BY <2>3, <2>4
  <2> QED BY <1>1, <1>4, <2>1, <2>2, <2>5, IdentifiersJoin
<1>6. run'.pc = "next" /\ run'.todo = run.todo \ {r}
  BY <1>1 DEF Done, NoRun
<1>7. IndexTells'
  <2>1. /\ DOMAIN index' = DOMAIN index /\ index'.byKey = index.byKey
        /\ index'.byIdentifier = [k \in Key |-> IF k \in written THEN c ELSE index.byIdentifier[k]]
        /\ index'.holders = [d \in Domain |-> IF d \in written THEN index.holders[d] \cup {c}
                                              ELSE index.holders[d]]
        /\ index'.bindings = [x \in Record |-> IF x \in bound THEN b ELSE index.bindings[x]]
    <3> HIDE DEF written, bound, b
    <3>1. /\ DOMAIN learned = DOMAIN index /\ learned.byKey = index.byKey
          /\ learned.byIdentifier = [k \in Key |-> IF k \in written THEN c ELSE index.byIdentifier[k]]
          /\ learned.holders = [d \in Domain |-> IF d \in written THEN index.holders[d] \cup {c}
                                                ELSE index.holders[d]]
          /\ learned.bindings = index.bindings
      BY <1>1, <1>2, <1>4 DEF Fresh, IndexTells
    <3>2. DOMAIN index = {"byKey", "byIdentifier", "holders", "bindings", "numbers"}
      BY <1>1, <1>4 DEF Fresh, IndexTells
    <3> HIDE DEF learned
    <3> QED BY <1>2, <3>1, <3>2
  <2> HIDE DEF written
  <2>2. index'.holders \in [Domain -> SUBSET Company]
    BY <1>1, <1>4, <2>1 DEF Fresh, IndexTells
  <2>3. index'.byIdentifier = ident'
    BY <1>1, <1>2, <1>4, <2>1 DEF Fresh, IndexTells
  <2>4. \A q \in run'.todo : index'.bindings[q] = binding'[q]
    <3>1. \A q \in run'.todo : q \in Record /\ q # r /\ q \in run.todo
      BY <1>6 DEF WholeInv, RowsType
    <3>2. \A q \in run'.todo : binding'[q] = binding[q]
      BY <1>1, <3>1
    <3>3. \A q \in run'.todo : index'.bindings[q] = index.bindings[q]
      BY <2>1, <3>1
    <3> QED BY <1>1, <1>4, <3>1, <3>2, <3>3 DEF Fresh, IndexTells
  <2>5. DOMAIN index' = {"byKey", "byIdentifier", "holders", "bindings", "numbers"}
    BY <1>1, <1>4, <2>1 DEF Fresh, IndexTells
  <2>6. DOMAIN index'.bindings = Record
    BY <2>1
  <2>7. index'.byKey = [q \in Record |-> IF company'[q].exists THEN q ELSE none]
    BY <1>1, <1>4, <2>1 DEF Fresh, IndexTells
  <2> QED BY <2>2, <2>3, <2>4, <2>5, <2>6, <2>7 DEF IndexTells
<1>8. WrittenOnEvidence'
  BY <1>6 DEF WrittenOnEvidence
<1> QED BY <1>5, <1>7, <1>8 DEF Fresh

LEMMA BreakOffJoins ==
    ASSUME IngestAssumption, JoinInv, WholeInv, NEW ks \in SUBSET Key, NEW n \in Nat, breakOff(ks, n)
    PROVE  JoinInv'
<1> DEFINE r == run.record
           c == run.company
           written == {k \in ks : ident[k] = none}
<1>1. /\ run.pc = "writing" /\ writeDeals({r} \X (1 .. n), c)
      /\ ks \subseteq Identifiers(r) /\ (n > 0 => ks = Identifiers(r))
      /\ writeIdentifiers(ks, c)
      /\ (index' = Learned(ks, c) /\ run' = Done(r)) \/ (index' = NoIndex /\ run' = NoRun)
      /\ UNCHANGED <<stated, company, binding, merges>>
  BY DEF breakOff
<1>2. StatedType'
  BY <1>1 DEF StatedType, JoinInv
<1> SUFFICES ASSUME merges = 0 PROVE Fresh'
  BY <1>1, <1>2 DEF JoinInv
<1>3. Fresh /\ StatedType /\ c \in Company
  BY <1>1 DEF JoinInv, Fresh, WrittenOnEvidence
<1>4. ident' = [k \in Key |-> IF k \in ks /\ ident[k] = none THEN c ELSE ident[k]]
  BY <1>1 DEF writeIdentifiers
<1>5. NoTombstones' /\ AliasTells' /\ SharedOnEvidence'
  BY <1>1, <1>3, <1>4, IdentifiersJoin
<1>6. CASE run' = NoRun
  <2>1. run'.pc = "idle"
    BY <1>6 DEF NoRun
  <2> QED BY <1>5, <2>1 DEF Fresh, IndexTells, WrittenOnEvidence
<1>7. CASE index' = Learned(ks, c) /\ run' = Done(r)
  <2>1. run'.pc = "next" /\ run'.todo = run.todo \ {r}
    BY <1>7 DEF Done, NoRun
  <2>2. index' = [index EXCEPT
             !.byIdentifier = [k \in Key |-> IF k \in written THEN c ELSE @[k]],
             !.holders = [d \in Domain |-> IF d \in written THEN @[d] \cup {c} ELSE @[d]],
             !.numbers = IF \E i \in Number : <<c, i>> \in @ THEN @
                         ELSE @ \cup ({c} \X (ks \cap Number))]
    BY <1>7 DEF Learned
  <2>3. /\ DOMAIN index' = DOMAIN index /\ index'.byKey = index.byKey
        /\ index'.byIdentifier = [k \in Key |-> IF k \in written THEN c ELSE index.byIdentifier[k]]
        /\ index'.holders = [d \in Domain |-> IF d \in written THEN index.holders[d] \cup {c}
                                              ELSE index.holders[d]]
        /\ index'.bindings = index.bindings
    BY <1>1, <1>3, <2>2 DEF Fresh, IndexTells
  <2>4. \A k \in Key : k \in written <=> k \in ks /\ ident[k] = none
    OBVIOUS
  <2> HIDE DEF written
  <2>5. index'.holders \in [Domain -> SUBSET Company]
    BY <1>1, <1>3, <2>3 DEF Fresh, IndexTells
  <2>6. index'.byIdentifier = ident'
    BY <1>1, <1>3, <1>4, <2>3, <2>4 DEF Fresh, IndexTells
  <2>7. \A q \in run'.todo : index'.bindings[q] = binding'[q]
    BY <1>1, <1>3, <2>1, <2>3 DEF Fresh, IndexTells
  <2>8. IndexTells'
    BY <1>1, <1>3, <2>3, <2>5, <2>6, <2>7 DEF Fresh, IndexTells
  <2> QED BY <1>5, <2>1, <2>8 DEF Fresh, WrittenOnEvidence
<1> QED BY <1>1, <1>6, <1>7

LEMMA InitJoins == IngestAssumption /\ Init => JoinInv
<1> SUFFICES ASSUME IngestAssumption, Init PROVE JoinInv
  OBVIOUS
<1>1. StatedType /\ run.pc = "idle"
  BY DEF Init, StatedType, NoRun
<1>2. NoTombstones
  BY DEF Init, NoTombstones, Unbound, Binding
<1>3. AliasTells
  BY DealTuples DEF Init, AliasTells, Unbound, IngestAssumption, Deal, Key, Company
<1>4. SharedOnEvidence
  BY DEF Init, SharedOnEvidence, IngestAssumption, Key, Company
<1> QED BY <1>1, <1>2, <1>3, <1>4 DEF JoinInv, Fresh, IndexTells, WrittenOnEvidence

\* The other steps.
LEMMA NextJoins ==
    ASSUME IngestAssumption, JoinInv, WholeInv, [SerialNext]_vars
    PROVE  JoinInv'
<1>1. ASSUME UNCHANGED <<stated, company, ident, binding, dealAt, merges>>,
             run'.pc # "writing", Fresh => IndexTells'
      PROVE  JoinInv'
  BY <1>1 DEF JoinInv, StatedType, Fresh, NoTombstones, AliasTells, SharedOnEvidence, Legal,
              WrittenOnEvidence
<1>2. CASE finish
  BY <1>1, <1>2 DEF finish, dbVars, NoRun, IndexTells
<1>3. ASSUME NEW r \in Record, report(r) PROVE JoinInv'
  BY <1>1, <1>3 DEF report, dbVars, IndexTells
<1>4. ASSUME NEW source \in {Record, Partner, Record \ Partner}, start(source) PROVE JoinInv'
  <2>1. source \subseteq Record
    BY DEF IngestAssumption
  <2>2. /\ index' = Loaded /\ run'.pc = "next" /\ run'.todo = source
        /\ UNCHANGED <<stated, company, ident, binding, dealAt, merges>>
    BY <1>4 DEF start, dbVars, NoRun
  <2>3. Fresh => IndexTells'
    BY <2>1, <2>2, IndexLoaded DEF Fresh, IndexTells
  <2> QED BY <1>1, <2>2, <2>3
<1>5. ASSUME NEW s \in Company, NEW l \in Company, mergeCompany(s, l) PROVE JoinInv'
  BY <1>5 DEF mergeCompany, JoinInv, StatedType
<1>6. ASSUME NEW l \in Company, unmergeCompany(l) PROVE JoinInv'
  BY <1>6 DEF unmergeCompany, JoinInv, StatedType, Fresh, NoTombstones
<1>7. CASE UNCHANGED vars
  BY <1>7 DEF vars, dbVars, JoinInv, StatedType, Fresh, NoTombstones, IndexTells, AliasTells,
              SharedOnEvidence, Legal, WrittenOnEvidence
<1>8. ASSUME NEW ks \in SUBSET Key, NEW n \in 0 .. DealCount, breakOff(ks, n) PROVE JoinInv'
  BY <1>8, BreakOffJoins
<1> QED BY <1>2, <1>3, <1>4, <1>5, <1>6, <1>7, <1>8, UpsertJoins, UpsertCompanyJoins
        DEF SerialNext, IngestNext, AdminNext

\* Two of the partner's records share a company only on a legal identifier of
\* one of them, whatever the order of the runs, the failures and the deaths,
\* and whatever people contributed (decideCompanyMatch, writeIdentifiers).
THEOREM LegalEvidenceJoins ==
    ASSUME IngestAssumption
    PROVE  SerialSpec => []JoinedOnLegalEvidence
<1>1. Init => WholeInv /\ MovedRows /\ JoinInv
  <2>1. ASSUME moved = [c \in Company |-> Nothing] PROVE MovedRows
    BY <2>1 DEF MovedRows, Nothing
  <2> QED BY <2>1, InitWhole, InitJoins DEF Init
<1>2. WholeInv /\ MovedRows /\ JoinInv /\ [SerialNext]_vars => (WholeInv /\ MovedRows /\ JoinInv)'
  BY NextWhole, NextJoins
<1>3. JoinInv => JoinedOnLegalEvidence
  <2> SUFFICES ASSUME Fresh, NEW c \in Company, NEW p \in Partner, NEW q \in Partner, p # q,
                      dealAt[<<p, 1>>] = c, dealAt[<<q, 1>>] = c
               PROVE  \E r \in {p, q} \ {c} : \E k \in stated[r].legal : ident[k] = c
    BY DEF JoinInv, JoinedOnLegalEvidence, Routed
  <2>1. ident[p] = c /\ ident[q] = c
    BY DEF Fresh, AliasTells, IngestAssumption, Company
  <2>2. (p # c /\ Legal(p, c)) \/ (q # c /\ Legal(q, c))
    <3>1. CASE c = q
      BY <2>1, <3>1 DEF Fresh, SharedOnEvidence
    <3>2. CASE c = p
      BY <2>1, <3>2 DEF Fresh, SharedOnEvidence
    <3>3. CASE c \notin {p, q}
      BY <2>1, <3>3 DEF Fresh, SharedOnEvidence
    <3> QED BY <3>1, <3>2, <3>3
  <2> QED BY <2>2 DEF Legal
<1> QED BY <1>1, <1>2, <1>3, PTL DEF SerialSpec

\* A nonempty set of numbers has a least one.
LEMMA LeastOf ==
    ASSUME NEW T \in SUBSET Nat, T # {}
    PROVE  \E n \in T : \A k \in T : n <= k
<1>1. PICK n \in T : \A k \in T : ~ (<<k, n>> \in OpToRel(<, Nat))
  BY NatLessThanWellFounded, WFMin
<1>2. \A k \in T : n <= k
  <2> TAKE k \in T
  <2>1. ~ (k < n)
    BY <1>1 DEF OpToRel
  <2> QED BY <2>1
<1> QED BY <1>2

----------------------------------------------------------------------------
(* Companies folded into companies: m gives mergedInto.  As there is no    *)
(* round trip, following it ends on a live row (as in MergesProofs).       *)

Tree(m) == m \in [Company -> Company \cup {none}]
Acyclic(m) == \A S \in SUBSET Company : S # {} => \E x \in S : m[x] \notin S

\* f[n][x]: the company n hops from x.
Hops(f, m, N) ==
    f = [n \in 0 .. N |-> [x \in Company |-> IF n = 0 \/ m[x] = none THEN x ELSE f[n - 1][m[x]]]]

\* r leads every company to the one its chain ends on.
IsRoot(r, m) == r \in [Company -> Company] /\ \A x \in Company : r[x] = IF m[x] = none THEN x ELSE r[m[x]]
RootOf(m) == CHOOSE r : IsRoot(r, m)

\* There is such a function, for any number of hops.
LEMMA HopsExist ==
    ASSUME NEW m, NEW N \in Nat
    PROVE  \E f : Hops(f, m, N)
<1> DEFINE T == {k \in Nat : ~ \E f : Hops(f, m, k)}
<1>1. SUFFICES ASSUME T # {} PROVE FALSE
  OBVIOUS
<1>2. PICK n \in T : \A k \in T : n <= k
  <2>1. T \in SUBSET Nat
    OBVIOUS
  <2> HIDE DEF T
  <2> QED BY <1>1, <2>1, LeastOf
<1>3. n \in Nat /\ ~ \E f : Hops(f, m, n)
  OBVIOUS
<1>4. n # 0
  <2> DEFINE f == [i \in 0 .. 0 |-> [x \in Company |-> x]]
  <2>1. Hops(f, m, 0)
    BY DEF Hops
  <2> QED BY <1>3, <2>1
<1>5. n - 1 \in Nat /\ n - 1 \notin T
  BY <1>2, <1>3, <1>4
<1>6. PICK f : Hops(f, m, n - 1)
  BY <1>5
<1> HIDE DEF T
<1> DEFINE last == [x \in Company |-> IF m[x] = none THEN x ELSE f[n - 1][m[x]]]
           g == [i \in 0 .. n |-> IF i < n THEN f[i] ELSE last]
           step(i) == [x \in Company |-> IF i = 0 \/ m[x] = none THEN x ELSE g[i - 1][m[x]]]
<1>7. ASSUME NEW i \in 0 .. n PROVE g[i] = step(i)
  <2>1. CASE i = n
    <3>1. g[n - 1] = f[n - 1] /\ g[i] = last
      BY <1>3, <1>4, <2>1
    <3> HIDE DEF g
    <3> QED BY <1>4, <2>1, <3>1
  <2>2. CASE i < n
    <3>1. i \in 0 .. n - 1 /\ i - 1 < n
      BY <1>3, <2>2
    <3>2. f[i] = [x \in Company |-> IF i = 0 \/ m[x] = none THEN x ELSE f[i - 1][m[x]]]
      BY <1>6, <3>1 DEF Hops
    <3>3. g[i] = f[i] /\ (i # 0 => g[i - 1] = f[i - 1])
      BY <1>3, <2>2, <3>1
    <3> HIDE DEF g
    <3> QED BY <3>2, <3>3
  <2>3. i = n \/ i < n
    BY <1>3
  <2> QED BY <2>1, <2>2, <2>3
<1>8. g = [i \in 0 .. n |-> g[i]]
  OBVIOUS
<1> HIDE DEF g
<1>9. Hops(g, m, n)
  BY <1>7, <1>8 DEF Hops
<1> QED BY <1>3, <1>9

\* Induction up to a number.
LEMMA UpTo ==
    ASSUME NEW N \in Nat, NEW G,
           0 \in G, \A n \in 0 .. N : n \in G /\ n # N => n + 1 \in G
    PROVE  \A n \in 0 .. N : n \in G
<1> DEFINE T == {n \in 0 .. N : n \notin G}
<1>1. SUFFICES ASSUME T # {} PROVE FALSE
  OBVIOUS
<1>2. PICK n \in T : \A k \in T : n <= k
  <2>1. T \in SUBSET Nat
    OBVIOUS
  <2> HIDE DEF T
  <2> QED BY <1>1, <2>1, LeastOf
<1>3. n \in 0 .. N /\ n \notin G /\ n # 0
  OBVIOUS
<1>4. n - 1 \in 0 .. N /\ n - 1 \notin T /\ n - 1 # N
  BY <1>2, <1>3
<1>5. n - 1 \in G
  BY <1>4
<1>6. (n - 1) + 1 \in G
  BY <1>4, <1>5
<1>7. (n - 1) + 1 = n
  BY <1>3
<1> QED BY <1>3, <1>6, <1>7

\* Folding a company into a live one, and taking one out, keep it acyclic.
LEMMA FoldedIsAcyclic ==
    ASSUME none \notin Company, NEW m, Tree(m), Acyclic(m),
           NEW s \in Company, NEW l \in Company, s # l, m[s] = none
    PROVE  Tree([m EXCEPT ![l] = s]) /\ Acyclic([m EXCEPT ![l] = s])
<1> DEFINE w == [m EXCEPT ![l] = s]
<1>1. Tree(w)
  BY DEF Tree
<1>2. \A x \in Company : w[x] = IF x = l THEN s ELSE m[x]
  BY DEF Tree
<1>3. ASSUME NEW S \in SUBSET Company, S # {} PROVE \E x \in S : w[x] \notin S
  <2>1. PICK x \in S : m[x] \notin S
    BY <1>3 DEF Acyclic
  <2>2. CASE s \in S
    BY <1>2, <2>2
  <2>3. CASE s \notin S
    BY <1>2, <2>1, <2>3
  <2> QED BY <2>2, <2>3
<1> QED BY <1>1, <1>3 DEF Acyclic

LEMMA UnfoldedIsAcyclic ==
    ASSUME none \notin Company, NEW m, Tree(m), Acyclic(m), NEW l \in Company
    PROVE  Tree([m EXCEPT ![l] = none]) /\ Acyclic([m EXCEPT ![l] = none])
<1> DEFINE w == [m EXCEPT ![l] = none]
<1>1. Tree(w)
  BY DEF Tree
<1>2. \A x \in Company : w[x] = IF x = l THEN none ELSE m[x]
  BY DEF Tree
<1>3. ASSUME NEW S \in SUBSET Company, S # {} PROVE \E x \in S : w[x] \notin S
  <2>1. PICK x \in S : m[x] \notin S
    BY <1>3 DEF Acyclic
  <2> QED BY <1>2, <2>1
<1> QED BY <1>1, <1>3 DEF Acyclic

\* As many hops as there are companies lead each to a live one.
LEMMA HopsSettle ==
    ASSUME none \notin Company, IsFiniteSet(Company), NEW m, Tree(m), Acyclic(m),
           NEW N, N = Cardinality(Company), NEW f, Hops(f, m, N)
    PROVE  IsRoot(f[N], m) /\ \A x \in Company : f[N][x] \in Company /\ m[f[N][x]] = none
<1>1. N \in Nat
  BY FS_CardinalityType
<1>a. ASSUME NEW n \in 0 .. N
      PROVE  /\ f[n] = [x \in Company |-> f[n][x]]
             /\ \A x \in Company : f[n][x] = IF n = 0 \/ m[x] = none THEN x ELSE f[n - 1][m[x]]
  <2>1. f[n] = [x \in Company |-> IF n = 0 \/ m[x] = none THEN x ELSE f[n - 1][m[x]]]
    BY DEF Hops
  <2> QED BY <2>1
<1>2. \A n \in 0 .. N : f[n] = [x \in Company |-> f[n][x]]
  BY <1>a
<1>3. \A n \in 0 .. N, x \in Company :
        f[n][x] = IF n = 0 \/ m[x] = none THEN x ELSE f[n - 1][m[x]]
  BY <1>a
<1>4. \A x \in Company : m[x] # none => m[x] \in Company
  BY DEF Tree
<1>5. \A n \in 0 .. N : \A x \in Company : f[n][x] \in Company
  <2> DEFINE G == {n \in 0 .. N : \A x \in Company : f[n][x] \in Company}
  <2>1. 0 \in G
    BY <1>1, <1>3
  <2>2. ASSUME NEW n \in 0 .. N, n \in G, n # N PROVE n + 1 \in G
    <3>1. n + 1 \in 0 .. N /\ n + 1 # 0 /\ (n + 1) - 1 = n
      BY <1>1, <2>2
    <3>2. ASSUME NEW x \in Company PROVE f[n + 1][x] \in Company
      <4>1. f[n + 1][x] = IF m[x] = none THEN x ELSE f[n][m[x]]
        BY <1>3, <3>1
      <4> QED BY <1>4, <2>2, <4>1
    <3> QED BY <3>1, <3>2
  <2> HIDE DEF G
  <2>3. \A n \in 0 .. N : n \in G
    BY <1>1, <2>1, <2>2, UpTo
  <2> QED BY <2>3 DEF G
<1>6. \A n \in 0 .. N : n # N => \A x \in Company : m[f[n][x]] = none => f[n + 1][x] = f[n][x]
  <2> DEFINE G == {n \in 0 .. N : n # N => \A x \in Company : m[f[n][x]] = none => f[n + 1][x] = f[n][x]}
  <2>1. 0 \in G
    <3>1. ASSUME N # 0, NEW x \in Company, m[f[0][x]] = none PROVE f[0 + 1][x] = f[0][x]
      <4>1. f[0][x] = x
        BY <1>1, <1>3
      <4>2. 1 \in 0 .. N
        BY <1>1, <3>1
      <4> QED BY <1>3, <3>1, <4>1, <4>2
    <3> QED BY <1>1, <3>1
  <2>2. ASSUME NEW n \in 0 .. N, n \in G, n # N PROVE n + 1 \in G
    <3>1. n + 1 \in 0 .. N /\ n + 1 # 0 /\ (n + 1) - 1 = n
      BY <1>1, <2>2
    <3>2. ASSUME n + 1 # N, NEW x \in Company, m[f[n + 1][x]] = none
          PROVE  f[(n + 1) + 1][x] = f[n + 1][x]
      <4>1. (n + 1) + 1 \in 0 .. N /\ (n + 1) + 1 # 0 /\ ((n + 1) + 1) - 1 = n + 1
        BY <1>1, <3>1, <3>2
      <4>2. CASE m[x] = none
        BY <1>3, <3>1, <4>1, <4>2
      <4>3. CASE m[x] # none
        <5>1. f[n + 1][x] = f[n][m[x]] /\ f[(n + 1) + 1][x] = f[n + 1][m[x]]
          BY <1>3, <3>1, <4>1, <4>3
        <5>2. m[x] \in Company /\ m[f[n][m[x]]] = none
          BY <1>4, <3>2, <4>3, <5>1
        <5> QED BY <2>2, <5>1, <5>2
      <4> QED BY <4>2, <4>3
    <3> QED BY <3>1, <3>2
  <2> HIDE DEF G
  <2>3. \A n \in 0 .. N : n \in G
    BY <1>1, <2>1, <2>2, UpTo
  <2> QED BY <2>3 DEF G
<1> DEFINE Settled(n) == {x \in Company : m[f[n][x]] = none}
<1>7. \A n \in 0 .. N : Settled(n) = Company \/ n + 1 <= Cardinality(Settled(n))
  <2> DEFINE G == {n \in 0 .. N : Settled(n) = Company \/ n + 1 <= Cardinality(Settled(n))}
  <2>1. \A n \in 0 .. N : IsFiniteSet(Settled(n)) /\ Cardinality(Settled(n)) \in Nat
    <3> TAKE n \in 0 .. N
    <3>1. Settled(n) \subseteq Company
      OBVIOUS
    <3> HIDE DEF Settled
    <3>2. IsFiniteSet(Settled(n))
      BY <3>1, FS_Subset
    <3> QED BY <3>2, FS_CardinalityType
  \* A set of companies that is not settled loses one in the next hop.
  <2>2. ASSUME NEW n \in 0 .. N, n # N, Settled(n) # Company
        PROVE  Cardinality(Settled(n)) + 1 <= Cardinality(Settled(n + 1))
    <3>1. n + 1 \in 0 .. N /\ n + 1 # 0 /\ (n + 1) - 1 = n
      BY <1>1, <2>2
    <3>2. PICK x \in Company \ Settled(n) : m[x] \notin Company \ Settled(n)
      BY <2>2 DEF Acyclic
    <3>3. m[x] # none
      <4>1. CASE m[x] = none
        <5>1. f[n][x] = x
          BY <1>3, <4>1
        <5> QED BY <3>2, <4>1, <5>1
      <4> QED BY <4>1
    <3>4. m[x] \in Settled(n)
      BY <1>4, <3>2, <3>3
    <3>5. f[n + 1][x] = f[n][m[x]]
      BY <1>3, <3>1, <3>3
    <3>6. x \in Settled(n + 1)
      BY <3>4, <3>5
    <3>7. Settled(n) \subseteq Settled(n + 1)
      BY <1>6, <2>2
    <3>8. x \notin Settled(n)
      BY <3>2
    <3> HIDE DEF Settled
    <3>9. IsFiniteSet(Settled(n)) /\ IsFiniteSet(Settled(n + 1))
            /\ Cardinality(Settled(n)) \in Nat /\ Cardinality(Settled(n + 1)) \in Nat
      BY <2>1, <3>1
    <3>10. Cardinality(Settled(n) \cup {x}) = Cardinality(Settled(n)) + 1
      BY <3>8, <3>9, FS_AddElement
    <3>11. Settled(n) \cup {x} \subseteq Settled(n + 1)
      BY <3>6, <3>7
    <3>12. Cardinality(Settled(n) \cup {x}) <= Cardinality(Settled(n + 1))
      BY <3>9, <3>11, FS_Subset
    <3> QED BY <3>9, <3>10, <3>12
  <2>3. 0 \in G
    <3>1. CASE Company = {}
      BY <1>1, <3>1
    <3>2. CASE Company # {}
      <4>1. PICK x \in Company : m[x] \notin Company
        BY <3>2 DEF Acyclic
      <4>2. m[x] = none /\ f[0][x] = x
        BY <1>1, <1>3, <1>4, <4>1
      <4>3. x \in Settled(0)
        BY <4>2
      <4> HIDE DEF Settled
      <4>4. IsFiniteSet(Settled(0)) /\ Cardinality(Settled(0)) \in Nat
        BY <1>1, <2>1
      <4>5. Cardinality(Settled(0)) # 0
        BY <4>3, <4>4, FS_EmptySet
      <4>6. 0 + 1 <= Cardinality(Settled(0))
        BY <4>4, <4>5
      <4> QED BY <1>1, <4>6
    <3> QED BY <3>1, <3>2
  <2>4. ASSUME NEW n \in 0 .. N, n \in G, n # N PROVE n + 1 \in G
    <3>1. n + 1 \in 0 .. N
      BY <1>1, <2>4
    <3>2. CASE Settled(n) = Company
      <4>1. Settled(n) \subseteq Settled(n + 1)
        BY <1>6, <2>4
      <4>2. Settled(n + 1) \subseteq Company
        OBVIOUS
      <4> HIDE DEF Settled
      <4>3. Settled(n + 1) = Company
        BY <3>2, <4>1, <4>2
      <4> QED BY <3>1, <4>3
    <3>3. CASE Settled(n) # Company
      <4>1. Cardinality(Settled(n)) + 1 <= Cardinality(Settled(n + 1))
        BY <2>2, <2>4, <3>3
      <4> HIDE DEF Settled
      <4>2. Cardinality(Settled(n)) \in Nat /\ Cardinality(Settled(n + 1)) \in Nat
        BY <2>1, <3>1
      <4>3. n + 1 <= Cardinality(Settled(n))
        BY <2>4, <3>3
      <4>4. (n + 1) + 1 <= Cardinality(Settled(n + 1))
        BY <4>1, <4>2, <4>3
      <4> QED BY <3>1, <4>4
    <3> QED BY <3>2, <3>3
  <2> HIDE DEF G, Settled
  <2>5. \A n \in 0 .. N : n \in G
    BY <1>1, <2>3, <2>4, UpTo
  <2> QED BY <2>5 DEF G
<1>8. \A n \in 0 .. N : n + 1 = N => Settled(n) = Company
  <2> TAKE n \in 0 .. N
  <2> HAVE n + 1 = N
  <2>1. CASE n + 1 <= Cardinality(Settled(n))
    <3>1. Settled(n) \subseteq Company
      OBVIOUS
    <3> HIDE DEF Settled
    <3>2. Cardinality(Settled(n)) <= N /\ IsFiniteSet(Settled(n))
      BY <3>1, FS_Subset
    <3>3. Cardinality(Settled(n)) \in Nat
      BY <3>2, FS_CardinalityType
    <3>4. Cardinality(Settled(n)) = N
      BY <1>1, <2>1, <3>2, <3>3
    <3> QED BY <3>1, <3>4, FS_Subset
  <2> HIDE DEF Settled
  <2> QED BY <1>7, <2>1
<1>9. ASSUME NEW x \in Company PROVE m[f[N][x]] = none /\ N # 0
  <2>1. N # 0
    BY <1>9, FS_EmptySet
  <2>2. N - 1 \in 0 .. N /\ (N - 1) + 1 = N /\ N - 1 # N
    BY <1>1, <2>1
  <2>3. Settled(N - 1) = Company
    BY <1>8, <2>2
  <2>4. m[f[N - 1][x]] = none
    BY <2>3
  <2>5. f[N][x] = f[N - 1][x]
    BY <1>6, <2>2, <2>4
  <2> QED BY <2>1, <2>4, <2>5
<1>10. ASSUME NEW x \in Company, m[x] # none PROVE f[N][x] = f[N][m[x]]
  <2>1. N \in 0 .. N /\ N - 1 \in 0 .. N /\ (N - 1) + 1 = N /\ N - 1 # N /\ N # 0
    BY <1>1, <1>9
  <2>2. m[x] \in Company
    BY <1>4, <1>10
  <2>3. f[N][x] = f[N - 1][m[x]]
    BY <1>3, <1>10, <2>1
  <2>4. Settled(N - 1) = Company
    BY <1>8, <2>1
  <2>5. m[f[N - 1][m[x]]] = none
    BY <2>2, <2>4
  <2>6. f[N][m[x]] = f[N - 1][m[x]]
    BY <1>6, <2>1, <2>2, <2>5
  <2> QED BY <2>3, <2>6
<1>11. N \in 0 .. N
  BY <1>1
<1>12. \A x \in Company : m[x] = none => f[N][x] = x
  BY <1>3, <1>11
<1>13. f[N] \in [Company -> Company]
  BY <1>2, <1>5, <1>11
<1>14. IsRoot(f[N], m)
  BY <1>10, <1>12, <1>13 DEF IsRoot
<1> QED BY <1>5, <1>9, <1>11, <1>14

LEMMA OneRoot ==
    ASSUME NEW m, Tree(m), Acyclic(m), NEW r, IsRoot(r, m), NEW q, IsRoot(q, m)
    PROVE  r = q
<1> DEFINE S == {x \in Company : r[x] # q[x]}
<1>1. SUFFICES ASSUME S # {} PROVE FALSE
  BY DEF IsRoot
<1>2. PICK x \in S : m[x] \notin S
  BY <1>1 DEF Acyclic
<1>3. m[x] # none
  BY <1>2 DEF IsRoot
<1>4. r[x] = r[m[x]] /\ q[x] = q[m[x]]
  BY <1>2, <1>3 DEF IsRoot
<1>5. m[x] \in Company /\ m[x] \notin S
  BY <1>2, <1>3 DEF Tree
<1> QED BY <1>2, <1>4, <1>5

LEMMA RootExists ==
    ASSUME none \notin Company, IsFiniteSet(Company), NEW m, Tree(m), Acyclic(m)
    PROVE  /\ IsRoot(RootOf(m), m)
           /\ \A x \in Company : RootOf(m)[x] \in Company /\ m[RootOf(m)[x]] = none
<1>1. PICK N : N = Cardinality(Company)
  OBVIOUS
<1>2. N \in Nat
  BY <1>1, FS_CardinalityType
<1>3. PICK f : Hops(f, m, N)
  BY <1>2, HopsExist
<1>4. PICK r : r = f[N]
  OBVIOUS
<1>5. IsRoot(r, m) /\ \A x \in Company : r[x] \in Company /\ m[r[x]] = none
  BY <1>1, <1>3, <1>4, HopsSettle
<1>6. IsRoot(RootOf(m), m)
  BY <1>5 DEF RootOf
<1>7. RootOf(m) = r
  BY <1>5, <1>6, OneRoot
<1> QED BY <1>5, <1>6, <1>7

\* Folding l into s sends what ended on l to s.
LEMMA FoldedRoot ==
    ASSUME none \notin Company, IsFiniteSet(Company), NEW m, Tree(m), Acyclic(m),
           NEW s \in Company, NEW l \in Company, s # l, m[s] = none, m[l] = none
    PROVE  \A x \in Company : RootOf([m EXCEPT ![l] = s])[x] = IF RootOf(m)[x] = l THEN s ELSE RootOf(m)[x]
<1>1. PICK w : w = [m EXCEPT ![l] = s]
  OBVIOUS
<1>2. Tree(w) /\ Acyclic(w)
  BY <1>1, FoldedIsAcyclic
<1>3. \A x \in Company : w[x] = IF x = l THEN s ELSE m[x]
  BY <1>1 DEF Tree
<1>4. IsRoot(RootOf(w), w)
  BY <1>2, RootExists
<1>5. PICK r : r = RootOf(m)
  OBVIOUS
<1>6. IsRoot(r, m)
  BY <1>5, RootExists
<1> DEFINE q == [x \in Company |-> IF r[x] = l THEN s ELSE r[x]]
<1>7. IsRoot(q, w)
  <2>1. q \in [Company -> Company]
    BY <1>6 DEF IsRoot
  <2>2. ASSUME NEW x \in Company PROVE q[x] = IF w[x] = none THEN x ELSE q[w[x]]
    <3>1. CASE x = l
      <4>1. r[l] = l /\ r[s] = s
        BY <1>6 DEF IsRoot
      <4>2. w[x] = s /\ q[x] = s /\ q[s] = s
        BY <1>3, <3>1, <4>1
      <4> QED BY <4>2
    <3>2. CASE x # l /\ m[x] = none
      <4>1. r[x] = x /\ w[x] = none
        BY <1>3, <1>6, <3>2 DEF IsRoot
      <4> QED BY <3>2, <4>1
    <3>3. CASE x # l /\ m[x] # none
      <4>1. r[x] = r[m[x]] /\ w[x] = m[x] /\ m[x] \in Company
        BY <1>3, <1>6, <3>3 DEF IsRoot, Tree
      <4> QED BY <3>3, <4>1
    <3> QED BY <3>1, <3>2, <3>3
  <2> QED BY <2>1, <2>2 DEF IsRoot
<1>8. RootOf(w) = q
  BY <1>2, <1>4, <1>7, OneRoot
<1> QED BY <1>1, <1>5, <1>8

\* A company taken out: what ends on it, and the rest is as before.
LEMMA UnfoldedRoot ==
    ASSUME none \notin Company, IsFiniteSet(Company), NEW m, Tree(m), Acyclic(m),
           NEW s \in Company, NEW l \in Company, s # l, m[s] = none, m[l] = s
    PROVE  \A x \in Company : RootOf(m)[x] =
             IF RootOf([m EXCEPT ![l] = none])[x] = l THEN s ELSE RootOf([m EXCEPT ![l] = none])[x]
<1>1. PICK w : w = [m EXCEPT ![l] = none]
  OBVIOUS
<1>2. Tree(w) /\ Acyclic(w)
  BY <1>1, UnfoldedIsAcyclic
<1>3. w[s] = none /\ w[l] = none
  BY <1>1 DEF Tree
<1>4. \A x \in Company : RootOf([w EXCEPT ![l] = s])[x] = IF RootOf(w)[x] = l THEN s ELSE RootOf(w)[x]
  <2>1. none \notin Company /\ IsFiniteSet(Company) /\ s # l
    OBVIOUS
  <2> QED BY ONLY <1>2, <1>3, <2>1, FoldedRoot
<1>5. m = [w EXCEPT ![l] = s]
  BY <1>1 DEF Tree
<1> QED BY <1>1, <1>4, <1>5

----------------------------------------------------------------------------
(* Rows people can see, beside merges and their reversals. *)

Into == [c \in Company |-> company[c].mergedInto]
Survivors == RootOf(Into)

TreeInv ==
    /\ TypeOK /\ Acyclic(Into)
    /\ \A c \in Company :
          /\ company[c].mergedInto # none => company[c].exists
          /\ company[c].exists => company[Survivors[c]].exists

\* A binding that is resolved names a company.
BindingsName ==
    \A r \in Record : binding[r].status = "RESOLVED" =>
        binding[r].company # none /\ company[binding[r].company].exists

\* What an index says of a record is what the tables say.
IndexKnows(ix, r) ==
    /\ ix.byKey[r] = IF company[r].exists THEN Survivors[r] ELSE none
    /\ ix.bindings[r].status = binding[r].status
    /\ ix.bindings[r].company = IF binding[r].company = none THEN none ELSE Survivors[binding[r].company]

RunKnows ==
    /\ run.pc # "idle" => \A r \in run.todo : IndexKnows(index, r)
    /\ run.pc = "writing" =>
         run.record \in Record \ run.todo /\ run.company \in Company /\ Live(run.company)

VisibleInv == TreeInv /\ BindingsName /\ DealsAreVisible /\ RunKnows

LEMMA CompaniesAreFew ==
    ASSUME IngestAssumption
    PROVE  /\ none \notin Company /\ IsFiniteSet(Company)
           /\ \E N \in Nat : N = Cardinality(Company)
<1>1. IsFiniteSet(Company)
  BY FS_Union DEF IngestAssumption, Company
<1>2. none \notin Company
  BY DEF IngestAssumption, Company
<1> QED BY <1>1, <1>2, FS_CardinalityType

\* survivorOf leads every company to the live one its chain ends on.
LEMMA Survives ==
    ASSUME IngestAssumption, Tree(Into), Acyclic(Into)
    PROVE  /\ IsRoot(Survivors, Into)
           /\ \A c \in Company : /\ survivorOf(c) = Survivors[c] /\ Survivors[c] \in Company
                                 /\ company[Survivors[c]].mergedInto = none
<1>1. none \notin Company /\ IsFiniteSet(Company)
  BY CompaniesAreFew
<1>2. PICK N \in Nat : N = Cardinality(Company)
  BY CompaniesAreFew
<1>3. PICK m : m = Into
  OBVIOUS
<1>4. \A c \in Company : m[c] = company[c].mergedInto
  BY <1>3 DEF Into
<1>5. \E f : Hops(f, m, N)
  BY <1>2, HopsExist
<1>6. Hop = CHOOSE f : Hops(f, m, N)
  <2>1. Hop = CHOOSE f : f = [n \in 0 .. N |-> [c \in Company |->
                                IF n = 0 \/ company[c].mergedInto = none THEN c
                                ELSE f[n - 1][company[c].mergedInto]]]
    BY <1>2 DEF Hop
  <2>2. \A f : [n \in 0 .. N |-> [c \in Company |->
                   IF n = 0 \/ company[c].mergedInto = none THEN c ELSE f[n - 1][company[c].mergedInto]]]
               = [n \in 0 .. N |-> [c \in Company |-> IF n = 0 \/ m[c] = none THEN c ELSE f[n - 1][m[c]]]]
    BY <1>4
  <2> QED BY <2>1, <2>2 DEF Hops
<1>7. Hops(Hop, m, N)
  BY <1>5, <1>6
<1>8. PICK r : r = Hop[N]
  OBVIOUS
<1>9. IsRoot(r, m)
  <2>1. Tree(m) /\ Acyclic(m)
    BY <1>3
  <2> QED BY <1>1, <1>2, <1>7, <1>8, <2>1, HopsSettle
<1>10. /\ IsRoot(Survivors, m)
       /\ \A c \in Company : Survivors[c] \in Company /\ m[Survivors[c]] = none
  BY <1>1, <1>3, RootExists DEF Survivors
<1>11. r = Survivors
  <2>1. Tree(m) /\ Acyclic(m)
    BY <1>3
  <2>2. PICK q : q = Survivors
    OBVIOUS
  <2>3. IsRoot(q, m)
    BY <1>10, <2>2
  <2> QED BY <1>9, <2>1, <2>2, <2>3, OneRoot
<1>12. \A c \in Company : survivorOf(c) = Survivors[c]
  BY <1>2, <1>8, <1>11 DEF survivorOf
<1> QED BY <1>3, <1>4, <1>10, <1>12

LEMMA TreeOfCompanies ==
    ASSUME IngestAssumption, TypeOK
    PROVE  Tree(Into)
BY DEF TypeOK, Into, Tree

LEMMA SurvivorsLive ==
    ASSUME IngestAssumption, TreeInv, NEW c \in Company
    PROVE  /\ Survivors[c] \in Company /\ company[Survivors[c]].mergedInto = none
           /\ company[c].exists => Live(Survivors[c])
           /\ company[c].mergedInto = none => Survivors[c] = c
<1>1. Tree(Into) /\ Acyclic(Into)
  BY TreeOfCompanies DEF TreeInv
<1>2. IsRoot(Survivors, Into)
  BY <1>1, Survives
<1>3. Survivors[c] \in Company /\ company[Survivors[c]].mergedInto = none
  BY <1>1, Survives
<1>4. company[c].mergedInto = none => Survivors[c] = c
  BY <1>2 DEF IsRoot, Into
<1> QED BY <1>3, <1>4 DEF TreeInv, Live

LEMMA ResolvedSurvives ==
    ASSUME IngestAssumption, TreeInv, NEW c \in Company \cup {none}
    PROVE  /\ resolved(c) = IF c = none THEN none ELSE Survivors[c]
           /\ resolved(c) \in Company \cup {none}
           /\ c \in Company => resolved(c) \in Company
<1>1. Tree(Into) /\ Acyclic(Into) /\ none \notin Company
  BY TreeOfCompanies, CompaniesAreFew DEF TreeInv
<1>2. \A x \in Company : survivorOf(x) = Survivors[x] /\ Survivors[x] \in Company
  BY <1>1, Survives
<1> QED BY <1>1, <1>2 DEF resolved

LEMMA LoadedKnows ==
    ASSUME IngestAssumption, TreeInv
    PROVE  Loaded \in Index /\ \A r \in Record : IndexKnows(Loaded, r)
<1>1. \A c \in Company \cup {none} :
        /\ resolved(c) = IF c = none THEN none ELSE Survivors[c]
        /\ resolved(c) \in Company \cup {none}
        /\ c \in Company => resolved(c) \in Company
  BY ResolvedSurvives
<1>2. /\ ident \in [Key -> Company \cup {none}] /\ binding \in [Record -> Binding]
      /\ Record \subseteq Company /\ Number \subseteq Key
  BY DEF TreeInv, TypeOK, Company, Key, IngestAssumption
<1> DEFINE keyed == [r \in Record |-> IF company[r].exists THEN resolved(r) ELSE none]
           byId == [k \in Key |-> resolved(ident[k])]
           held == [d \in Domain |-> {resolved(c) : c \in {x \in Company : HasDomain(x, d)}}]
           bound == [r \in Record |-> [binding[r] EXCEPT !.company = resolved(@)]]
           numbers == {<<resolved(ident[n]), n>> : n \in {m \in Number : ident[m] # none}}
<1>3. Loaded = [byKey |-> keyed, byIdentifier |-> byId, holders |-> held, bindings |-> bound,
                numbers |-> numbers]
  BY DEF Loaded
<1>4. keyed \in [Record -> Company \cup {none}]
  BY <1>1, <1>2
<1>5. byId \in [Key -> Company \cup {none}]
  BY <1>1, <1>2
<1>6. held \in [Domain -> SUBSET Company]
  BY <1>1
<1>7. ASSUME NEW r \in Record
      PROVE  /\ bound[r] \in Binding /\ bound[r].status = binding[r].status
             /\ bound[r].company = IF binding[r].company = none THEN none ELSE Survivors[binding[r].company]
  <2>1. PICK b \in Binding : b = binding[r]
    BY <1>2
  <2>2. bound[r] = [b EXCEPT !.company = resolved(b.company)]
    BY <2>1
  <2>3. b.company \in Company \cup {none}
    BY DEF Binding
  <2>4. PICK c : c = resolved(b.company)
    OBVIOUS
  <2>5. c \in Company \cup {none} /\ c = IF b.company = none THEN none ELSE Survivors[b.company]
    BY <1>1, <2>3, <2>4
  <2> HIDE DEF bound
  <2>6. bound[r] \in Binding /\ bound[r].status = b.status /\ bound[r].company = c
    BY <2>2, <2>4, <2>5 DEF Binding
  <2> QED BY <2>1, <2>5, <2>6
<1>8. bound \in [Record -> Binding]
  <2>1. bound = [r \in Record |-> bound[r]]
    OBVIOUS
  <2> HIDE DEF bound
  <2> QED BY <1>7, <2>1
<1>9. numbers \in SUBSET (Company \X Number)
  <2>1. \A n \in Number : ident[n] # none => resolved(ident[n]) \in Company
    BY <1>1, <1>2
  <2> QED BY <2>1
<1>10. \A r \in Record : keyed[r] = IF company[r].exists THEN Survivors[r] ELSE none
  <2>1. \A r \in Record : resolved(r) = Survivors[r]
    BY <1>1, <1>2, CompaniesAreFew
  <2> QED BY <2>1
<1> HIDE DEF keyed, byId, held, bound, numbers
<1>11. Loaded \in Index
  BY <1>3, <1>4, <1>5, <1>6, <1>8, <1>9 DEF Index
<1>12. Loaded.byKey = keyed /\ Loaded.bindings = bound
  BY <1>3
<1> QED BY <1>7, <1>10, <1>11, <1>12 DEF IndexKnows

\* What the matcher decides of a record on an index that knows it.
LEMMA Chosen ==
    ASSUME IngestAssumption, TreeInv, BindingsName, NEW r \in Record,
           NEW ix \in Index, IndexKnows(ix, r),
           NEW m, m = decideCompanyMatch(ix, r)
    PROVE  /\ m.kind \in {"existing", "create", "hold", "conflict"}
           /\ m.kind = "existing" => m.company \in Company /\ Live(m.company)
           /\ m.kind = "create" => m.company = none
           /\ m.kind \in {"existing", "create"} => binding[r].status # "REVIEW_REQUIRED"
           /\ m.kind = "create" => ~ company[r].exists
           /\ m.kind = "existing" =>
                \/ m.method = "own" /\ company[r].exists /\ m.company = Survivors[r]
                \/ /\ m.method = "binding" /\ ~ company[r].exists /\ binding[r].status = "RESOLVED"
                   /\ m.company = Survivors[binding[r].company]
                \/ m.method \in {"identifier", "domain"} /\ ~ company[r].exists
           /\ binding[r].status # "REVIEW_REQUIRED"
                /\ (company[r].exists \/ binding[r].status = "RESOLVED") =>
                m.kind = "existing" /\ m.method \in {"own", "binding"}
<1> DEFINE bound == ix.bindings[r]
           legal == {ix.byIdentifier[k] : k \in stated[r].legal} \ {none}
           alias == {ix.byIdentifier[k] : k \in {r} \cap Partner} \ {none}
           holders == {c \in UNION {ix.holders[d] : d \in {stated[r].domain} \ {none}} : Live(c)}
<1>1. /\ r \in Company /\ r # none
      /\ ix.byIdentifier \in [Key -> Company \cup {none}]
      /\ ix.holders \in [Domain -> SUBSET Company]
      /\ stated[r].legal \subseteq Key /\ stated[r].domain \in Domain \cup {none}
  BY DEF Index, TreeInv, TypeOK, Key, IngestAssumption, Company
<1>2. legal \subseteq Company
  BY <1>1
<1>3. holders \subseteq Company /\ \A c \in holders : Live(c)
  BY <1>1
<1>4. /\ bound.status = binding[r].status
      /\ ix.byKey[r] = IF company[r].exists THEN Survivors[r] ELSE none
      /\ bound.status = "RESOLVED" =>
           /\ bound.company = Survivors[binding[r].company] /\ bound.company \in Company /\ Live(bound.company)
  <2>1. binding[r].company \in Company \cup {none}
    BY DEF TreeInv, TypeOK, Binding
  <2>2. ASSUME bound.status = "RESOLVED"
        PROVE  bound.company = Survivors[binding[r].company] /\ bound.company \in Company /\ Live(bound.company)
    <3>1. PICK c \in Company : c = binding[r].company
      BY <2>1, <2>2 DEF BindingsName, IndexKnows
    <3>2. company[c].exists /\ bound.company = Survivors[c]
      BY <1>1, <2>2, <3>1, CompaniesAreFew DEF BindingsName, IndexKnows
    <3> QED BY <3>1, <3>2, SurvivorsLive
  <2> QED BY <2>2 DEF IndexKnows
<1>5. company[r].exists => /\ ix.byKey[r] = Survivors[r] /\ Survivors[r] \in Company /\ Survivors[r] # none
                           /\ Live(Survivors[r])
  BY <1>1, <1>4, SurvivorsLive, CompaniesAreFew
<1>6. m = IF bound.status = "REVIEW_REQUIRED" THEN Hold
          ELSE IF ix.byKey[r] # none THEN Existing(ix.byKey[r], "own")
          ELSE IF bound.status = "RESOLVED"
               THEN IF Live(bound.company) THEN Existing(bound.company, "binding") ELSE Hold
          ELSE IF Cardinality(legal) > 1 THEN Conflict
          ELSE IF alias # {} THEN IF legal \subseteq alias THEN Hold ELSE Conflict
          ELSE IF legal # {} THEN ByIdentifier(ix, r, CHOOSE c \in legal : TRUE)
          ELSE IF Cardinality(holders) = 1 THEN ByDomain(ix, r, CHOOSE c \in holders : TRUE)
          ELSE Create
  BY Zenon DEF decideCompanyMatch
<1> HIDE DEF alias, legal, holders, bound
<1>7. /\ Hold.kind = "hold" /\ Conflict.kind = "conflict"
      /\ Create.kind = "create" /\ Create.company = none
      /\ \A c, how : /\ Existing(c, how).kind = "existing" /\ Existing(c, how).company = c
                     /\ Existing(c, how).method = how
  BY DEF Hold, Conflict, Create, Existing
<1>8. CASE bound.status = "REVIEW_REQUIRED"
  BY <1>4, <1>6, <1>7, <1>8
<1>9. CASE bound.status # "REVIEW_REQUIRED" /\ company[r].exists
  <2>1. m = Existing(ix.byKey[r], "own")
    BY <1>5, <1>6, <1>9
  <2>2. m.kind = "existing" /\ m.company = Survivors[r] /\ m.method = "own"
    BY <1>5, <1>7, <1>9, <2>1
  <2> QED BY <1>4, <1>5, <1>9, <2>2
<1>10. CASE bound.status = "RESOLVED" /\ ~ company[r].exists
  <2>1. m = Existing(bound.company, "binding")
    BY <1>4, <1>6, <1>10
  <2>2. m.kind = "existing" /\ m.company = bound.company /\ m.method = "binding"
    BY <1>7, <2>1
  <2> QED BY <1>4, <1>10, <2>2
<1>11. CASE bound.status \notin {"REVIEW_REQUIRED", "RESOLVED"} /\ ~ company[r].exists
  <2>1. m = IF Cardinality(legal) > 1 THEN Conflict
            ELSE IF alias # {} THEN IF legal \subseteq alias THEN Hold ELSE Conflict
            ELSE IF legal # {} THEN ByIdentifier(ix, r, CHOOSE c \in legal : TRUE)
            ELSE IF Cardinality(holders) = 1 THEN ByDomain(ix, r, CHOOSE c \in holders : TRUE)
            ELSE Create
    BY <1>4, <1>6, <1>11
  <2>2. CASE m \in {Conflict, Hold, Create}
    BY <1>4, <1>7, <1>11, <2>2
  <2>3. CASE legal # {} /\ m = ByIdentifier(ix, r, CHOOSE c \in legal : TRUE)
    <3>1. PICK c \in legal : c = CHOOSE x \in legal : TRUE
      BY <2>3
    <3>2. m = IF ~ Live(c) THEN Create
              ELSE IF NumberDiffers(ix, r, c) THEN Conflict ELSE Existing(c, "identifier")
      BY <2>3, <3>1 DEF ByIdentifier
    <3>3. (m = Existing(c, "identifier") /\ Live(c)) \/ m \in {Conflict, Create}
      BY <3>2
    <3>4. CASE m = Existing(c, "identifier") /\ Live(c)
      <4>1. m.kind = "existing" /\ m.company = c /\ m.method = "identifier"
        BY <1>7, <3>4
      <4> QED BY <1>2, <1>4, <1>11, <3>4, <4>1
    <3> QED BY <2>2, <3>3, <3>4
  <2>4. CASE Cardinality(holders) = 1 /\ m = ByDomain(ix, r, CHOOSE c \in holders : TRUE)
    <3>1. PICK c \in holders : c = CHOOSE x \in holders : TRUE
      BY <2>4, FS_EmptySet
    <3>2. m = IF holdsOtherRecord(c, r) \/ NumberDiffers(ix, r, c) THEN Create
              ELSE IF UnresolvedAliases(ix, c) # {} THEN Hold ELSE Existing(c, "domain")
      BY <2>4, <3>1 DEF ByDomain
    <3>3. m = Existing(c, "domain") \/ m \in {Hold, Create}
      BY <3>2
    <3>4. CASE m = Existing(c, "domain")
      <4>1. m.kind = "existing" /\ m.company = c /\ m.method = "domain"
        BY <1>7, <3>4
      <4> QED BY <1>3, <1>4, <1>11, <4>1
    <3> QED BY <2>2, <3>3, <3>4
  <2> QED BY <2>1, <2>2, <2>3, <2>4
<1> QED BY <1>8, <1>9, <1>10, <1>11

Runs == [pc : {"idle", "next", "writing"}, todo : SUBSET Record,
         record : Record \cup {none}, company : Company \cup {none}, method : Method]

LEMMA InitVisible == IngestAssumption /\ Init => VisibleInv
<1> SUFFICES ASSUME IngestAssumption, Init PROVE VisibleInv
  OBVIOUS
<1>1. /\ stated \in [Record -> [legal : SUBSET LegalId, domain : Domain \cup {none}]]
      /\ reported = [r \in Record |-> 1] /\ ident = [k \in Key |-> none]
      /\ binding = [r \in Record |-> Unbound] /\ dealAt = [x \in Deal |-> none]
      /\ moved = [c \in Company |-> Nothing] /\ index = NoIndex /\ run = NoRun
  BY DEF Init
<1>2. PICK there \in SUBSET Contributed, d \in Domain \cup {none} :
        company = [c \in Company |-> [exists |-> c \in there, mergedInto |-> none,
                                      domain |-> IF c \in there THEN d ELSE none]]
  BY DEF Init
<1>3. ASSUME NEW c \in Company
      PROVE  /\ company[c] \in [exists : BOOLEAN, domain : Domain \cup {none}, mergedInto : Company \cup {none}]
             /\ company[c].mergedInto = none
  <2>1. PICK of \in Domain \cup {none} : of = IF c \in there THEN d ELSE none
    OBVIOUS
  <2>2. company[c] = [exists |-> c \in there, mergedInto |-> none, domain |-> of]
    BY <1>2, <2>1
  <2>3. PICK is \in BOOLEAN : is = (c \in there)
    <3>1. CASE c \in there
      <4>1. TRUE = (c \in there)
        BY <3>1
      <4> QED BY <4>1
    <3>2. CASE c \notin there
      <4>1. FALSE = (c \in there)
        BY <3>2
      <4> QED BY <4>1
    <3> QED BY <3>1, <3>2
  <2>4. company[c] = [exists |-> is, mergedInto |-> none, domain |-> of]
    BY <2>2, <2>3, Zenon
  <2> QED BY <2>4
<1>4. company \in [Company -> [exists : BOOLEAN, domain : Domain \cup {none}, mergedInto : Company \cup {none}]]
  <2>1. company = [c \in Company |-> company[c]]
    BY <1>2
  <2> QED BY <1>3, <2>1
<1>5. index \in Index
  BY <1>1 DEF NoIndex, Index, Unbound, Binding
<1>6. run \in Runs
  BY <1>1 DEF NoRun, Runs, Method
<1>7. reported \in [Record -> 1 .. DealCount] /\ binding \in [Record -> Binding]
        /\ moved \in [Company -> [deals : SUBSET Deal, keys : SUBSET Key]]
  BY <1>1 DEF IngestAssumption, Unbound, Binding, Nothing
<1>8. TypeOK
  BY <1>1, <1>4, <1>5, <1>6, <1>7 DEF TypeOK, Runs
<1>9. Acyclic(Into) /\ Tree(Into)
  BY <1>3, <1>8, CompaniesAreFew, TreeOfCompanies DEF Acyclic, Into
<1>10. TreeInv
  <2>1. IsRoot(Survivors, Into)
    BY <1>9, Survives
  <2>2. \A c \in Company : Survivors[c] = c
    BY <1>3, <2>1 DEF IsRoot, Into
  <2> QED BY <1>3, <1>8, <1>9, <2>2 DEF TreeInv
<1>11. BindingsName /\ DealsAreVisible /\ RunKnows
  BY <1>1 DEF BindingsName, DealsAreVisible, RunKnows, Unbound, NoRun
<1> QED BY <1>10, <1>11 DEF VisibleInv

\* A step of a run that merges nothing: the records to come are as known as
\* they were.
LEMMA RowsKept ==
    ASSUME IngestAssumption, VisibleInv,
           UNCHANGED stated, UNCHANGED moved, reported' \in [Record -> 1 .. DealCount],
           company' \in [Company -> [exists : BOOLEAN, domain : Domain \cup {none},
                                     mergedInto : Company \cup {none}]],
           \A c \in Company : /\ company'[c].mergedInto = company[c].mergedInto
                              /\ company[c].exists => company'[c].exists,
           ident' \in [Key -> Company \cup {none}],
           \A k \in Key : ident'[k] # none => company'[ident'[k]].exists,
           binding' \in [Record -> Binding], BindingsName',
           dealAt' \in [Deal -> Company \cup {none}], DealsAreVisible',
           index' \in Index, run' \in Runs
    PROVE  TreeInv' /\ Survivors' = Survivors
<1>1. Into' = Into
  BY DEF Into
<1>2. Survivors' = Survivors
  BY <1>1 DEF Survivors
<1>3. \A x \in Deal : dealAt'[x] # none => company'[dealAt'[x]].exists
  BY DEF DealsAreVisible, Live
<1>4. TypeOK'
  BY <1>3 DEF VisibleInv, TreeInv, TypeOK, Runs
<1>5. \A c \in Company : company'[c].exists => company'[Survivors[c]].exists
  <2> SUFFICES ASSUME NEW c \in Company, company'[c].exists PROVE company'[Survivors[c]].exists
    OBVIOUS
  <2>1. Survivors[c] \in Company
    BY SurvivorsLive DEF VisibleInv
  <2>2. CASE company[c].mergedInto = none
    BY <2>2, SurvivorsLive DEF VisibleInv
  <2>3. CASE company[c].mergedInto # none
    BY <2>1, <2>3 DEF VisibleInv, TreeInv
  <2> QED BY <2>2, <2>3
<1>6. TreeInv'
  BY <1>1, <1>2, <1>4, <1>5 DEF VisibleInv, TreeInv
<1> QED BY <1>2, <1>6

\* Steps between records.
LEMMA TurnsVisible ==
    ASSUME IngestAssumption, VisibleInv,
           (\E source \in {Record, Partner, Record \ Partner} : start(source))
             \/ finish \/ \E r \in Record : report(r)
    PROVE  VisibleInv'
<1>1. /\ UNCHANGED <<stated, company, ident, binding, dealAt, moved>>
      /\ \A k \in Key : ident[k] # none => company[ident[k]].exists
  BY DEF start, finish, report, dbVars, VisibleInv, TreeInv, TypeOK
<1>2. /\ company \in [Company -> [exists : BOOLEAN, domain : Domain \cup {none}, mergedInto : Company \cup {none}]]
      /\ ident \in [Key -> Company \cup {none}] /\ binding \in [Record -> Binding]
      /\ dealAt \in [Deal -> Company \cup {none}]
      /\ index \in Index /\ run \in Runs /\ reported \in [Record -> 1 .. DealCount]
  BY DEF VisibleInv, TreeInv, TypeOK, Runs
<1>3. BindingsName' /\ DealsAreVisible'
  BY <1>1 DEF VisibleInv, BindingsName, DealsAreVisible, Live
<1>4. ASSUME index' \in Index, run' \in Runs, reported' \in [Record -> 1 .. DealCount], RunKnows' PROVE VisibleInv'
  BY <1>1, <1>2, <1>3, <1>4, RowsKept DEF VisibleInv
<1>5. ASSUME index' \in Index, run' \in Runs, reported' \in [Record -> 1 .. DealCount] PROVE Survivors' = Survivors
  BY <1>1, <1>2, <1>3, <1>5, RowsKept
<1>6. ASSUME NEW source \in {Record, Partner, Record \ Partner}, start(source) PROVE VisibleInv'
  <2>1. index' = Loaded /\ run' = [NoRun EXCEPT !.pc = "next", !.todo = source] /\ reported' = reported
    BY <1>6 DEF start
  <2>2. source \subseteq Record
    BY DEF IngestAssumption
  <2>3. run' \in Runs /\ run'.pc = "next" /\ run'.todo = source
    BY <2>1, <2>2 DEF NoRun, Runs, Method
  <2>4. Loaded \in Index /\ \A r \in Record : IndexKnows(Loaded, r)
    BY LoadedKnows DEF VisibleInv
  <2>5. Survivors' = Survivors
    BY <1>2, <1>5, <2>1, <2>3, <2>4
  <2>6. \A r \in Record : IndexKnows(index, r)'
    BY <1>1, <2>1, <2>4, <2>5 DEF IndexKnows
  <2>7. RunKnows'
    BY <2>2, <2>3, <2>6 DEF RunKnows
  <2> QED BY <1>2, <1>4, <2>1, <2>3, <2>4, <2>7
<1>7. CASE finish
  <2>1. index' = NoIndex /\ run' = NoRun /\ reported' = reported
    BY <1>7 DEF finish
  <2>2. index' \in Index /\ run' \in Runs
    BY <2>1 DEF NoIndex, Index, Unbound, Binding, NoRun, Runs, Method
  <2>3. RunKnows'
    BY <2>1 DEF RunKnows, NoRun
  <2> QED BY <1>2, <1>4, <2>1, <2>2, <2>3
<1>8. ASSUME NEW r \in Record, report(r) PROVE VisibleInv'
  <2>1. /\ run.pc = "idle" /\ index' = index /\ run' = run
        /\ reported[r] < DealCount /\ reported' = [reported EXCEPT ![r] = @ + 1]
    BY <1>8 DEF report
  <2>2. reported' \in [Record -> 1 .. DealCount]
    BY <1>2, <2>1 DEF IngestAssumption
  <2>3. RunKnows'
    BY <2>1 DEF RunKnows
  <2> QED BY <1>2, <1>4, <2>1, <2>2, <2>3
<1> QED BY <1>6, <1>7, <1>8

\* The record's company is settled: it is a live one.
LEMMA UpsertCompanyVisible ==
    ASSUME IngestAssumption, VisibleInv, NEW r \in Record, upsertCompany(r)
    PROVE  VisibleInv'
<1>1. /\ run.pc = "next" /\ r \in run.todo
      /\ UNCHANGED <<stated, reported, ident, dealAt, moved>>
  BY DEF upsertCompany
<1>2. /\ company \in [Company -> [exists : BOOLEAN, domain : Domain \cup {none}, mergedInto : Company \cup {none}]]
      /\ ident \in [Key -> Company \cup {none}] /\ binding \in [Record -> Binding]
      /\ dealAt \in [Deal -> Company \cup {none}]
      /\ index \in Index /\ run \in Runs /\ reported \in [Record -> 1 .. DealCount]
      /\ stated \in [Record -> [legal : SUBSET LegalId, domain : Domain \cup {none}]]
      /\ r \in Company /\ run.todo \subseteq Record
  BY DEF VisibleInv, TreeInv, TypeOK, Runs, Company
<1>3. \A q \in run.todo : IndexKnows(index, q)
  BY <1>1 DEF VisibleInv, RunKnows
<1>4. PICK m : m = decideCompanyMatch(index, r)
  OBVIOUS
<1>5. /\ m.kind \in {"existing", "create", "hold", "conflict"}
      /\ m.kind = "existing" => m.company \in Company /\ Live(m.company)
      /\ m.kind = "existing" => m.method \in {"own", "binding", "identifier", "domain"}
      /\ m.kind = "create" => ~ company[r].exists
  <2>1. IndexKnows(index, r)
    BY <1>1, <1>3
  <2> QED BY <1>2, <1>4, <2>1, Chosen DEF VisibleInv
<1>6. \A k \in Key : ident[k] # none => company[ident[k]].exists
  BY DEF VisibleInv, TreeInv, TypeOK
\* What every outcome shares.
<1>7. ASSUME company' \in [Company -> [exists : BOOLEAN, domain : Domain \cup {none},
                                       mergedInto : Company \cup {none}]],
             \A c \in Company : /\ company'[c].mergedInto = company[c].mergedInto
                                /\ company[c].exists => company'[c].exists
                                /\ c # r => company'[c].exists = company[c].exists,
             index' \in Index, binding' \in [Record -> Binding], run' \in Runs,
             \A q \in Record : /\ binding'[q].status = "RESOLVED" => binding'[q] = binding[q]
                               /\ q # r => /\ binding'[q] = binding[q]
                                           /\ index'.byKey[q] = index.byKey[q]
                                           /\ index'.bindings[q] = index.bindings[q],
             run'.todo = run.todo \ {r},
             run'.pc = "writing" => run'.record = r /\ run'.company \in Company /\ Live(run.company)'
      PROVE  VisibleInv'
  <2>1. BindingsName'
    <3> SUFFICES ASSUME NEW q \in Record, binding'[q].status = "RESOLVED"
                 PROVE  binding'[q].company # none /\ company'[binding'[q].company].exists
      BY DEF BindingsName
    <3>1. PICK b \in Binding : b = binding[q] /\ b = binding'[q]
      BY <1>2, <1>7
    <3>2. b.company # none /\ company[b.company].exists /\ b.company \in Company \cup {none}
      BY <3>1 DEF VisibleInv, BindingsName, Binding
    <3> QED BY <1>7, <3>1, <3>2
  <2>2. DealsAreVisible'
    BY <1>1, <1>2, <1>7 DEF VisibleInv, DealsAreVisible, Live
  <2>3. \A k \in Key : ident'[k] # none => company'[ident'[k]].exists
    BY <1>1, <1>2, <1>6, <1>7
  <2>4. TreeInv' /\ Survivors' = Survivors
    BY <1>1, <1>2, <1>7, <2>1, <2>2, <2>3, RowsKept
  <2>5. \A q \in run'.todo : IndexKnows(index, q)'
    <3> SUFFICES ASSUME NEW q \in run.todo \ {r} PROVE IndexKnows(index, q)'
      BY <1>7
    <3>1. IndexKnows(index, q) /\ q \in Record /\ q \in Company /\ q # r
      BY <1>2, <1>3 DEF Company
    <3>2. company'[q].exists = company[q].exists
      BY <1>7, <3>1
    <3> QED BY <1>7, <2>4, <3>1, <3>2 DEF IndexKnows
  <2>6. RunKnows'
    BY <1>7, <2>5 DEF RunKnows
  <2> QED BY <2>1, <2>2, <2>4, <2>6 DEF VisibleInv
<1>8. ASSUME run' = Done(r) PROVE run' \in Runs /\ run'.todo = run.todo \ {r} /\ run'.pc # "writing"
  BY <1>2, <1>8 DEF Done, NoRun, Runs, Method
<1>9. ASSUME NEW c \in Company, NEW how \in Method, run' = Writing(r, c, how)
      PROVE  run' \in Runs /\ run'.todo = run.todo \ {r} /\ run'.record = r /\ run'.company = c
  BY <1>2, <1>9 DEF Writing, Runs
<1>10. CASE m.kind = "conflict"
  <2>1. recordConflict(r)
    BY <1>4, <1>10 DEF upsertCompany
  <2> DEFINE review == [status |-> "REVIEW_REQUIRED", company |-> none]
  <2>2. /\ binding' = [binding EXCEPT ![r] = review] /\ index' = [index EXCEPT !.bindings[r] = review]
        /\ run' = Done(r) /\ company' = company
    BY <2>1 DEF recordConflict
  <2>3. review \in Binding /\ review.status # "RESOLVED"
    BY DEF Binding
  <2> HIDE DEF review
  <2>4. index.bindings \in [Record -> Binding]
    BY <1>2 DEF Index
  <2>5. index' \in Index /\ index'.byKey = index.byKey /\ index'.bindings = [index.bindings EXCEPT ![r] = review]
    BY <1>2, <2>2, <2>3, <2>4 DEF Index
  <2>6. binding' \in [Record -> Binding]
    BY <1>2, <2>2, <2>3
  <2>7. \A q \in Record : /\ binding'[q].status = "RESOLVED" => binding'[q] = binding[q]
                          /\ q # r => /\ binding'[q] = binding[q]
                                      /\ index'.byKey[q] = index.byKey[q]
                                      /\ index'.bindings[q] = index.bindings[q]
    BY <1>2, <2>2, <2>3, <2>4, <2>5
  <2> QED BY <1>2, <1>7, <1>8, <2>2, <2>5, <2>6, <2>7
<1>11. CASE m.kind # "conflict" /\ (m.kind = "hold" \/ childOwnerClash(r, m.company))
  <2>1. run' = Done(r) /\ UNCHANGED <<company, binding, index>>
    BY <1>4, <1>11 DEF upsertCompany
  <2> QED BY <1>2, <1>7, <1>8, <2>1
<1>12. CASE m.kind = "existing" /\ ~ childOwnerClash(r, m.company)
  <2>1. updateCompany(r, m)
    BY <1>4, <1>12 DEF upsertCompany
  <2>2. PICK c \in Company : c = m.company /\ Live(c)
    BY <1>5, <1>12
  <2>3. run' = Writing(r, c, m.method) /\ UNCHANGED <<binding, index>>
    BY <2>1, <2>2 DEF updateCompany
  <2>4. PICK d \in Domain \cup {none} : d = stated[r].domain
    BY <1>2
  <2>5. company' = company \/ company' = [company EXCEPT ![c].domain = d]
    BY <2>1, <2>2, <2>4 DEF updateCompany
  <2>6. company' \in [Company -> [exists : BOOLEAN, domain : Domain \cup {none}, mergedInto : Company \cup {none}]]
    <3>1. CASE company' = company
      BY <1>2, <3>1
    <3>2. CASE company' = [company EXCEPT ![c].domain = d]
      BY <1>2, <3>2
    <3> QED BY <2>5, <3>1, <3>2
  <2>7. \A x \in Company : company'[x].mergedInto = company[x].mergedInto /\ company'[x].exists = company[x].exists
    BY <1>2, <2>5
  <2>8. Live(c)'
    BY <2>2, <2>7 DEF Live
  <2>9. m.method \in Method
    BY <1>5, <1>12 DEF Method
  <2>10. run' \in Runs /\ run'.todo = run.todo \ {r} /\ run'.record = r /\ run'.company = c
    BY <1>9, <2>3, <2>9
  <2>11. Live(run.company)'
    BY <2>8, <2>10 DEF Live
  <2> QED BY <1>2, <1>7, <2>3, <2>6, <2>7, <2>10, <2>11
<1>13. CASE m.kind = "create" /\ ~ childOwnerClash(r, m.company)
  <2>1. createCompany(r)
    BY <1>4, <1>13 DEF upsertCompany
  <2>2. PICK d \in Domain \cup {none} : d = stated[r].domain
    BY <1>2
  <2>3. company' = [company EXCEPT ![r].exists = TRUE, ![r].domain = d] /\ binding' = binding
    BY <2>1, <2>2 DEF createCompany
  <2>4. company' \in [Company -> [exists : BOOLEAN, domain : Domain \cup {none}, mergedInto : Company \cup {none}]]
    BY <1>2, <2>3
  <2>5. \A x \in Company : /\ company'[x].mergedInto = company[x].mergedInto
                           /\ x # r => company'[x].exists = company[x].exists
                           /\ x = r => company'[x].exists
    BY <1>2, <2>3
  <2>6. company[r].mergedInto = none
    BY <1>2, <1>5, <1>13 DEF VisibleInv, TreeInv
  <2>7. Live(r)'
    BY <1>2, <2>5, <2>6 DEF Live
  <2>8. run' = Writing(r, r, "created") /\ "created" \in Method
    BY <2>1 DEF createCompany, Method
  <2>9. run' \in Runs /\ run'.todo = run.todo \ {r} /\ run'.record = r /\ run'.company = r
    BY <1>2, <1>9, <2>8
  <2> DEFINE held == [x \in Domain |-> IF x = d THEN index.holders[x] \cup {r} ELSE index.holders[x]]
  <2>10. index' = [index EXCEPT !.byKey[r] = r, !.holders = held]
    BY <2>1, <2>2 DEF createCompany
  <2>11. index.holders \in [Domain -> SUBSET Company] /\ index.byKey \in [Record -> Company \cup {none}]
    BY <1>2 DEF Index
  <2>12. held \in [Domain -> SUBSET Company]
    BY <1>2, <2>11
  <2> HIDE DEF held
  <2>13. /\ index' \in Index /\ index'.byKey = [index.byKey EXCEPT ![r] = r] /\ index'.bindings = index.bindings
    BY <1>2, <2>10, <2>11, <2>12 DEF Index
  <2>14. \A q \in Record : q # r => index'.byKey[q] = index.byKey[q]
    BY <2>11, <2>13
  <2>15. Live(run.company)'
    BY <2>7, <2>9 DEF Live
  <2> QED BY <1>2, <1>7, <2>3, <2>4, <2>5, <2>9, <2>13, <2>14, <2>15
<1> QED BY <1>5, <1>10, <1>11, <1>12, <1>13

LEMMA IdentifiersVisible ==
    ASSUME IngestAssumption, VisibleInv, NEW c \in Company, company[c].exists, company' = company,
           NEW ks, ks \subseteq Key
    PROVE  LET learned == Learned(ks, c)
           IN  learned \in Index /\ learned.byKey = index.byKey /\ learned.bindings = index.bindings
<1> DEFINE written == {k \in ks : ident[k] = none}
           byId == [k \in Key |-> IF k \in written THEN c ELSE index.byIdentifier[k]]
           held == [d \in Domain |-> IF d \in written THEN index.holders[d] \cup {c} ELSE index.holders[d]]
           numbers == IF \E n \in Number : <<c, n>> \in index.numbers THEN index.numbers
                      ELSE index.numbers \cup ({c} \X (ks \cap Number))
<1>1. index \in Index
  BY DEF VisibleInv, TreeInv, TypeOK
<1>2. Learned(ks, c) = [index EXCEPT !.byIdentifier = byId, !.holders = held, !.numbers = numbers]
  BY DEF Learned
<1>3. /\ index.byIdentifier \in [Key -> Company \cup {none}]
      /\ index.holders \in [Domain -> SUBSET Company]
      /\ index.numbers \subseteq Company \X Number
  BY <1>1 DEF Index
<1>4. byId \in [Key -> Company \cup {none}]
  BY <1>3
<1>5. held \in [Domain -> SUBSET Company]
  BY <1>3
<1>6. numbers \in SUBSET (Company \X Number)
  BY <1>3
<1> HIDE DEF byId, held, numbers
<1> QED BY <1>1, <1>2, <1>4, <1>5, <1>6 DEF Index

\* What hangs off the record's company was written, all of it or some.
LEMMA WritesVisible ==
    ASSUME IngestAssumption, VisibleInv, run.pc = "writing",
           UNCHANGED <<stated, reported, company, moved>>,
           NEW xs, writeDeals(xs, run.company),
           NEW ks, ident' = [k \in Key |-> IF k \in ks /\ ident[k] = none THEN run.company ELSE ident[k]],
           index' \in Index, binding' \in [Record -> Binding],
           \A q \in Record : \/ binding'[q] = binding[q]
                             \/ q = run.record /\ binding'[q] = [status |-> "RESOLVED", company |-> run.company],
           \/ /\ run' = Done(run.record) /\ index'.byKey = index.byKey
              /\ \A q \in Record \ {run.record} : index'.bindings[q] = index.bindings[q]
           \/ run' = NoRun
    PROVE  VisibleInv'
<1>1. /\ company \in [Company -> [exists : BOOLEAN, domain : Domain \cup {none}, mergedInto : Company \cup {none}]]
      /\ ident \in [Key -> Company \cup {none}] /\ binding \in [Record -> Binding]
      /\ dealAt \in [Deal -> Company \cup {none}]
      /\ run \in Runs /\ reported \in [Record -> 1 .. DealCount]
      /\ \A k \in Key : ident[k] # none => company[ident[k]].exists
  BY DEF VisibleInv, TreeInv, TypeOK, Runs
<1>2. PICK c \in Company : c = run.company
  BY DEF VisibleInv, RunKnows
<1>3. Live(c) /\ c # none /\ run.record \in Record \ run.todo
  BY <1>2, CompaniesAreFew DEF VisibleInv, RunKnows
<1>4. \A k \in Key : ident'[k] \in {c, ident[k]}
  BY <1>2
<1>5. ident' \in [Key -> Company \cup {none}] /\ \A k \in Key : ident'[k] # none => company'[ident'[k]].exists
  BY <1>1, <1>2, <1>3, <1>4 DEF Live
<1>6. dealAt' \in [Deal -> Company \cup {none}] /\ \A x \in Deal : dealAt'[x] \in {c, dealAt[x]}
  BY <1>1, <1>2 DEF writeDeals
<1>7. DealsAreVisible'
  BY <1>3, <1>6 DEF VisibleInv, DealsAreVisible, Live
<1>8. BindingsName'
  <2> SUFFICES ASSUME NEW q \in Record, binding'[q].status = "RESOLVED"
               PROVE  binding'[q].company # none /\ company'[binding'[q].company].exists
    BY DEF BindingsName
  <2>1. CASE binding'[q] = binding[q]
    BY <2>1 DEF VisibleInv, BindingsName
  <2>2. CASE binding'[q] = [status |-> "RESOLVED", company |-> c]
    BY <1>3, <2>2 DEF Live
  <2> QED BY <1>2, <2>1, <2>2
<1>9. run' \in Runs /\ run'.pc # "writing" /\ run'.todo \subseteq run.todo \ {run.record}
  <2>1. CASE run' = NoRun
    BY <2>1 DEF NoRun, Runs, Method
  <2>2. CASE run' = Done(run.record)
    <3>1. PICK left \in SUBSET Record : left = run.todo \ {run.record}
      BY <1>1 DEF Runs
    <3>2. run' = [NoRun EXCEPT !.pc = "next", !.todo = left]
      BY <2>2, <3>1 DEF Done
    <3> QED BY <3>1, <3>2 DEF NoRun, Runs, Method
  <2> QED BY <2>1, <2>2
<1>10. TreeInv' /\ Survivors' = Survivors
  BY <1>1, <1>5, <1>6, <1>7, <1>8, <1>9, RowsKept
<1>11. RunKnows'
  <2> SUFFICES ASSUME run'.pc # "idle", NEW q \in run'.todo PROVE IndexKnows(index, q)'
    BY <1>9 DEF RunKnows
  <2>1. q \in run.todo /\ q # run.record /\ q \in Record
    BY <1>1, <1>9 DEF Runs
  <2>2. IndexKnows(index, q)
    BY <2>1 DEF VisibleInv, RunKnows
  <2>3. index'.byKey = index.byKey /\ index'.bindings[q] = index.bindings[q]
    BY <2>1 DEF NoRun
  <2>4. binding'[q] = binding[q]
    BY <2>1
  <2> QED BY <1>10, <2>2, <2>3, <2>4 DEF IndexKnows
<1> QED BY <1>7, <1>8, <1>10, <1>11 DEF VisibleInv

LEMMA UpsertVisible ==
    ASSUME IngestAssumption, VisibleInv,
           upsert \/ \E ks \in SUBSET Key, n \in 0 .. DealCount : breakOff(ks, n)
    PROVE  VisibleInv'
<1>1. run.pc = "writing" /\ UNCHANGED <<stated, reported, company, moved>>
  BY DEF upsert, breakOff
<1>2. PICK r \in Record : r = run.record
  BY <1>1 DEF VisibleInv, RunKnows
<1>3. PICK c \in Company : c = run.company
  BY <1>1 DEF VisibleInv, RunKnows
<1>4. company[c].exists
  BY <1>1, <1>3 DEF VisibleInv, RunKnows, Live
<1>5. Identifiers(r) \subseteq Key
  BY DEF VisibleInv, TreeInv, TypeOK, Identifiers, Key
<1>6. binding \in [Record -> Binding]
  BY DEF VisibleInv, TreeInv, TypeOK
<1>7. CASE upsert
  <2>1. /\ writeIdentifiers(Identifiers(r), c) /\ writeDeals(Deals(r), run.company) /\ run' = Done(run.record)
    BY <1>2, <1>3, <1>7 DEF upsert
  <2>2. PICK learned \in Index :
            learned = Learned(Identifiers(r), c) /\ learned.byKey = index.byKey /\ learned.bindings = index.bindings
    BY <1>1, <1>4, <1>5, IdentifiersVisible
  <2>3. PICK bound : bound = IF binds(run.method) THEN {r} ELSE {}
    OBVIOUS
  <2>4. PICK b : b = [status |-> "RESOLVED", company |-> c]
    OBVIOUS
  <2>5. binding' = [x \in Record |-> IF x \in bound THEN b ELSE binding[x]]
    BY <1>2, <1>3, <1>7, <2>3, <2>4 DEF upsert
  <2>6. b \in Binding
    BY <2>4 DEF Binding
  <2>7. binding' \in [Record -> Binding]
    BY <1>6, <2>5, <2>6
  <2>8. \A q \in Record : binding'[q] = binding[q] \/ (q = run.record /\ binding'[q] = b)
    BY <1>2, <2>3, <2>5
  <2>9. \A q \in Record : \/ binding'[q] = binding[q]
                          \/ q = run.record /\ binding'[q] = [status |-> "RESOLVED", company |-> run.company]
    BY <1>3, <2>4, <2>8
  <2>10. ident' = [k \in Key |-> IF k \in Identifiers(r) /\ ident[k] = none THEN run.company ELSE ident[k]]
    BY <1>3, <2>1 DEF writeIdentifiers
  <2>11. index' = [learned EXCEPT !.bindings = [x \in Record |-> IF x \in bound THEN b ELSE learned.bindings[x]]]
    BY <1>2, <1>3, <1>7, <2>2, <2>3, <2>4 DEF upsert
  <2>12. /\ [x \in Record |-> IF x \in bound THEN b ELSE learned.bindings[x]] \in [Record -> Binding]
         /\ \A q \in Record \ {r} : q \notin bound
    BY <2>2, <2>3, <2>6 DEF Index
  <2>13. /\ index' \in Index /\ index'.byKey = index.byKey
         /\ \A q \in Record \ {r} : index'.bindings[q] = index.bindings[q]
    BY <2>2, <2>11, <2>12 DEF Index
  <2> QED BY <1>1, <1>2, <2>1, <2>7, <2>9, <2>10, <2>13, WritesVisible
<1>8. ASSUME NEW ks \in SUBSET Key, NEW n \in 0 .. DealCount, breakOff(ks, n) PROVE VisibleInv'
  <2>1. writeDeals({run.record} \X (1 .. n), run.company) /\ binding' = binding
    BY <1>8 DEF breakOff
  <2>2. ident' = [k \in Key |-> IF k \in ks /\ ident[k] = none THEN run.company ELSE ident[k]]
    BY <1>8 DEF breakOff, writeIdentifiers
  <2>3. CASE index' = Learned(ks, run.company) /\ run' = Done(run.record)
    <3>1. index' \in Index /\ index'.byKey = index.byKey /\ index'.bindings = index.bindings
      BY <1>1, <1>3, <1>4, <2>3, IdentifiersVisible
    <3> QED BY <1>1, <1>6, <2>1, <2>2, <2>3, <3>1, WritesVisible
  <2>4. CASE index' = NoIndex /\ run' = NoRun
    <3>1. index' \in Index
      BY <2>4 DEF NoIndex, Index, Unbound, Binding
    <3> QED BY <1>1, <1>6, <2>1, <2>2, <2>4, <3>1, WritesVisible
  <2> QED BY <1>8, <2>3, <2>4 DEF breakOff
<1> QED BY <1>7, <1>8

\* Merged rows move to a live one.
LEMMA MergeVisible ==
    ASSUME IngestAssumption, VisibleInv, run.pc = "idle",
           NEW s \in Company, NEW l \in Company, mergeCompany(s, l)
    PROVE  /\ VisibleInv'
           /\ \A c \in Company : Survivors'[c] = IF Survivors[c] = l THEN s ELSE Survivors[c]
<1>1. /\ s # l /\ Live(s) /\ Live(l)
      /\ moved' = [moved EXCEPT ![l] = [deals |-> {x \in Deal : dealAt[x] = l},
                                        keys |-> {k \in Key : ident[k] = l}]]
      /\ dealAt' = [x \in Deal |-> IF dealAt[x] = l THEN s ELSE dealAt[x]]
      /\ ident' = [k \in Key |-> IF ident[k] = l THEN s ELSE ident[k]]
      /\ company' = [company EXCEPT ![l].mergedInto = s]
      /\ UNCHANGED <<stated, reported, binding, index, run>>
  BY DEF mergeCompany
<1>2. /\ company \in [Company -> [exists : BOOLEAN, domain : Domain \cup {none}, mergedInto : Company \cup {none}]]
      /\ ident \in [Key -> Company \cup {none}]
      /\ moved \in [Company -> [deals : SUBSET Deal, keys : SUBSET Key]]
      /\ dealAt \in [Deal -> Company \cup {none}]
      /\ \A k \in Key : ident[k] # none => company[ident[k]].exists
  BY DEF VisibleInv, TreeInv, TypeOK
<1>3. /\ company' \in [Company -> [exists : BOOLEAN, domain : Domain \cup {none}, mergedInto : Company \cup {none}]]
      /\ \A c \in Company : /\ company'[c].exists = company[c].exists
                            /\ company'[c].mergedInto = IF c = l THEN s ELSE company[c].mergedInto
  BY <1>1, <1>2
<1>4. Into' = [Into EXCEPT ![l] = s]
  BY <1>3 DEF Into
<1>5. Tree(Into) /\ Acyclic(Into) /\ Into[s] = none /\ Into[l] = none /\ s # l
  BY <1>1, TreeOfCompanies DEF VisibleInv, TreeInv, Into, Live
<1>6. none \notin Company /\ IsFiniteSet(Company)
  BY CompaniesAreFew
<1>7. PICK m : m = Into
  OBVIOUS
<1>8. /\ Tree([m EXCEPT ![l] = s]) /\ Acyclic([m EXCEPT ![l] = s])
      /\ \A c \in Company : RootOf([m EXCEPT ![l] = s])[c] = IF RootOf(m)[c] = l THEN s ELSE RootOf(m)[c]
  <2>1. Tree(m) /\ Acyclic(m) /\ m[s] = none /\ m[l] = none /\ s # l
    BY <1>5, <1>7
  <2>2. s \in Company /\ l \in Company
    OBVIOUS
  <2>3. Tree([m EXCEPT ![l] = s]) /\ Acyclic([m EXCEPT ![l] = s])
    BY ONLY <1>6, <2>1, <2>2, FoldedIsAcyclic
  <2>4. \A c \in Company : RootOf([m EXCEPT ![l] = s])[c] = IF RootOf(m)[c] = l THEN s ELSE RootOf(m)[c]
    BY ONLY <1>6, <2>1, <2>2, FoldedRoot
  <2> QED BY <2>3, <2>4
<1>9. Acyclic(Into') /\ \A c \in Company : Survivors'[c] = IF Survivors[c] = l THEN s ELSE Survivors[c]
  BY <1>4, <1>7, <1>8 DEF Survivors
<1>10. DealsAreVisible'
  <2> SUFFICES ASSUME NEW x \in Deal, dealAt'[x] # none PROVE Live(dealAt[x])'
    BY DEF DealsAreVisible
  <2>1. dealAt'[x] = s \/ (dealAt'[x] = dealAt[x] /\ dealAt[x] # l)
    BY <1>1, <1>2
  <2>2. PICK c \in Company : c = dealAt'[x] /\ c # l /\ Live(c)
    BY <1>1, <1>2, <2>1 DEF VisibleInv, DealsAreVisible
  <2>3. company'[c].exists /\ company'[c].mergedInto = none
    BY <1>3, <2>2 DEF Live
  <2> QED BY <2>2, <2>3 DEF Live
<1>11. ident' \in [Key -> Company \cup {none}] /\ \A k \in Key : ident'[k] # none => company'[ident'[k]].exists
  <2>1. \A k \in Key : ident'[k] \in {s, ident[k]}
    BY <1>1
  <2>2. company'[s].exists
    BY <1>1, <1>3 DEF Live
  <2>3. ident' \in [Key -> Company \cup {none}]
    BY <1>1, <1>2
  <2>4. \A k \in Key : ident'[k] # none => company'[ident'[k]].exists
    <3> TAKE k \in Key
    <3>1. CASE ident'[k] = s
      BY <2>2, <3>1
    <3>2. CASE ident'[k] = ident[k]
      BY <1>2, <1>3, <3>2
    <3> QED BY <2>1, <3>1, <3>2
  <2> QED BY <2>3, <2>4
<1>12. dealAt' \in [Deal -> Company \cup {none}] /\ \A x \in Deal : dealAt'[x] # none => company'[dealAt'[x]].exists
  BY <1>1, <1>2, <1>10 DEF DealsAreVisible, Live
<1>13. moved' \in [Company -> [deals : SUBSET Deal, keys : SUBSET Key]]
  <2> DEFINE gone == [deals |-> {x \in Deal : dealAt[x] = l}, keys |-> {k \in Key : ident[k] = l}]
  <2>1. gone \in [deals : SUBSET Deal, keys : SUBSET Key]
    OBVIOUS
  <2> HIDE DEF gone
  <2>2. moved' = [moved EXCEPT ![l] = gone]
    BY <1>1 DEF gone
  <2> QED BY <1>2, <2>1, <2>2
<1>14. TypeOK'
  BY <1>1, <1>3, <1>11, <1>12, <1>13 DEF VisibleInv, TreeInv, TypeOK
<1>15. TreeInv'
  <2>1. company[s].exists /\ company[l].exists
    BY <1>1 DEF Live
  <2>2. \A c \in Company : Survivors[c] \in Company /\ (company[c].exists => company[Survivors[c]].exists)
    BY SurvivorsLive DEF VisibleInv, TreeInv
  <2>3. \A c \in Company : /\ company'[c].mergedInto # none => company'[c].exists
                           /\ company'[c].exists => company'[Survivors'[c]].exists
    <3> TAKE c \in Company
    <3>1. company'[c].mergedInto # none => company'[c].exists
      BY <1>3, <2>1 DEF VisibleInv, TreeInv
    <3>2. company'[c].exists => company'[Survivors'[c]].exists
      <4>1. CASE Survivors[c] = l
        BY <1>3, <1>9, <2>1, <4>1
      <4>2. CASE Survivors[c] # l
        BY <1>3, <1>9, <2>2, <4>2
      <4> QED BY <4>1, <4>2
    <3> QED BY <3>1, <3>2
  <2> QED BY <1>9, <1>14, <2>3 DEF TreeInv
<1>16. BindingsName'
  BY <1>1, <1>3 DEF VisibleInv, TreeInv, TypeOK, Binding, BindingsName
<1>17. RunKnows'
  BY <1>1 DEF RunKnows
<1> QED BY <1>9, <1>10, <1>15, <1>16, <1>17 DEF VisibleInv

\* What goes back is live again.
LEMMA UnmergeVisible ==
    ASSUME IngestAssumption, VisibleInv, run.pc = "idle", NEW l \in Company, unmergeCompany(l)
    PROVE  VisibleInv'
<1>1. /\ company[l].mergedInto # none /\ Live(company[l].mergedInto)
      /\ dealAt' = [x \in Deal |-> IF x \in moved[l].deals THEN l ELSE dealAt[x]]
      /\ ident' = [k \in Key |-> IF k \in moved[l].keys THEN l ELSE ident[k]]
      /\ company' = [company EXCEPT ![l].mergedInto = none]
      /\ moved' = [moved EXCEPT ![l] = Nothing]
      /\ UNCHANGED <<stated, reported, binding, index, run>>
  BY DEF unmergeCompany
<1>2. /\ company \in [Company -> [exists : BOOLEAN, domain : Domain \cup {none}, mergedInto : Company \cup {none}]]
      /\ ident \in [Key -> Company \cup {none}]
      /\ moved \in [Company -> [deals : SUBSET Deal, keys : SUBSET Key]]
      /\ dealAt \in [Deal -> Company \cup {none}]
      /\ \A k \in Key : ident[k] # none => company[ident[k]].exists
  BY DEF VisibleInv, TreeInv, TypeOK
<1>3. /\ company' \in [Company -> [exists : BOOLEAN, domain : Domain \cup {none}, mergedInto : Company \cup {none}]]
      /\ \A c \in Company : /\ company'[c].exists = company[c].exists
                            /\ company'[c].mergedInto = IF c = l THEN none ELSE company[c].mergedInto
  BY <1>1, <1>2
<1>4. Into' = [Into EXCEPT ![l] = none]
  BY <1>3 DEF Into
<1>5. none \notin Company /\ IsFiniteSet(Company)
  BY CompaniesAreFew
<1>6. PICK s \in Company : s = company[l].mergedInto
  BY <1>1, <1>2
<1>7. PICK m : m = Into
  OBVIOUS
<1>8. Tree(m) /\ Acyclic(m) /\ m[s] = none /\ m[l] = s /\ s # l
  BY <1>1, <1>5, <1>6, <1>7, TreeOfCompanies DEF VisibleInv, TreeInv, Into, Live
<1>9. /\ Acyclic([m EXCEPT ![l] = none])
      /\ \A c \in Company : RootOf(m)[c] =
           IF RootOf([m EXCEPT ![l] = none])[c] = l THEN s ELSE RootOf([m EXCEPT ![l] = none])[c]
  <2>1. s \in Company /\ l \in Company
    OBVIOUS
  <2>2. Acyclic([m EXCEPT ![l] = none])
    BY ONLY <1>5, <1>8, <2>1, UnfoldedIsAcyclic
  <2>3. \A c \in Company : RootOf(m)[c] =
          IF RootOf([m EXCEPT ![l] = none])[c] = l THEN s ELSE RootOf([m EXCEPT ![l] = none])[c]
    BY ONLY <1>5, <1>8, <2>1, UnfoldedRoot
  <2> QED BY <2>2, <2>3
<1>10. Acyclic(Into') /\ \A c \in Company : Survivors'[c] \in {l, Survivors[c]}
  BY <1>4, <1>7, <1>9 DEF Survivors
<1>11. company[l].exists
  BY <1>1 DEF VisibleInv, TreeInv
<1>12. DealsAreVisible'
  <2> SUFFICES ASSUME NEW x \in Deal, dealAt'[x] # none PROVE Live(dealAt[x])'
    BY DEF DealsAreVisible
  <2>1. dealAt'[x] \in {l, dealAt[x]}
    BY <1>1, <1>2
  <2>2. PICK c \in Company : c = dealAt'[x] /\ company[c].exists /\ (c = l \/ company[c].mergedInto = none)
    BY <1>2, <1>11, <2>1 DEF VisibleInv, DealsAreVisible, Live
  <2>3. company'[c].exists /\ company'[c].mergedInto = none
    BY <1>3, <2>2
  <2> QED BY <2>2, <2>3 DEF Live
<1>13. ident' \in [Key -> Company \cup {none}] /\ \A k \in Key : ident'[k] # none => company'[ident'[k]].exists
  <2>1. \A k \in Key : ident'[k] \in {l, ident[k]}
    BY <1>1
  <2>2. ident' \in [Key -> Company \cup {none}]
    BY <1>1, <1>2
  <2>3. \A k \in Key : ident'[k] # none => company'[ident'[k]].exists
    <3> TAKE k \in Key
    <3>1. CASE ident'[k] = l
      BY <1>3, <1>11, <3>1
    <3>2. CASE ident'[k] = ident[k]
      BY <1>2, <1>3, <3>2
    <3> QED BY <2>1, <3>1, <3>2
  <2> QED BY <2>2, <2>3
<1>14. dealAt' \in [Deal -> Company \cup {none}] /\ \A x \in Deal : dealAt'[x] # none => company'[dealAt'[x]].exists
  BY <1>1, <1>2, <1>12 DEF DealsAreVisible, Live
<1>15. moved' \in [Company -> [deals : SUBSET Deal, keys : SUBSET Key]]
  BY <1>1, <1>2 DEF Nothing
<1>16. TypeOK'
  BY <1>1, <1>3, <1>13, <1>14, <1>15 DEF VisibleInv, TreeInv, TypeOK
<1>17. TreeInv'
  <2>1. \A c \in Company : Survivors[c] \in Company /\ (company[c].exists => company[Survivors[c]].exists)
    BY SurvivorsLive DEF VisibleInv, TreeInv
  <2>2. \A c \in Company : /\ company'[c].mergedInto # none => company'[c].exists
                           /\ company'[c].exists => company'[Survivors'[c]].exists
    <3> TAKE c \in Company
    <3>1. company'[c].mergedInto # none => company'[c].exists
      BY <1>3 DEF VisibleInv, TreeInv
    <3>2. company'[c].exists => company'[Survivors'[c]].exists
      <4>1. CASE Survivors'[c] = l
        BY <1>3, <1>11, <4>1
      <4>2. CASE Survivors'[c] = Survivors[c]
        BY <1>3, <2>1, <4>2
      <4> QED BY <1>10, <4>1, <4>2
    <3> QED BY <3>1, <3>2
  <2> QED BY <1>10, <1>16, <2>2 DEF TreeInv
<1>18. BindingsName'
  BY <1>1, <1>3 DEF VisibleInv, TreeInv, TypeOK, Binding, BindingsName
<1>19. RunKnows'
  BY <1>1 DEF RunKnows
<1> QED BY <1>12, <1>17, <1>18, <1>19 DEF VisibleInv

LEMMA NextVisible ==
    ASSUME IngestAssumption, VisibleInv, [SerialNext]_vars
    PROVE  VisibleInv'
<1>1. CASE IngestNext
  <2>1. ASSUME NEW r \in Record, upsertCompany(r) PROVE VisibleInv'
    BY <2>1, UpsertCompanyVisible
  <2> QED BY <1>1, <2>1, TurnsVisible, UpsertVisible DEF IngestNext
<1>2. CASE run.pc = "idle" /\ AdminNext
  <2>1. ASSUME NEW c \in Company, unmergeCompany(c) PROVE VisibleInv'
    BY <1>2, <2>1, UnmergeVisible
  <2>2. ASSUME NEW c \in Company, NEW l \in Company, mergeCompany(c, l) PROVE VisibleInv'
    BY <1>2, <2>2, MergeVisible
  <2> QED BY <1>2, <2>1, <2>2 DEF AdminNext
<1>3. CASE UNCHANGED vars
  <2>1. UNCHANGED <<stated, reported, company, ident, binding, dealAt, moved, index, run>>
    BY <1>3 DEF vars, dbVars
  <2>2. Into' = Into /\ Survivors' = Survivors
    BY <2>1 DEF Into, Survivors
  <2>3. TypeOK'
    BY <2>1 DEF VisibleInv, TreeInv, TypeOK
  <2>4. TreeInv'
    BY <2>1, <2>2, <2>3 DEF VisibleInv, TreeInv
  <2>5. BindingsName' /\ DealsAreVisible'
    BY <2>1 DEF VisibleInv, BindingsName, DealsAreVisible, Live
  <2>6. RunKnows'
    BY <2>1, <2>2 DEF VisibleInv, RunKnows, IndexKnows, Live
  <2> QED BY <2>4, <2>5, <2>6 DEF VisibleInv
<1> QED BY <1>1, <1>2, <1>3 DEF SerialNext

\* Every row a run wrote hangs off a live company, after any failures, merges
\* of that company and reversals, while admins wait for runs to end
\* (loadMatchIndex: "matching onto it would write to a row nobody can see").
THEOREM DealsStayVisible ==
    ASSUME IngestAssumption
    PROVE  SerialSpec => [](TypeOK /\ DealsAreVisible)
<1>1. Init => VisibleInv
  BY InitVisible
<1>2. VisibleInv /\ [SerialNext]_vars => VisibleInv'
  BY NextVisible
<1>3. VisibleInv => TypeOK /\ DealsAreVisible
  BY DEF VisibleInv, TreeInv
<1> QED BY <1>1, <1>2, <1>3, PTL DEF SerialSpec

----------------------------------------------------------------------------
(* Where a record's next run finds it. *)

\* The matcher would choose c again, by the record's own row or its binding.
AtHome(r, c) ==
    /\ binding[r].status # "REVIEW_REQUIRED"
    /\ IF company[r].exists THEN Survivors[r] = c
       ELSE binding[r].status = "RESOLVED" /\ Survivors[binding[r].company] = c

Tombstones == {c \in Company : company[c].mergedInto # none}

\* A record that is being written will be found, by what it is written on or
\* by the binding that is written last.
WritingHome ==
    run.pc = "writing" =>
        /\ binding[run.record].status # "REVIEW_REQUIRED"
        /\ IF binds(run.method) THEN ~ company[run.record].exists
           ELSE AtHome(run.record, run.company)

Homes ==
    NeverReversed =>
        \A r \in Record \ failed : dealAt[<<r, 1>>] # none => AtHome(r, dealAt[<<r, 1>>])

HomeInv == merges \in Nat /\ Cardinality(Tombstones) <= merges /\ Homes /\ WritingHome

LEMMA FirstDeals ==
    ASSUME IngestAssumption
    PROVE  1 \in DealNumbers /\ \A r \in Record : <<r, 1>> \in Deal
BY DEF IngestAssumption, Deal, DealNumbers

LEMMA InitHome == IngestAssumption /\ Init => HomeInv
<1> SUFFICES ASSUME IngestAssumption, Init PROVE HomeInv
  OBVIOUS
<1>1. Tombstones = {}
  BY DEF Init, Tombstones
<1>2. Cardinality(Tombstones) = 0
  BY <1>1, FS_EmptySet
<1> QED BY <1>2, FirstDeals DEF Init, HomeInv, Homes, WritingHome, NoRun

\* Steps that decide nothing and write nothing.
LEMMA TurnsHome ==
    ASSUME IngestAssumption, VisibleInv, HomeInv,
           (\E source \in {Record, Partner, Record \ Partner} : start(source))
             \/ finish \/ \E r \in Record : report(r)
    PROVE  HomeInv'
<1>1. UNCHANGED <<company, binding, dealAt, merges, failed>> /\ run'.pc # "writing"
  <2>1. ASSUME NEW source, start(source) PROVE UNCHANGED <<company, binding, dealAt, merges, failed>> /\ run'.pc # "writing"
    BY <2>1 DEF start, dbVars, NoRun
  <2>2. ASSUME NEW r, report(r) PROVE UNCHANGED <<company, binding, dealAt, merges, failed>> /\ run'.pc # "writing"
    BY <2>2 DEF report, dbVars
  <2>3. ASSUME finish PROVE UNCHANGED <<company, binding, dealAt, merges, failed>> /\ run'.pc # "writing"
    BY <2>3 DEF finish, dbVars, NoRun
  <2> QED BY <2>1, <2>2, <2>3
<1>2. Into' = Into /\ Tombstones' = Tombstones /\ (NeverReversed' <=> NeverReversed)
  BY <1>1 DEF Into, Tombstones, NeverReversed
<1>3. Survivors' = Survivors
  BY <1>2 DEF Survivors
<1> QED BY <1>1, <1>2, <1>3 DEF HomeInv, Homes, AtHome, WritingHome

\* A record that is at home is never held, created again or associated anew.
LEMMA UpsertCompanyHome ==
    ASSUME IngestAssumption, VisibleInv, HomeInv, NEW r \in Record, upsertCompany(r)
    PROVE  HomeInv'
<1>1. run.pc = "next" /\ r \in run.todo /\ UNCHANGED <<dealAt, merges, failed>>
  BY DEF upsertCompany
<1>2. /\ company \in [Company -> [exists : BOOLEAN, domain : Domain \cup {none}, mergedInto : Company \cup {none}]]
      /\ binding \in [Record -> Binding] /\ index \in Index /\ Record \subseteq Company
  BY DEF VisibleInv, TreeInv, TypeOK, Company
<1>3. PICK m : m = decideCompanyMatch(index, r)
  OBVIOUS
<1>4. /\ m.kind \in {"existing", "create", "hold", "conflict"}
      /\ m.kind = "existing" => m.company \in Company
      /\ m.kind \in {"existing", "create"} => binding[r].status # "REVIEW_REQUIRED"
      /\ m.kind = "create" => ~ company[r].exists
      /\ m.kind = "existing" =>
           \/ m.method = "own" /\ company[r].exists /\ m.company = Survivors[r]
           \/ /\ m.method = "binding" /\ ~ company[r].exists /\ binding[r].status = "RESOLVED"
              /\ m.company = Survivors[binding[r].company]
           \/ m.method \in {"identifier", "domain"} /\ ~ company[r].exists
      /\ binding[r].status # "REVIEW_REQUIRED" /\ (company[r].exists \/ binding[r].status = "RESOLVED") =>
           m.kind = "existing"
  <2>1. IndexKnows(index, r)
    BY <1>1 DEF VisibleInv, RunKnows
  <2> QED BY <1>2, <1>3, <2>1, Chosen DEF VisibleInv
\* What every outcome shares.
<1>5. ASSUME \A c \in Company : /\ company'[c].mergedInto = company[c].mergedInto
                                /\ c # r => company'[c].exists = company[c].exists,
             \A q \in Record : q # r => binding'[q] = binding[q],
             m.kind = "existing" => binding'[r] = binding[r] /\ company'[r].exists = company[r].exists,
             WritingHome'
      PROVE  HomeInv'
  <2>1. Into' = Into /\ Tombstones' = Tombstones /\ (NeverReversed' <=> NeverReversed)
    BY <1>1, <1>5 DEF Into, Tombstones, NeverReversed
  <2>2. Survivors' = Survivors
    BY <2>1 DEF Survivors
  <2>3. Homes'
    <3> SUFFICES ASSUME NeverReversed, NEW q \in Record \ failed, dealAt[<<q, 1>>] # none
                 PROVE  AtHome(q, dealAt[<<q, 1>>])'
      BY <1>1, <2>1 DEF Homes
    <3>1. AtHome(q, dealAt[<<q, 1>>])
      BY DEF HomeInv, Homes
    <3>2. CASE q # r
      BY <1>1, <1>2, <1>5, <2>2, <3>1, <3>2 DEF AtHome
    <3>3. CASE q = r
      <4>1. m.kind = "existing"
        BY <1>4, <3>1, <3>3 DEF AtHome
      <4> QED BY <1>1, <1>5, <2>2, <3>1, <3>3, <4>1 DEF AtHome
    <3> QED BY <3>2, <3>3
  <2> QED BY <1>1, <1>5, <2>1, <2>3 DEF HomeInv
<1>6. run' = Done(r) => WritingHome'
  BY DEF Done, NoRun, WritingHome
<1>7. CASE m.kind = "conflict"
  <2>1. recordConflict(r)
    BY <1>3, <1>7 DEF upsertCompany
  <2>2. company' = company /\ run' = Done(r) /\ \A q \in Record : q # r => binding'[q] = binding[q]
    BY <1>2, <2>1 DEF recordConflict
  <2> QED BY <1>5, <1>6, <1>7, <2>2
<1>8. CASE m.kind # "conflict" /\ (m.kind = "hold" \/ childOwnerClash(r, m.company))
  <2>1. run' = Done(r) /\ UNCHANGED <<company, binding, index>>
    BY <1>3, <1>8 DEF upsertCompany
  <2> QED BY <1>5, <1>6, <2>1
<1>9. CASE m.kind = "existing" /\ ~ childOwnerClash(r, m.company)
  <2>1. updateCompany(r, m)
    BY <1>3, <1>9 DEF upsertCompany
  <2>2. PICK c \in Company : c = m.company
    BY <1>4, <1>9
  <2>3. run' = Writing(r, c, m.method) /\ UNCHANGED binding
    BY <2>1, <2>2 DEF updateCompany
  <2>4. company' = company \/ company' = [company EXCEPT ![c].domain = stated[r].domain]
    BY <2>1, <2>2 DEF updateCompany
  <2>5. \A x \in Company : company'[x].mergedInto = company[x].mergedInto /\ company'[x].exists = company[x].exists
    <3>1. CASE company' = company
      BY <3>1
    <3>2. CASE company' = [company EXCEPT ![c].domain = stated[r].domain]
      BY <1>2, <3>2
    <3> QED BY <2>4, <3>1, <3>2
  <2>6. run'.record = r /\ run'.company = c /\ run'.method = m.method
    BY <2>3 DEF Writing
  <2>7. Into' = Into /\ Survivors' = Survivors
    BY <2>5 DEF Into, Survivors
  <2>8. company'[r].exists = company[r].exists /\ r \in Company
    BY <1>2, <2>5
  <2>9. binds(m.method) => ~ company[r].exists
    BY <1>4, <1>9 DEF binds
  <2>10. ~ binds(m.method) => AtHome(r, c)
    BY <1>4, <1>9, <2>2 DEF binds, AtHome
  <2>11. WritingHome'
    <3>1. binding'[r].status # "REVIEW_REQUIRED"
      BY <1>4, <1>9, <2>3
    <3>2. CASE binds(m.method)
      BY <2>6, <2>8, <2>9, <3>1, <3>2 DEF WritingHome, binds
    <3>3. CASE ~ binds(m.method)
      <4>1. AtHome(run.record, run.company)'
        BY <2>3, <2>6, <2>7, <2>8, <2>10, <3>3 DEF AtHome
      <4>2. ~ binds(run'.method)
        BY <2>6, <3>3
      <4> QED BY <2>6, <3>1, <4>1, <4>2 DEF WritingHome, binds
    <3> QED BY <3>2, <3>3
  <2> QED BY <1>5, <2>3, <2>5, <2>8, <2>11
<1>10. CASE m.kind = "create" /\ ~ childOwnerClash(r, m.company)
  <2>1. createCompany(r)
    BY <1>3, <1>10 DEF upsertCompany
  <2>2. /\ company' = [company EXCEPT ![r].exists = TRUE, ![r].domain = stated[r].domain]
        /\ run' = Writing(r, r, "created") /\ binding' = binding
    BY <2>1 DEF createCompany
  <2>3. \A x \in Company : /\ company'[x].mergedInto = company[x].mergedInto
                           /\ x # r => company'[x].exists = company[x].exists
                           /\ x = r => company'[x].exists
    BY <1>2, <2>2
  <2>4. run'.record = r /\ run'.company = r /\ run'.method = "created"
    BY <2>2 DEF Writing
  <2>5. Into' = Into /\ Survivors' = Survivors
    BY <2>3 DEF Into, Survivors
  <2>6. company[r].mergedInto = none
    BY <1>2, <1>4, <1>10 DEF VisibleInv, TreeInv
  <2>7. Survivors[r] = r
    BY <1>2, <2>6, SurvivorsLive DEF VisibleInv
  <2>8. AtHome(run.record, run.company)'
    BY <1>2, <1>4, <1>10, <2>2, <2>3, <2>4, <2>5, <2>7 DEF AtHome
  <2>9. WritingHome'
    BY <1>4, <1>10, <2>2, <2>4, <2>8 DEF WritingHome, binds
  <2> QED BY <1>5, <1>10, <2>2, <2>3, <2>9
<1> QED BY <1>4, <1>7, <1>8, <1>9, <1>10

\* A record that was written whole is at home.
LEMMA UpsertHome ==
    ASSUME IngestAssumption, WholeInv, VisibleInv, HomeInv, upsert
    PROVE  HomeInv'
<1>1. /\ run.pc = "writing" /\ UNCHANGED <<reported, company, merges, failed>>
      /\ writeDeals(Deals(run.record), run.company) /\ run' = Done(run.record)
  BY DEF upsert
<1>2. PICK r \in Record : r = run.record
  BY <1>1 DEF VisibleInv, RunKnows
<1>3. PICK c \in Company : c = run.company
  BY <1>1 DEF VisibleInv, RunKnows
<1>4. Live(c) /\ c # none
  BY <1>1, <1>3, CompaniesAreFew DEF VisibleInv, RunKnows
<1>5. reported[r] \in 1 .. DealCount /\ binding \in [Record -> Binding] /\ dealAt \in [Deal -> Company \cup {none}]
  BY DEF VisibleInv, TreeInv, TypeOK
<1>6. Into' = Into /\ Tombstones' = Tombstones /\ (NeverReversed' <=> NeverReversed)
  BY <1>1 DEF Into, Tombstones, NeverReversed
<1>7. Survivors' = Survivors
  BY <1>6 DEF Survivors
<1>8. Survivors[c] = c
  BY <1>4, SurvivorsLive DEF VisibleInv, Live
<1>9. \A q \in Record \ {r} : dealAt'[<<q, 1>>] = dealAt[<<q, 1>>]
  BY <1>1, <1>2, FirstDeals DEF writeDeals, Deals
<1>10. dealAt'[<<r, 1>>] = c
  <2>1. dealAt[<<r, 1>>] \in {none, c}
    BY <1>1, <1>2, <1>3, FirstDeals DEF WholeInv, WrittenWhole
  <2>2. <<r, 1>> \in Deals(r)
    BY <1>5 DEF Deals
  <2> QED BY <1>1, <1>2, <1>3, <2>1, <2>2, FirstDeals DEF writeDeals
<1>11. PICK bound : bound = IF binds(run.method) THEN {r} ELSE {}
  OBVIOUS
<1>12. binding' = [x \in Record |-> IF x \in bound THEN [status |-> "RESOLVED", company |-> c] ELSE binding[x]]
  BY <1>2, <1>3, <1>11 DEF upsert
<1>13. \A q \in Record \ {r} : binding'[q] = binding[q]
  BY <1>11, <1>12
<1>14. AtHome(r, c)'
  <2>1. CASE binds(run.method)
    <3>1. binding'[r].status = "RESOLVED" /\ binding'[r].company = c
      BY <1>11, <1>12, <2>1
    <3>2. ~ company[r].exists
      BY <1>1, <1>2, <2>1 DEF HomeInv, WritingHome
    <3> QED BY <1>1, <1>7, <1>8, <3>1, <3>2 DEF AtHome
  <2>2. CASE ~ binds(run.method)
    <3>1. binding'[r] = binding[r]
      BY <1>11, <1>12, <2>2
    <3>2. AtHome(r, c)
      BY <1>1, <1>2, <1>3, <2>2 DEF HomeInv, WritingHome
    <3> QED BY <1>1, <1>7, <3>1, <3>2 DEF AtHome
  <2> QED BY <2>1, <2>2
<1>15. Homes'
  <2> SUFFICES ASSUME NeverReversed, NEW q \in Record \ failed, dealAt'[<<q, 1>>] # none
               PROVE  AtHome(q, dealAt[<<q, 1>>])'
    BY <1>1, <1>6 DEF Homes
  <2>1. CASE q = r
    BY <1>10, <1>14, <2>1 DEF AtHome
  <2>2. CASE q # r
    <3>1. AtHome(q, dealAt[<<q, 1>>])
      BY <1>9, <2>2 DEF HomeInv, Homes
    <3> QED BY <1>1, <1>7, <1>9, <1>13, <2>2, <3>1 DEF AtHome
  <2> QED BY <2>1, <2>2
<1>16. WritingHome'
  BY <1>1 DEF Done, NoRun, WritingHome
<1> QED BY <1>1, <1>6, <1>15, <1>16 DEF HomeInv

LEMMA BreakOffHome ==
    ASSUME IngestAssumption, VisibleInv, HomeInv, NEW ks, NEW n \in 0 .. DealCount, breakOff(ks, n)
    PROVE  HomeInv'
<1>1. /\ run.pc = "writing" /\ UNCHANGED <<company, binding, merges>>
      /\ failed' = failed \cup {run.record} /\ writeDeals({run.record} \X (1 .. n), run.company)
      /\ run' = Done(run.record) \/ run' = NoRun
  BY DEF breakOff
<1>2. PICK r \in Record : r = run.record
  BY <1>1 DEF VisibleInv, RunKnows
<1>3. Into' = Into /\ Tombstones' = Tombstones /\ (NeverReversed' <=> NeverReversed)
  BY <1>1 DEF Into, Tombstones, NeverReversed
<1>4. Survivors' = Survivors
  BY <1>3 DEF Survivors
<1>5. \A q \in Record \ {r} : dealAt'[<<q, 1>>] = dealAt[<<q, 1>>]
  BY <1>1, <1>2, FirstDeals DEF writeDeals
<1>6. Homes'
  <2> SUFFICES ASSUME NeverReversed, NEW q \in Record \ (failed \cup {r}), dealAt'[<<q, 1>>] # none
               PROVE  AtHome(q, dealAt[<<q, 1>>])'
    BY <1>1, <1>2, <1>3 DEF Homes
  <2>1. AtHome(q, dealAt[<<q, 1>>])
    BY <1>5 DEF HomeInv, Homes
  <2> QED BY <1>1, <1>4, <1>5, <2>1 DEF AtHome
<1>7. WritingHome'
  <2>1. run' = Done(run.record) => run'.pc # "writing"
    BY DEF Done, NoRun
  <2>2. run' = NoRun => run'.pc # "writing"
    BY DEF NoRun
  <2> QED BY <1>1, <2>1, <2>2 DEF WritingHome
<1> QED BY <1>1, <1>3, <1>6, <1>7 DEF HomeInv

\* A merge moves the rows and what leads to them alike; a reversal is counted.
LEMMA AdminsHome ==
    ASSUME IngestAssumption, VisibleInv, HomeInv, run.pc = "idle", AdminNext
    PROVE  HomeInv'
<1>1. IsFiniteSet(Tombstones)
  <2>1. Tombstones \subseteq Company
    BY DEF Tombstones
  <2> QED BY <2>1, CompaniesAreFew, FS_Subset
<1>2. Cardinality(Tombstones) \in Nat
  BY <1>1, FS_CardinalityType
<1>3. /\ company \in [Company -> [exists : BOOLEAN, domain : Domain \cup {none}, mergedInto : Company \cup {none}]]
      /\ binding \in [Record -> Binding] /\ Record \subseteq Company /\ dealAt \in [Deal -> Company \cup {none}]
  BY DEF VisibleInv, TreeInv, TypeOK, Company
<1>4. NeverReversed <=> merges = Cardinality(Tombstones)
  BY DEF NeverReversed, Tombstones
<1>5. NeverReversed' <=> merges' = Cardinality(Tombstones')
  BY DEF NeverReversed, Tombstones
<1>6. none \notin Company
  BY CompaniesAreFew
<1>7. ASSUME NEW s \in Company, NEW l \in Company, mergeCompany(s, l) PROVE HomeInv'
  <2>1. /\ Live(l) /\ merges' = merges + 1
        /\ dealAt' = [x \in Deal |-> IF dealAt[x] = l THEN s ELSE dealAt[x]]
        /\ company' = [company EXCEPT ![l].mergedInto = s]
        /\ UNCHANGED <<binding, run, failed>>
    BY <1>7 DEF mergeCompany
  <2>2. \A x \in Company : /\ company'[x].exists = company[x].exists
                           /\ company'[x].mergedInto = IF x = l THEN s ELSE company[x].mergedInto
    BY <1>3, <2>1
  <2>3. Tombstones' = Tombstones \cup {l} /\ l \notin Tombstones
    BY <1>6, <2>1, <2>2 DEF Tombstones, Live
  <2>4. Cardinality(Tombstones \cup {l}) = Cardinality(Tombstones) + 1
    BY <1>1, <2>3, FS_AddElement
  <2>5. Cardinality(Tombstones') = Cardinality(Tombstones) + 1
    BY <2>3, <2>4
  <2>6. \A c \in Company : Survivors'[c] = IF Survivors[c] = l THEN s ELSE Survivors[c]
    BY <1>7, MergeVisible
  <2>7. Homes'
    <3> SUFFICES ASSUME NeverReversed', NEW q \in Record \ failed, dealAt'[<<q, 1>>] # none
                 PROVE  AtHome(q, dealAt[<<q, 1>>])'
      BY <2>1 DEF Homes
    <3>1. merges = Cardinality(Tombstones)
      BY <1>2, <1>5, <2>1, <2>5 DEF HomeInv
    <3>2. PICK c : c = dealAt[<<q, 1>>]
      OBVIOUS
    <3>3. dealAt'[<<q, 1>>] = IF c = l THEN s ELSE c
      BY <2>1, <3>2, FirstDeals
    <3>4. c # none
      BY <1>6, <3>3
    <3>5. AtHome(q, c)
      BY <1>4, <3>1, <3>2, <3>4 DEF HomeInv, Homes
    <3>6. q \in Company /\ company'[q].exists = company[q].exists /\ binding'[q] = binding[q]
      BY <1>3, <2>1, <2>2
    <3>7. binding[q].status = "RESOLVED" => binding[q].company \in Company
      BY <1>3 DEF VisibleInv, BindingsName, Binding
    <3> QED BY <2>6, <3>3, <3>5, <3>6, <3>7 DEF AtHome
  <2>8. WritingHome'
    BY <2>1 DEF WritingHome
  <2>9. merges' \in Nat /\ Cardinality(Tombstones') <= merges'
    BY <1>2, <2>1, <2>5 DEF HomeInv
  <2> QED BY <2>7, <2>8, <2>9 DEF HomeInv
<1>8. ASSUME NEW l \in Company, unmergeCompany(l) PROVE HomeInv'
  <2>1. /\ company[l].mergedInto # none /\ company' = [company EXCEPT ![l].mergedInto = none]
        /\ UNCHANGED <<run, merges>>
    BY <1>8 DEF unmergeCompany
  <2>2. \A x \in Company : company'[x].mergedInto = IF x = l THEN none ELSE company[x].mergedInto
    BY <1>3, <2>1
  <2>3. Tombstones' = Tombstones \ {l} /\ l \in Tombstones
    BY <2>1, <2>2 DEF Tombstones
  <2>4. Cardinality(Tombstones \ {l}) = Cardinality(Tombstones) - 1
    BY <1>1, <2>3, FS_RemoveElement
  <2>5. Cardinality(Tombstones') = Cardinality(Tombstones) - 1
    BY <2>3, <2>4
  <2>6. Cardinality(Tombstones') < merges'
    BY <1>2, <2>1, <2>5 DEF HomeInv
  <2>7. ~ NeverReversed'
    BY <1>2, <1>5, <2>5, <2>6 DEF HomeInv
  <2>8. WritingHome' /\ Homes'
    BY <2>1, <2>7 DEF WritingHome, Homes
  <2> QED BY <1>2, <2>1, <2>5, <2>6, <2>8 DEF HomeInv
<1> QED BY <1>7, <1>8 DEF AdminNext

LEMMA NextHome ==
    ASSUME IngestAssumption, WholeInv, VisibleInv, HomeInv, [SerialNext]_vars
    PROVE  HomeInv'
<1>1. CASE IngestNext
  <2>1. ASSUME NEW r \in Record, upsertCompany(r) PROVE HomeInv'
    BY <2>1, UpsertCompanyHome
  <2>2. ASSUME NEW ks \in SUBSET Key, NEW n \in 0 .. DealCount, breakOff(ks, n) PROVE HomeInv'
    BY <2>2, BreakOffHome
  <2> QED BY <1>1, <2>1, <2>2, TurnsHome, UpsertHome DEF IngestNext
<1>2. CASE run.pc = "idle" /\ AdminNext
  BY <1>2, AdminsHome
<1>3. CASE UNCHANGED vars
  <2>1. UNCHANGED <<company, binding, dealAt, run, merges, failed>>
    BY <1>3 DEF vars, dbVars
  <2>2. Into' = Into /\ Tombstones' = Tombstones /\ (NeverReversed' <=> NeverReversed)
    BY <2>1 DEF Into, Tombstones, NeverReversed
  <2>3. Survivors' = Survivors
    BY <2>2 DEF Survivors
  <2>4. Homes' /\ WritingHome'
    BY <2>1, <2>2, <2>3 DEF HomeInv, Homes, WritingHome, AtHome
  <2> QED BY <2>1, <2>2, <2>4 DEF HomeInv
<1> QED BY <1>1, <1>2, <1>3 DEF SerialNext

\* As long as no merge was taken back, a record that was written without
\* failing is written by the next run to the company its rows are on: the
\* survivor, where it was merged (run: "Idempotent ... re-runs update in
\* place"; loadMatchIndex: "a re-ingest of the loser has to land on the
\* SURVIVOR").
THEOREM RerunsFindTheRecord ==
    ASSUME IngestAssumption
    PROVE  SerialSpec => []RerunsLandAgain
<1>1. Init => WholeInv /\ MovedRows /\ VisibleInv /\ HomeInv
  <2>1. ASSUME moved = [c \in Company |-> Nothing] PROVE MovedRows
    BY <2>1 DEF MovedRows, Nothing
  <2> QED BY <2>1, InitWhole, InitVisible, InitHome DEF Init
<1>2. WholeInv /\ MovedRows /\ VisibleInv /\ HomeInv /\ [SerialNext]_vars =>
         (WholeInv /\ MovedRows /\ VisibleInv /\ HomeInv)'
  BY NextWhole, NextVisible, NextHome
<1>3. VisibleInv /\ HomeInv => RerunsLandAgain
  <2> SUFFICES ASSUME VisibleInv, HomeInv, NeverReversed, NEW r \in Record \ failed,
                      dealAt[<<r, 1>>] # none, NEW m, m = decideCompanyMatch(Loaded, r)
               PROVE  m.kind = "existing" /\ m.company = dealAt[<<r, 1>>]
    BY Zenon DEF RerunsLandAgain
  <2>1. PICK ix \in Index : ix = Loaded /\ IndexKnows(ix, r)
    BY LoadedKnows DEF VisibleInv
  <2>2. m = decideCompanyMatch(ix, r)
    BY <2>1
  <2>3. /\ m.kind = "existing" =>
             \/ m.method = "own" /\ company[r].exists /\ m.company = Survivors[r]
             \/ /\ m.method = "binding" /\ ~ company[r].exists /\ binding[r].status = "RESOLVED"
                /\ m.company = Survivors[binding[r].company]
             \/ m.method \in {"identifier", "domain"} /\ ~ company[r].exists
        /\ binding[r].status # "REVIEW_REQUIRED" /\ (company[r].exists \/ binding[r].status = "RESOLVED") =>
             m.kind = "existing" /\ m.method \in {"own", "binding"}
    <3>1. TreeInv /\ BindingsName /\ r \in Record /\ IndexKnows(ix, r)
      BY <2>1 DEF VisibleInv
    <3> QED BY <2>2, <3>1, Chosen
  <2>4. AtHome(r, dealAt[<<r, 1>>])
    BY DEF HomeInv, Homes
  <2> QED BY <2>3, <2>4 DEF AtHome
<1> QED BY <1>1, <1>2, <1>3, PTL DEF SerialSpec
=============================================================================
