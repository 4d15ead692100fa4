--------------------------- MODULE IngestCompanies ---------------------------
(***************************************************************************)
(* Which company each source record is written to: IngestService.upsert,   *)
(* run after run, beside the merges of the admins (apps/jobs               *)
(* ingest.service.ts, company-matcher.ts, identifier.writer.ts).           *)
(*                                                                         *)
(* A company is named by the record that created it ((externalSource,      *)
(* externalId) is unique) or is one that people contributed.  A record's   *)
(* deals stand for all the rows it writes by their own keys.  Names only   *)
(* propose merge candidates, which Merge models.                           *)
(***************************************************************************)
EXTENDS Naturals, FiniteSets

CONSTANTS
    Record,      \* company records of two sources
    Partner,     \* those of the one whose record ids are identifiers
    LegalId,     \* values of legal identifiers (CIK, QID, ...)
    Number,      \* those that are Companies House numbers
    Domain,
    Contributed, \* companies that people contributed
    none,
    DealCount,   \* bound: deals of a record
    MaxMerges,   \* bound: merges
    MaxFailures  \* bound: records that fail and runs that die

IngestAssumption ==
    /\ IsFiniteSet(Record) /\ IsFiniteSet(Contributed)
    /\ Partner \subseteq Record /\ Number \subseteq LegalId
    /\ Partner \cap (LegalId \cup Domain) = {} /\ LegalId \cap Domain = {}
    /\ none \notin Record \cup Contributed \cup Domain \cup LegalId
    /\ DealCount \in Nat \ {0} /\ MaxMerges \in Nat /\ MaxFailures \in Nat

VARIABLES
    stated,    \* what each record says of its company
    reported,  \* how many deals each record has
    company,   \* the Company rows
    ident,     \* EntityIdentifier: the company that holds each value
    binding,   \* CompanyIngestBinding of each record
    dealAt,    \* companyId of each record's deals
    moved,     \* what the open merge of a tombstone moved
    index,     \* the MatchIndex of the run
    run,       \* the run in progress
    merges, failures,
    failed     \* records that failed after their first write

dbVars == <<company, ident, binding, dealAt>>
vars == <<stated, reported, dbVars, moved, index, run, merges, failures, failed>>

Company == Record \cup Contributed
Key == LegalId \cup Domain \cup Partner
Deal == Record \X (1 .. DealCount)
Unbound == [status |-> "NONE", company |-> none]
Binding == [status : {"NONE", "RESOLVED", "REVIEW_REQUIRED"}, company : Company \cup {none}]
Method == {none, "own", "binding", "identifier", "domain", "created"}
Nothing == [deals |-> {}, keys |-> {}]
Index == [byKey : [Record -> Company \cup {none}], byIdentifier : [Key -> Company \cup {none}],
          holders : [Domain -> SUBSET Company], bindings : [Record -> Binding],
          numbers : SUBSET (Company \X Number)]
NoIndex == [byKey |-> [r \in Record |-> none], byIdentifier |-> [k \in Key |-> none],
            holders |-> [d \in Domain |-> {}], bindings |-> [r \in Record |-> Unbound],
            numbers |-> {}]
NoRun == [pc |-> "idle", todo |-> {}, record |-> none, company |-> none, method |-> none]

TypeOK ==
    /\ stated \in [Record -> [legal : SUBSET LegalId, domain : Domain \cup {none}]]
    /\ reported \in [Record -> 1 .. DealCount]
    /\ company \in [Company -> [exists : BOOLEAN, domain : Domain \cup {none},
                                mergedInto : Company \cup {none}]]
    /\ ident \in [Key -> Company \cup {none}]
    /\ binding \in [Record -> Binding]
    /\ dealAt \in [Deal -> Company \cup {none}]
    /\ moved \in [Company -> [deals : SUBSET Deal, keys : SUBSET Key]]
    /\ index \in Index
    /\ run \in [pc : {"idle", "next", "writing"}, todo : SUBSET Record,
                record : Record \cup {none}, company : Company \cup {none}, method : Method]
    /\ \A k \in Key : ident[k] # none => company[ident[k]].exists
    /\ \A x \in Deal : dealAt[x] # none => company[dealAt[x]].exists

----------------------------------------------------------------------------
(* Merged rows and what a run reads of them. *)

Live(c) == company[c].exists /\ company[c].mergedInto = none

\* survivorOf: the live row a company resolves to.
Hop[n \in 0 .. Cardinality(Company)] ==
    [c \in Company |-> IF n = 0 \/ company[c].mergedInto = none THEN c
                       ELSE Hop[n - 1][company[c].mergedInto]]
survivorOf(c) == Hop[Cardinality(Company)][c]

resolved(c) == IF c = none THEN none ELSE survivorOf(c)

\* The rows a source stated a domain of, or that hold it as an identifier.
HasDomain(c, d) == (company[c].exists /\ company[c].domain = d) \/ ident[d] = c

\* loadMatchIndex, loadBindings, loadIdentifiers.
Loaded ==
    [byKey |-> [r \in Record |-> IF company[r].exists THEN resolved(r) ELSE none],
     byIdentifier |-> [k \in Key |-> resolved(ident[k])],
     holders |-> [d \in Domain |-> {resolved(c) : c \in {x \in Company : HasDomain(x, d)}}],
     bindings |-> [r \in Record |-> [binding[r] EXCEPT !.company = resolved(@)]],
     numbers |-> {<<resolved(ident[n]), n>> : n \in {m \in Number : ident[m] # none}}]

----------------------------------------------------------------------------
(* decideCompanyMatch, on an index and fresh evidence about its candidates. *)

Existing(c, method) == [kind |-> "existing", company |-> c, method |-> method]
Create == [kind |-> "create", company |-> none, method |-> "created"]
Hold == [kind |-> "hold", company |-> none, method |-> none]
Conflict == [kind |-> "conflict", company |-> none, method |-> none]

\* candidateEvidence: the record ids a row holds, and those among them that
\* neither its own key nor a binding confirms.
RecordIds(c) == {p \in Partner : ident[p] = c}
UnresolvedAliases(ix, c) ==
    {p \in RecordIds(c) \ {c} : ix.bindings[p] # [status |-> "RESOLVED", company |-> c]}

\* Mutant: records of one source may share a domain match.
holdsNoOther(c, r) == FALSE

\* Whether c holds another record of r's source: it was created from one, or
\* it holds another's record id.
holdsOtherRecord(c, r) ==
    \/ c \in Record \ {r} /\ (c \in Partner <=> r \in Partner)
    \/ r \in Partner /\ RecordIds(c) \ {r} # {}

\* A Companies House number of the row, and whether it is not the record's.
NumbersOf(ix, c) ==
    LET held == {n \in Number : ident[n] = c}
    IN  IF held # {} THEN held ELSE {n \in Number : <<c, n>> \in ix.numbers}
NumberDiffers(ix, r, c) ==
    /\ stated[r].legal \cap Number # {} /\ NumbersOf(ix, c) # {}
    /\ (CHOOSE n \in NumbersOf(ix, c) : TRUE) \notin stated[r].legal

\* Rule 4: the one company the legal identifiers name.
ByIdentifier(ix, r, c) ==
    IF ~ Live(c) THEN Create
    ELSE IF NumberDiffers(ix, r, c) THEN Conflict ELSE Existing(c, "identifier")

\* Rule 6: the one live company that holds the domain.
ByDomain(ix, r, c) ==
    IF holdsOtherRecord(c, r) \/ NumberDiffers(ix, r, c) THEN Create
    ELSE IF UnresolvedAliases(ix, c) # {} THEN Hold ELSE Existing(c, "domain")

decideCompanyMatch(ix, r) ==
    LET bound == ix.bindings[r]
        legal == {ix.byIdentifier[k] : k \in stated[r].legal} \ {none}
        alias == {ix.byIdentifier[k] : k \in {r} \cap Partner} \ {none}
        holders == {c \in UNION {ix.holders[d] : d \in {stated[r].domain} \ {none}} : Live(c)}
    IN  IF bound.status = "REVIEW_REQUIRED" THEN Hold
        ELSE IF ix.byKey[r] # none THEN Existing(ix.byKey[r], "own")
        ELSE IF bound.status = "RESOLVED"
             THEN IF Live(bound.company) THEN Existing(bound.company, "binding") ELSE Hold
        ELSE IF Cardinality(legal) > 1 THEN Conflict
        ELSE IF alias # {} THEN IF legal \subseteq alias THEN Hold ELSE Conflict
        ELSE IF legal # {} THEN ByIdentifier(ix, r, CHOOSE c \in legal : TRUE)
        ELSE IF Cardinality(holders) = 1 THEN ByDomain(ix, r, CHOOSE c \in holders : TRUE)
        ELSE Create

\* Mutant: where the record's deals already are is not asked.
noClash(r, c) == FALSE

\* childOwnerClash: a row the record would write by its key is elsewhere.
childOwnerClash(r, c) ==
    \E x \in {r} \X (1 .. reported[r]) : dealAt[x] \notin {none, c}

----------------------------------------------------------------------------
(* A run: the index, then one record after another. *)

\* Every source states what it will; some contributed companies exist.
Init ==
    /\ stated \in [Record -> [legal : SUBSET LegalId, domain : Domain \cup {none}]]
    /\ \A r \in Record : Cardinality(stated[r].legal \cap Number) <= 1
    /\ reported = [r \in Record |-> 1]
    /\ \E there \in SUBSET Contributed, d \in Domain \cup {none} :
         company = [c \in Company |-> [exists |-> c \in there, mergedInto |-> none,
                                      domain |-> IF c \in there THEN d ELSE none]]
    /\ ident = [k \in Key |-> none]
    /\ binding = [r \in Record |-> Unbound]
    /\ dealAt = [x \in Deal |-> none]
    /\ moved = [c \in Company |-> Nothing]
    /\ index = NoIndex /\ run = NoRun
    /\ merges = 0 /\ failures = 0 /\ failed = {}

\* run: the match index is loaded once; the records of the sources it names
\* follow.
start(source) ==
    /\ run.pc = "idle" /\ source # {}
    /\ index' = Loaded
    /\ run' = [NoRun EXCEPT !.pc = "next", !.todo = source]
    /\ UNCHANGED <<stated, reported, dbVars, moved, merges, failures, failed>>

Done(r) == [NoRun EXCEPT !.pc = "next", !.todo = run.todo \ {r}]

\* r is about to write what hangs off c.
Writing(r, c, method) ==
    [pc |-> "writing", todo |-> run.todo \ {r}, record |-> r, company |-> c, method |-> method]

\* recordConflict: a hold that lasts.
recordConflict(r) ==
    /\ binding' = [binding EXCEPT ![r] = [status |-> "REVIEW_REQUIRED", company |-> none]]
    /\ index' = [index EXCEPT !.bindings[r] = [status |-> "REVIEW_REQUIRED", company |-> none]]
    /\ run' = Done(r)
    /\ UNCHANGED company

\* enrich: a blank domain is filled.  The own row's is not touched.
updateCompany(r, m) ==
    /\ company' = IF m.method # "own" /\ company[m.company].domain = none
                  THEN [company EXCEPT ![m.company].domain = stated[r].domain] ELSE company
    /\ run' = Writing(r, m.company, m.method)
    /\ UNCHANGED <<binding, index>>

\* prisma.company.create, and the index learns of it.
createCompany(r) ==
    /\ company' = [company EXCEPT ![r].exists = TRUE, ![r].domain = stated[r].domain]
    /\ index' = [index EXCEPT !.byKey[r] = r,
                   !.holders = [d \in Domain |-> IF d = stated[r].domain
                                                 THEN @[d] \cup {r} ELSE @[d]]]
    /\ run' = Writing(r, r, "created")
    /\ UNCHANGED binding

\* upsertCompany.
upsertCompany(r) ==
    LET m == decideCompanyMatch(index, r)
    IN  /\ run.pc = "next" /\ r \in run.todo
        /\ r \in Partner => run.todo \subseteq Partner
        /\ IF m.kind = "conflict" THEN recordConflict(r)
           ELSE IF m.kind = "hold" \/ childOwnerClash(r, m.company)
                THEN run' = Done(r) /\ UNCHANGED <<company, binding, index>>
           ELSE IF m.kind = "existing" THEN updateCompany(r, m) ELSE createCompany(r)
        /\ UNCHANGED <<stated, reported, ident, dealAt, moved, merges, failures, failed>>

\* writeIdentifiers of some values: one that another company holds stays
\* there (and the pair becomes a candidate).
writeIdentifiers(ks, c) ==
    ident' = [k \in Key |-> IF k \in ks /\ ident[k] = none THEN c ELSE ident[k]]

\* What the index learns of them.
Learned(ks, c) ==
    LET written == {k \in ks : ident[k] = none}
    IN  [index EXCEPT
           !.byIdentifier = [k \in Key |-> IF k \in written THEN c ELSE @[k]],
           !.holders = [d \in Domain |-> IF d \in written THEN @[d] \cup {c} ELSE @[d]],
           !.numbers = IF \E n \in Number : <<c, n>> \in @ THEN @
                       ELSE @ \cup ({c} \X (ks \cap Number))]

\* fundingRound.upsert by the deals' own keys: an update leaves companyId.
writeDeals(xs, c) ==
    dealAt' = [x \in Deal |-> IF x \in xs /\ dealAt[x] = none THEN c ELSE dealAt[x]]

\* Mutant: a match by domain is not recorded.
bindsIdentifier(method) == method = "identifier"

\* The matches that are recorded, once all is written.
binds(method) == method \in {"identifier", "domain"}

\* The record's identifiers, the domain last; its deals; its binding.
Identifiers(r) == stated[r].legal \cup ({r} \cap Partner) \cup ({stated[r].domain} \ {none})
Deals(r) == {r} \X (1 .. reported[r])

\* upsert, to the end.
upsert ==
    LET r == run.record
        c == run.company
        b == [status |-> "RESOLVED", company |-> c]
        bound == IF binds(run.method) THEN {r} ELSE {}
    IN  /\ run.pc = "writing"
        /\ writeIdentifiers(Identifiers(r), c)
        /\ index' = [Learned(Identifiers(r), c) EXCEPT
                       !.bindings = [x \in Record |-> IF x \in bound THEN b ELSE @[x]]]
        /\ writeDeals(Deals(r), c)
        /\ binding' = [x \in Record |-> IF x \in bound THEN b ELSE binding[x]]
        /\ run' = Done(r)
        /\ UNCHANGED <<stated, reported, company, moved, merges, failures, failed>>

\* A statement of it throws (run() logs it and goes on with the next record)
\* or the worker dies there: some identifiers and then some deals were
\* written, perhaps all, and no binding.
breakOff(ks, n) ==
    LET r == run.record
    IN  /\ run.pc = "writing"
        /\ ks \subseteq Identifiers(r) /\ n \in 0 .. reported[r]
        /\ stated[r].domain \in ks \/ n > 0 => ks = Identifiers(r)
        /\ failures < MaxFailures
        /\ failures' = failures + 1
        /\ failed' = failed \cup {r}
        /\ writeDeals({r} \X (1 .. n), run.company)
        /\ writeIdentifiers(ks, run.company)
        /\ \/ index' = Learned(ks, run.company) /\ run' = Done(r)
           \/ index' = NoIndex /\ run' = NoRun
        /\ UNCHANGED <<stated, reported, company, binding, moved, merges>>

finish ==
    /\ run.pc = "next" /\ run.todo = {}
    /\ index' = NoIndex /\ run' = NoRun
    /\ UNCHANGED <<stated, reported, dbVars, moved, merges, failures, failed>>

----------------------------------------------------------------------------
(* Between the runs, and during them. *)

\* A source publishes another deal of a record.
report(r) ==
    /\ run.pc = "idle"
    /\ reported[r] < DealCount
    /\ reported' = [reported EXCEPT ![r] = @ + 1]
    /\ UNCHANGED <<stated, dbVars, moved, index, run, merges, failures, failed>>

\* Mutant: the deals stay on the loser.
mergeCompanyLeavingDeals(s, l) ==
    /\ s # l /\ Live(s) /\ Live(l)
    /\ merges < MaxMerges
    /\ merges' = merges + 1
    /\ moved' = [moved EXCEPT ![l] = [deals |-> {}, keys |-> {k \in Key : ident[k] = l}]]
    /\ ident' = [k \in Key |-> IF ident[k] = l THEN s ELSE ident[k]]
    /\ company' = [company EXCEPT ![l].mergedInto = s]
    /\ UNCHANGED <<stated, reported, dealAt, binding, index, run, failures, failed>>

\* MergeService.mergeCompany: what hangs off the loser moves.
mergeCompany(s, l) ==
    /\ s # l /\ Live(s) /\ Live(l)
    /\ merges < MaxMerges
    /\ merges' = merges + 1
    /\ moved' = [moved EXCEPT ![l] = [deals |-> {x \in Deal : dealAt[x] = l},
                                     keys |-> {k \in Key : ident[k] = l}]]
    /\ dealAt' = [x \in Deal |-> IF dealAt[x] = l THEN s ELSE dealAt[x]]
    /\ ident' = [k \in Key |-> IF ident[k] = l THEN s ELSE ident[k]]
    /\ company' = [company EXCEPT ![l].mergedInto = s]
    /\ UNCHANGED <<stated, reported, binding, index, run, failures, failed>>

\* unmergeCompany: exactly that goes back.
unmergeCompany(l) ==
    /\ company[l].mergedInto # none /\ Live(company[l].mergedInto)
    /\ dealAt' = [x \in Deal |-> IF x \in moved[l].deals THEN l ELSE dealAt[x]]
    /\ ident' = [k \in Key |-> IF k \in moved[l].keys THEN l ELSE ident[k]]
    /\ company' = [company EXCEPT ![l].mergedInto = none]
    /\ moved' = [moved EXCEPT ![l] = Nothing]
    /\ UNCHANGED <<stated, reported, binding, index, run, merges, failures, failed>>

IngestNext ==
    \/ upsert \/ finish
    \/ \E r \in Record : upsertCompany(r) \/ report(r)
    \/ \E source \in {Record, Partner, Record \ Partner} : start(source)
    \/ \E ks \in SUBSET Key, n \in 0 .. DealCount : breakOff(ks, n)
AdminNext == \E c \in Company : unmergeCompany(c) \/ \E l \in Company : mergeCompany(c, l)

Next == IngestNext \/ AdminNext
Spec == Init /\ [][Next]_vars

\* Admins who wait for a run to end.
SerialNext == IngestNext \/ (run.pc = "idle" /\ AdminNext)
SerialSpec == Init /\ [][SerialNext]_vars

----------------------------------------------------------------------------
(* Properties. *)

\* Every row ingest wrote hangs off a company people can see (loadMatchIndex:
\* "matching onto it would write to a row nobody can see").
DealsAreVisible == \A x \in Deal : dealAt[x] # none => Live(dealAt[x])

\* Only the reversal of a merge, never a run, leaves one record's rows on two
\* companies (childOwnerClash: "such a record is held whole rather than
\* written half on each company").
Split(r) ==
    \E x, y \in {r} \X (1 .. DealCount) : dealAt[x] # dealAt[y] /\ none \notin {dealAt[x], dealAt[y]}
NeverSplits ==
    \A r \in Record : Split(r)' /\ ~ Split(r) =>
        \E c \in Company : company[c].mergedInto # none /\ company'[c].mergedInto = none
RecordsStayWhole == [][NeverSplits]_vars

\* A record that was written without failing is found again: the next run
\* writes it to the company its rows are on, after any merges of it
\* (run: "Idempotent ... re-runs update in place"; loadMatchIndex: "a
\* re-ingest of the loser has to land on the SURVIVOR").
NeverReversed == merges = Cardinality({c \in Company : company[c].mergedInto # none})
RerunsLandAgain ==
    run.pc = "idle" /\ NeverReversed =>
        \A r \in Record \ failed : dealAt[<<r, 1>>] # none =>
            LET m == decideCompanyMatch(Loaded, r)
            IN  m.kind = "existing" /\ m.company = dealAt[<<r, 1>>]

\* Two records of the partner, which says they are two companies, share a
\* company only on the evidence of a legal identifier (company-matcher.ts:
\* a domain associates "unless that company already holds a different record
\* of the same source").
Routed(c) == {p \in Partner : dealAt[<<p, 1>>] = c}
JoinedOnLegalEvidence ==
    merges = 0 => \A c \in Company, p, q \in Partner :
        p # q /\ {p, q} \subseteq Routed(c) =>
            \E r \in {p, q} \ {c} : \E k \in stated[r].legal : ident[k] = c
=============================================================================
