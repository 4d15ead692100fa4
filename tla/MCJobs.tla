------------------------------- MODULE MCJobs -------------------------------
(***************************************************************************)
(* The background jobs for TLC, one per behaviour (part): the repair of    *)
(* company matches, the companies the ingest writes to, and the website    *)
(* enrichment.  The variables of the other parts stay at one initial value.*)
(* The latter two are instantiated with their theorems, so that those can  *)
(* be cited of the run.                                                    *)
(***************************************************************************)
EXTENDS CompanyRepair, TLC

CONSTANTS
    p1, p2, r1,               \* records, the first two the partner's
    given,                    \* a contributed company
    legal1,                   \* a legal identifier
    number1, number2,         \* Companies House numbers
    domain1, site1, tech1     \* a domain, a site and a technology

VARIABLES
    part,
    stated, reported, company, ident, binding, dealAt, movedRows, index, ingestRun,
    merges, failures, failed,
    site, stamp, mergedInto, scan, seen, movedScans, cursor, job, week, version, scanMerges,
    ruled, missed

\* Two records of the partner and one of another source; p1 or r1 has a
\* second deal later.
Companies == INSTANCE IngestCompaniesProofs WITH
    Record <- {p1, p2, r1}, Partner <- {p1, p2}, 
    LegalId <- {legal1, number1, number2}, Number <- {number1, number2}, Domain <- {domain1}, Contributed <- {given}, DealCount <- 2, MaxMerges <- 1, MaxFailures <- 1,
    moved <- movedRows, run <- ingestRun

\* Two companies whose scans meet at one site.
Web == INSTANCE WebsiteEnrichmentProofs WITH
    CompanyCount <- 2, Site <- {site1}, Technology <- {tech1}, Page <- 1, Limit <- 1,
    Refresh <- 0, Expiry <- 1, MaxWeek <- 1, MaxVersion <- 1, MaxEdits <- 1, MaxMerges <- 1,
    moved <- movedScans, merges <- scanMerges

ASSUME PartsAssumption == Companies!IngestAssumption /\ Web!EnrichmentAssumption

ingestVars == <<stated, reported, company, ident, binding, dealAt, movedRows, index, ingestRun,
                merges, failures, failed>>
webVars == <<site, stamp, mergedInto, scan, seen, movedScans, cursor, job, week, version,
             scanMerges, ruled, missed>>
allVars == <<part, vars, ingestVars, webVars>>

\* One initial state of each part, for the behaviours that leave it alone.
ingestAtRest ==
    /\ Companies!Init
    /\ stated = [r \in {p1, p2, r1} |-> [legal |-> {}, domain |-> none]]
    /\ ~ company[given].exists /\ company[given].domain = none
webAtRest == Web!Init /\ site = [c \in 1 .. 2 |-> none]

\* All records name the domain of the contributed company.
AllMeet ==
    company[given].exists /\ \A r \in {p1, p2, r1} : stated[r] = [legal |-> {}, domain |-> domain1]

\* Two records meet at a legal identifier or a domain, with different numbers.
NumbersDiffer ==
    /\ ~ company[given].exists /\ stated[p2] = [legal |-> {}, domain |-> none]
    /\ \E shared \in {{}, {legal1}}, d \in {none, domain1} :
         /\ shared = {} <=> d = domain1
         /\ stated[p1] = [legal |-> shared \cup {number1}, domain |-> d]
         /\ stated[r1] = [legal |-> shared \cup {number2}, domain |-> d]

\* The records say, and the companies there are say, three things in all; or
\* one record names the companies of the two others; or all meet; or two do.
Says(r) == Cardinality(stated[r].legal) + Cardinality({stated[r].domain} \ {none})
FewStatements ==
    \/ AllMeet /\ company[given].domain = domain1
    \/ NumbersDiffer
    \/ /\ \A r \in {p1, p2, r1} : number2 \notin stated[r].legal
       /\ Says(p1) + Says(p2) + Says(r1) + (IF company[given].exists THEN 1 ELSE 0) <= 3
    \/ /\ ~ company[given].exists /\ \A r \in {p1, p2, r1} : stated[r].domain = none
       /\ stated[p1].legal = {legal1} /\ stated[p2].legal = {number1} /\ stated[r1].legal = {legal1, number1}

MCInit ==
    \/ part = "repair" /\ Init /\ ingestAtRest /\ webAtRest
    \/ part = "ingest" /\ Init /\ Companies!Init /\ FewStatements /\ webAtRest
    \/ part = "web" /\ Init /\ ingestAtRest /\ Web!Init /\ site[2] = site1

\* A merge or a failure, not both; one edit or deployment, or a merge with its
\* reversal or an edit of the row merged away before.
FewFaults ==
    failures + merges <= 1 /\ reported[p2] = 1 /\ reported[IF AllMeet THEN p1 ELSE r1] = 1
FewChanges ==
    LET stamps == stamp[1] + stamp[2]
    IN  IF scanMerges = 1 THEN version = 0 /\ 0 \in {stamp[1], stamp[2]} /\ stamps <= 2
                          ELSE version + stamps <= 1

MCNext ==
    /\ part' = part
    /\ \/ part = "repair" /\ Next /\ UNCHANGED <<ingestVars, webVars>>
       \/ /\ part = "ingest"
          /\ Companies!SerialNext /\ FewFaults'
          /\ UNCHANGED <<vars, webVars>>
       \/ /\ part = "web"
          /\ Web!Next /\ FewChanges'
          /\ UNCHANGED <<vars, ingestVars>>

MCSpec == MCInit /\ [][MCNext]_allVars

Symmetry == Permutations(Cli)

----------------------------------------------------------------------------
(* The properties of the parts, by the names they have there. *)

\* Every part keeps its types.
TypesOK ==
    /\ part = "repair" => TypeOK
    /\ part = "ingest" => Companies!TypeOK
    /\ part = "web" => Web!TypeOK

\* IngestCompanies, admins waiting for runs to end: what ingest wrote hangs
\* off a company people can see.
DealsAreVisible == part = "ingest" => Companies!DealsAreVisible

\* IngestCompanies: no run leaves one record's rows on two companies.
RecordsStayWhole == [][part = "ingest" => Companies!NeverSplits]_allVars

\* IngestCompanies: a record that was written is written to the same company
\* again.
RerunsLandAgain == part = "ingest" => Companies!RerunsLandAgain

\* IngestCompanies: two partner records share a company only on a legal
\* identifier.
JoinedOnLegalEvidence == part = "ingest" => Companies!JoinedOnLegalEvidence

\* WebsiteEnrichment: what an operator suppressed stays hidden.
SuppressedStaysHidden == part = "web" => Web!SuppressedStaysHidden

\* WebsiteEnrichment: a technology is retired on two comparable absences.
RetiredOnTwoAbsences == part = "web" => Web!RetiredOnTwoAbsences
=============================================================================
