-------------------------- MODULE WebsiteEnrichment --------------------------
(***************************************************************************)
(* The technologies seen on the websites of companies (apps/jobs           *)
(* website-enrichment.service.ts): scans that are elected, fetched and     *)
(* filed by a job, beside admins who edit and merge the companies and      *)
(* operators who suppress what was detected; and what a profile then shows *)
(* (apps/api company-technology.reader.ts).                                *)
(*                                                                         *)
(* A scan is created for a company and a site, its key, and keeps the key  *)
(* when a merge moves it.  A site stands for the canonical target of a     *)
(* company, none for a company that has none or is not approved.           *)
(***************************************************************************)
EXTENDS Naturals, FiniteSets

CONSTANTS
    CompanyCount, \* companies of the cohort, in the order of their ids
    Site,
    Technology,
    none,
    Page,         \* companies of one discovery page
    Limit,        \* scans of one run
    Refresh,      \* weeks until a scan is due again (0: some days)
    Expiry,       \* weeks an observation is shown
    MaxWeek, MaxVersion, MaxEdits, MaxMerges \* bounds

EnrichmentAssumption ==
    /\ CompanyCount \in Nat /\ IsFiniteSet(Site) /\ none \notin Site
    /\ {Page, Limit} \subseteq Nat \ {0}
    /\ {Refresh, Expiry, MaxWeek, MaxVersion, MaxEdits, MaxMerges} \subseteq Nat

VARIABLES
    site, stamp, mergedInto, \* of the Company rows; stamp stands for updatedAt
    scan,    \* CompanyWebsiteScan, by key: its owner, its order of creation, nextAttemptAt
    seen,    \* CompanyTechnology, by scan and technology
    moved,   \* the scans the open merge of a tombstone moved
    cursor,  \* EnrichmentCursor: the last company discovered
    job,     \* the run
    week, version, merges,
    ruled,   \* history: what operators suppressed for a company and a site
    missed   \* history: when a scan last did not find what it once found

companyVars == <<site, stamp, mergedInto, merges>>
vars == <<companyVars, scan, seen, moved, cursor, job, week, version, ruled, missed>>

Company == 1 .. CompanyCount
Key == Company \X Site
Nobody == 0
Unscanned == [at |-> Nobody, born |-> 0, due |-> 0]
Unseen == [seen |-> FALSE, last |-> 0, version |-> 0, absences |-> 0, absentAt |-> 0,
           retired |-> FALSE, suppressed |-> FALSE]
NoJob == [pc |-> "idle", todo |-> {}, key |-> none, owner |-> Nobody, stamp |-> 0]
Stamp == 0 .. MaxEdits + 2 * MaxMerges

TypeOK ==
    /\ site \in [Company -> Site \cup {none}] /\ stamp \in [Company -> Stamp]
    /\ mergedInto \in [Company -> Company \cup {Nobody}]
    /\ scan \in [Key -> [at : Company \cup {Nobody}, born : 0 .. Cardinality(Key), due : Nat]]
    /\ seen \in [Key -> [Technology -> [seen : BOOLEAN, last : 0 .. MaxWeek,
                    version : 0 .. MaxVersion, absences : 0 .. 2, absentAt : 0 .. MaxWeek,
                    retired : BOOLEAN, suppressed : BOOLEAN]]]
    /\ moved \in [Company -> SUBSET Key]
    /\ cursor \in Company \cup {Nobody}
    /\ job \in [pc : {"idle", "discovered", "next", "fetching"}, todo : SUBSET (Key \X Company),
                key : Key \cup {none}, owner : Company \cup {Nobody}, stamp : Stamp]
    /\ ruled \subseteq Key \X Technology
    /\ \A k \in Key : scan[k].at # Nobody => mergedInto[scan[k].at] = Nobody

----------------------------------------------------------------------------
(* Scans. *)

\* eligible: the target of a live company.
eligible(c) == IF mergedInto[c] = Nobody THEN site[c] ELSE none

\* The scans of one owner and target, and the oldest of them.
Group(c, s) == {k \in Key : scan[k].at = c /\ k[2] = s}
Elected(c, s) == {k \in Group(c, s) : \A j \in Group(c, s) : scan[k].born <= scan[j].born}

\* ensureScan: the elected scan, or a new one unless the key is taken.
Missing == {c \in Company : eligible(c) # none /\ Group(c, eligible(c)) = {}}
ensureScans(cs) ==
    LET keys == {<<c, site[c]>> : c \in cs \cap Missing}
        fresh == {k \in keys : scan[k].at = Nobody}
        Order(k) == Cardinality({j \in Key : scan[j].at # Nobody})
                      + Cardinality({j \in fresh : j[1] <= k[1]})
    IN  scan' = [k \in Key |-> IF k \in fresh
                               THEN [at |-> k[1], born |-> Order(k), due |-> week] ELSE scan[k]]

\* discover: one page of live companies after the cursor, which then follows.
\* (Each scan is a transaction that asks its company again; the page is one
\* step here.)
FirstOf(cs, n) == {c \in cs : Cardinality({d \in cs : d < c}) < n}
Rows == FirstOf({c \in Company : c > cursor /\ mergedInto[c] = Nobody}, Page)
discover ==
    /\ job.pc = "idle"
    /\ ensureScans(Rows)
    /\ cursor' = IF Cardinality(Rows) = Page THEN CHOOSE c \in Rows : \A d \in Rows : d <= c
                                             ELSE Nobody
    /\ job' = [NoJob EXCEPT !.pc = "discovered"]
    /\ UNCHANGED <<companyVars, seen, moved, week, version, ruled, missed>>

\* The deadline or the death of the process in the middle of a page: some
\* scans were created, the cursor stays.
breakOff(n) ==
    /\ job.pc = "idle"
    /\ n < Cardinality(Rows) /\ ensureScans(FirstOf(Rows, n))
    /\ UNCHANGED <<companyVars, seen, moved, cursor, job, week, version, ruled, missed>>

\* selectDueScans: of the elected scans of current targets, the first due.
Due == {k \in UNION {Elected(c, eligible(c)) : c \in Company} : scan[k].due <= week}
selectDueScans(batch) ==
    /\ job.pc = "discovered"
    /\ batch \subseteq Due
    /\ Cardinality(batch) = IF Cardinality(Due) < Limit THEN Cardinality(Due) ELSE Limit
    /\ \A k \in batch, j \in Due \ batch : scan[k].due <= scan[j].due
    /\ job' = [NoJob EXCEPT !.pc = "next", !.todo = {<<k, scan[k].at>> : k \in batch}]
    /\ UNCHANGED <<companyVars, scan, seen, moved, cursor, week, version, ruled, missed>>

\* The owner the batch read is asked again, and its page is fetched ...
fetch(k, c) ==
    LET rest == job.todo \ {<<k, c>>}
    IN  /\ job.pc = "next" /\ <<k, c>> \in job.todo
        /\ job' = IF eligible(c) = k[2]
                  THEN [pc |-> "fetching", todo |-> rest, key |-> k, owner |-> c, stamp |-> stamp[c]]
                  ELSE [job EXCEPT !.todo = rest]
        /\ UNCHANGED <<companyVars, scan, seen, moved, cursor, week, version, ruled, missed>>

finish ==
    /\ job.pc # "idle" /\ (job.pc = "next" => job.todo = {})
    /\ job' = NoJob
    /\ UNCHANGED <<companyVars, scan, seen, moved, cursor, week, version, ruled, missed>>

----------------------------------------------------------------------------
(* Results. *)

\* A row that is found again starts afresh; its suppression stays.
Found(o) == [o EXCEPT !.seen = TRUE, !.last = week, !.version = version,
                      !.absences = 0, !.absentAt = 0, !.retired = FALSE]

\* Mutant: every successful scan that does not find it counts.
eachCounts(o) == o.seen /\ ~ o.retired /\ o.version = version

\* One absence counts a week, under the rules that found it.
counts(o) ==
    /\ o.seen /\ ~ o.retired /\ o.version = version
    /\ o.absences > 0 => o.absentAt < week

Absent(o) == [o EXCEPT !.absences = @ + 1, !.absentAt = week, !.retired = (o.absences = 1)]

\* ... persistResult: filed unless the company or the election changed since.
Current(k, c) == eligible(c) = k[2] /\ stamp[c] = job.stamp /\ k \in Elected(c, k[2])

\* On to the next scan of the batch.
Filed == [NoJob EXCEPT !.pc = "next", !.todo = job.todo]

persistSuccess(found) ==
    LET k == job.key
        lost == {t \in Technology \ found : seen[k][t].seen}
    IN  /\ job.pc = "fetching"
        /\ job' = Filed
        /\ IF Current(k, job.owner)
           THEN /\ seen' = [seen EXCEPT ![k] = [t \in Technology |->
                                IF t \in found THEN Found(@[t])
                                ELSE IF counts(@[t]) THEN Absent(@[t]) ELSE @[t]]]
                /\ scan' = [scan EXCEPT ![k].due = week + Refresh]
                /\ missed' = [missed EXCEPT ![k] = [t \in Technology |->
                                IF t \in found THEN {}
                                ELSE IF t \in lost /\ eligible(scan[k].at) = k[2]
                                THEN @[t] \cup {<<week, version>>} ELSE @[t]]]
           ELSE UNCHANGED <<seen, scan, missed>>
        /\ UNCHANGED <<companyVars, moved, cursor, week, version, ruled>>

\* Retried after hours at first and then after a week, refused sites later.
persistFailure(delay) ==
    LET k == job.key
    IN  /\ job.pc = "fetching"
        /\ job' = Filed
        /\ scan' = IF Current(k, job.owner) THEN [scan EXCEPT ![k].due = week + delay] ELSE scan
        /\ UNCHANGED <<companyVars, seen, moved, cursor, week, version, ruled, missed>>

----------------------------------------------------------------------------
(* Operators and admins. *)

\* suppress, under the ingest lock: all rows of the group.
suppress(k, t, on) ==
    LET c == scan[k].at
        rows == {j \in Group(c, k[2]) : seen[j][t].seen}
    IN  /\ job.pc = "idle" /\ c # Nobody /\ rows # {}
        /\ seen' = [j \in Key |-> IF j \in rows THEN [seen[j] EXCEPT ![t].suppressed = on]
                                  ELSE seen[j]]
        /\ ruled' = IF on THEN ruled \cup {<<<<c, k[2]>>, t>>}
                          ELSE ruled \ {<<<<c, k[2]>>, t>>}
        /\ UNCHANGED <<companyVars, scan, moved, cursor, job, week, version, missed>>

\* The website is corrected or the row is otherwise updated.
updateCompany(c, s) ==
    /\ stamp[c] < MaxEdits
    /\ site' = [site EXCEPT ![c] = s]
    /\ stamp' = [stamp EXCEPT ![c] = @ + 1]
    /\ UNCHANGED <<mergedInto, merges, scan, seen, moved, cursor, job, week, version, ruled, missed>>

\* MergeService: scans move to the survivor, keys and all ...
mergeCompany(s, l) ==
    /\ s # l /\ mergedInto[s] = Nobody /\ mergedInto[l] = Nobody /\ merges < MaxMerges
    /\ merges' = merges + 1
    /\ mergedInto' = [mergedInto EXCEPT ![l] = s]
    /\ stamp' = [stamp EXCEPT ![l] = @ + 1]
    /\ moved' = [moved EXCEPT ![l] = {k \in Key : scan[k].at = l}]
    /\ scan' = [k \in Key |-> IF scan[k].at = l THEN [scan[k] EXCEPT !.at = s] ELSE scan[k]]
    /\ ruled' = ruled \cup {<<<<s, x[1][2]>>, x[2]>> : x \in {y \in ruled : y[1][1] = l}}
    /\ UNCHANGED <<site, seen, cursor, job, week, version, missed>>

\* ... and back, with what was suppressed on them.  The rules for the groups
\* this divides end; those of the survivor's other sites stand.
unmergeCompany(l) ==
    LET s == mergedInto[l]
    IN  /\ s # Nobody /\ mergedInto[s] = Nobody
        /\ mergedInto' = [mergedInto EXCEPT ![l] = Nobody]
        /\ stamp' = [stamp EXCEPT ![l] = @ + 1]
        /\ moved' = [moved EXCEPT ![l] = {}]
        /\ scan' = [k \in Key |-> IF k \in moved[l] THEN [scan[k] EXCEPT !.at = l] ELSE scan[k]]
        /\ ruled' = {x \in ruled : /\ x[1][1] # l
                                   /\ x[1][1] = s => \A k \in moved[l] : k[2] # x[1][2]}
        /\ UNCHANGED <<site, merges, seen, cursor, job, week, version, missed>>

pass ==
    /\ week < MaxWeek /\ week' = week + 1
    /\ UNCHANGED <<companyVars, scan, seen, moved, cursor, job, version, ruled, missed>>

\* Other rules (DETECTOR_VERSION), with a new process.
deploy ==
    /\ version < MaxVersion /\ version' = version + 1
    /\ job.pc = "idle"
    /\ UNCHANGED <<companyVars, scan, seen, moved, cursor, job, week, ruled, missed>>

Init ==
    /\ site \in [Company -> Site \cup {none}]
    /\ stamp = [c \in Company |-> 0]
    /\ mergedInto = [c \in Company |-> Nobody]
    /\ scan = [k \in Key |-> Unscanned]
    /\ seen = [k \in Key |-> [t \in Technology |-> Unseen]]
    /\ moved = [c \in Company |-> {}]
    /\ cursor = Nobody /\ job = NoJob
    /\ week = 0 /\ version = 0 /\ merges = 0
    /\ ruled = {} /\ missed = [k \in Key |-> [t \in Technology |-> {}]]

Next ==
    \/ discover \/ finish \/ pass \/ deploy
    \/ \E n \in 0 .. Page - 1 : breakOff(n)
    \/ \E batch \in SUBSET Key : selectDueScans(batch)
    \/ \E k \in Key, c \in Company : fetch(k, c)
    \/ \E k \in Key, t \in Technology, on \in BOOLEAN : suppress(k, t, on)
    \/ \E found \in SUBSET Technology : persistSuccess(found)
    \/ \E delay \in 0 .. 1 : persistFailure(delay)
    \/ \E c \in Company : unmergeCompany(c) \/ \E l \in Company : mergeCompany(c, l)
    \/ \E c \in Company, s \in Site \cup {none} : updateCompany(c, s)

Spec == Init /\ [][Next]_vars

----------------------------------------------------------------------------
(* What a profile shows, and properties. *)

\* Mutant: only the elected scan's own row is asked.
suppressedThere(c, s) == {t \in Technology : \E k \in Elected(c, s) : seen[k][t].suppressed}

suppressed(c, s) == {t \in Technology : \E k \in Group(c, s) : seen[k][t].suppressed}

\* loadCompanyTechnology
Shown(c) ==
    LET Visible(o) == o.seen /\ ~ o.retired /\ o.last + Expiry > week
    IN  {t \in Technology \ suppressed(c, site[c]) :
            \E k \in Elected(c, site[c]) : Visible(seen[k][t])}

\* What an operator suppressed for a company's site stays hidden there through
\* later scans and merges, until the operator takes it back or the reversal of
\* a merge divides the scans of that site (suppress: "group-wide and remains
\* authoritative across fresh scans and merge duplicates").
SuppressedStaysHidden ==
    \A c \in Company, t \in Technology :
        mergedInto[c] = Nobody /\ <<<<c, site[c]>>, t>> \in ruled => t \notin Shown(c)

\* A technology is retired only when two scans of different weeks missed it
\* under the rules that found it, each while the site was the company's
\* (docs/TECHNOLOGY_ENRICHMENT.md: "two comparable successful scans at least
\* seven days apart under the same rules").
RetiredOnTwoAbsences ==
    \A k \in Key, t \in Technology : seen[k][t].retired =>
        \E x, y \in missed[k][t] :
            x[1] < y[1] /\ x[2] = seen[k][t].version /\ y[2] = seen[k][t].version
=============================================================================
