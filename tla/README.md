# Capbase: TLA+ models, checks and proofs

Capbase is a directory of private companies, people and investors. Public and
partner sources are ingested by background jobs (`apps/jobs`), people
contribute rows and edits through the API (`apps/api`), moderators decide what
is published, and a gate decides which visitor receives what. All state that
matters is in one PostgreSQL database that several API processes, the job
container and command-line tools write at the same time, most of them in READ
COMMITTED transactions.

This directory models the parts of the system whose correctness depends on the
order in which things happen, or on an algebra that must hold for every stored
policy; checks them with TLC on small instances; and proves the main results
with TLAPS for every instance.

Paths below are relative to the repository; `api/` stands for
`apps/api/src/`, `jobs/` for `apps/jobs/src/`.

## 1. Inventory

| Part | State it keeps | Operations | Talks to | Hard behaviour | What makes it correct |
|---|---|---|---|---|---|
| **Company edit proposals**: `api/admin/admin.service.ts`, `api/companies/companies.service.ts` | company columns, `partnerFields`, `ChangeProposal`, `Revision`, `Citation` | propose, approve, reject, retract | ingest (writes the same columns), bans, gate (reads `partnerFields`) | a decision reads outside its transaction, and its transaction reads before it locks; edits of one field retracted in any order | a rejected edit is never what a profile shows; the timeline is a chain to the shown value; an approved edit stays cited; a partner value stays masked |
| **Firm edit proposals**: `api/admin/admin.service.ts`, `api/investors/investors.service.ts` | investor columns and `partnerFields`, `InvestorChangeProposal` with `previous` and `clearedPartnerFields` | propose, approve, reject, retract | ingest (facts and marks in two statements), bans | a second approval replaces what the first recorded | a retraction puts back what the approval replaced; a partner value stays masked |
| **Contributed-row moderation**: `api/admin/admin.service.ts` | `moderationStatus`, timeline, emails | approve, reject, retract of rounds, roles, holdings, companies | people (a role resolves to a Person), investors (a holding publishes its firm), counts, mail | decisions that overlap or repeat; a ban's sweep in the middle | what is shown is on the timeline; the contributor was told what happened |
| **Directory counts**: `packages/db/src/directory-counts.ts`, `api/admin/directory-counts.ts` | stored counts that order the directories | refresh after a decision or a merge, full pass by the ingest | moderation, merge, ingest | one statement counts in a snapshot and then waits for locks | stored counts are the public counts once requests are answered |
| **Merge and unmerge**: `api/admin/merge/` | `mergedIntoId`, `MergeCandidate`, `MergeRecord`, every child row | merge, unmerge, reject, propose a pair | detector (candidates), ingest (match keys of tombstones), redirects | chains of merges reversed in any order; two admins; children written meanwhile | a tombstone leads to a live row; nothing is lost; a reversal restores |
| **Read gate**: `packages/api/src/domain/visibility.ts`, `api/gate/gate.ts` | override tables | resolve, cut, mask, hint, filter | every read route | any stored row, of any release; three tiers against three audiences | more access never shows less; hints are kept; filters do not tell masked values |
| **Gate policy service**: `api/gate/gate-policy.service.ts` | a snapshot per process, `loadedAt`, the load in flight | boot, read, reload, admin write | the read gate; other processes through the tables | a load of several queries against writes; failures; restarts | no process goes back to an older policy; every write reaches all |
| **Company-match repair**: `jobs/repair/`, `jobs/company-match-repair.ts` | `CompanyRepairRun`, `CompanyRepairGroup`, the companies it splits | audit, plan, apply, verify, rollback | ingest (lock), moderators and contributors (same rows) | crash and resume, loss of the lock's session, edits between repair and rollback | the journal is the checkpoint; a rollback overwrites nobody |
| **Ingest**: `jobs/ingest/`, `jobs/sources/` | every table; identifiers, bindings; match index in memory | runs per source, matching of a record to a company, its identifiers, deals and binding, folding of deals into rounds of others, enrichment of columns | merges (survivors), moderation, counts | the index is loaded once per run; a record fails half-way; merges and reversals between and during runs | a record's rows are on one visible company, and a re-run lands on it again; a raise is shown once |
| **Website enrichment**: `jobs/enrichment/`, `api/companies/company-technology.reader.ts` | `CompanyWebsiteScan`, `CompanyTechnology`, `EnrichmentCursor` | discover, elect, fetch, file, retire, suppress | companies (edits), merges | the page is fetched between two reads of its owner; merges bring several scans together | a technology is retired after two absences that can be compared; what was suppressed stays hidden |
| **Accounts and sessions**: `api/auth/`, `api/users/` | `User`, `PasswordResetToken`, `EmailVerificationToken`, signed tokens | sign-in, password change and reset, address confirmation, profile, ban | every guarded route, mail | requests of one account overlap: what was read is stale when written | a revoked session stays dead; an address reads verified after its own link; a link works once |
| **Two-factor authentication**: `api/auth/mfa/` | factors, `RecoveryCode`, `AuthChallenge`, `mfaEnabledAt` | challenges, enrolment, second step, removal, reset | sign-in, user administration | a challenge is loaded, checked and spent in three steps; two settings pages | a challenge or code signs in once; 2FA is on exactly while a factor is left |
| **API keys**: `api/api-keys/` | `ApiKey` | create, revoke, use | v1 routes | the count of active keys is read, then a key is created | not modelled, see section 7 |
| **Queue alerts**: `api/admin/queue-alerts.service.ts` | `armed` | digest, threshold check | moderation queue, mail | a check outlasts the next | one alert per crossing of the threshold |
| **Reports**: `api/reports/` | `Report` | create, dismiss, resolve | people (suppression), repair | the reported row goes away | a decided report stays decided |
| Search, market, funds, directories, v1, web, mail, sources, scripts | none of their own | queries, pages, parsers | | | not modelled, see section 7 |

`PROJECT.json` lists every component with the modules that model it, and the
hazards of the code line by line with the properties that watch them.

## 2. The modules and how they read the code

An action is a piece of a handler that nothing can interleave with: from one
await whose answer is used later to the next. Row locks, transactions and
snapshots are modelled where the code relies on them: a READ COMMITTED
transaction's reads before its first write to a row are an action of their own,
and from that write to the commit (other writers of the row wait) the rest is
one action. `SerialSpec` is the same system with no two handlers overlapping:
what the handlers promise one by one.

**ProposalModeration** - one company. `company` is its row (`val`, `marks` =
`partnerFields`, `partnerOnly`), `timeline` its `Revision` rows per field,
`citation` its field-level citations, `req` one `moderate()` call per admin and
`ingest` the worker's write in flight. `moderate()` is
`loadSubmissionNotice` (status read outside the transaction), then
`readProposal`/`applyProposal` for an approval,
`readProposal`/`readRevisions`/`revertProposal` for a retraction, `reject`
otherwise. The initial states include a company that has an edit approved
before `clearedPartnerFields` was recorded. Values that only the partner
supplies are a set of their own, so the origin of a shown value can be read off
it. Contributors do not type partner values; the ingest of the partner writes
only those or blanks.

**FirmEdits** - the same for one investor firm, which has no timeline: what an
approval replaced is `previous` on the proposal row, and approving again
overwrites it. The ingest's `upsertInvestorFirm` writes facts, then
`syncPartnerFields` the marks; `enrichInvestor` and `claimInvestor` are its
other writes. `PartnerMarks` holds what both kinds of edits take from
`admin.service.ts`: diffs, marks, what a retraction masks again.

**ReversibleEdit** - the abstract specification of both: an edit is applied or
not, it keeps what it replaced, and its retraction puts that back on every
field that still shows the edit. `ProposalModeration!CompanyEditsAreReversible`
maps `replaced` to the newest revision of the proposal that changed the field,
else its newest one (`Replaced`),
`FirmEdits!FirmEditsAreReversible` to `previous`. The two differ in one
constant: approving an applied company edit again keeps what the first approval
replaced (`KeepsFirst`), a firm's does not (documented at
`api/admin/admin.service.ts:914-920`).

**RowModeration** - the contributed rows of one company with what a decision
drags along: `Person` rows a role resolves to (merged and suppressed ones too),
the firm a holding names, the stored `roleCount`, the timeline and the emails.
All rows have one submitter and all roles one name, which is the case in which
decisions meet. A count refresh is two actions: PostgreSQL counts in the
statement's snapshot and then waits for the rows.

**Merge** - rows of one kind. Everything that hangs off a row is a *child*
(repointed: rounds, roles, holdings, revisions, ...) or an *item* (unique per
row and key: citations, saves; repointed unless the survivor has that key, in
which case it is deleted and remembered). `Locked` says whether
`lockCompanies` is called: for companies it is, for investors and people not.

**ReadGate** - the resolved policy, section limits, header facts, hints
(`unlockBy`), directory filters and the saved contribution lookup, as
operators on the two override tables. The tables change by validated admin
writes and also arbitrarily, because `resolveGatePolicy` promises to withstand
rows of another release or of a hand.

**GatePolicy** - the caches. A table's content is the number of its writes; a
load reads the tables one by one; a write waits for a load it started or joined
(`reload` is single-flight). `answered` and `answeredOwn` are history
variables: what was confirmed to administrators.

**CompanyRepair** - the groups of one plan, the journal, the run's status, the
advisory lock and processes in `apply` or `rollback`. A group's transaction is
SERIALIZABLE: `begin` takes the snapshot, `lockGroup` fails on rows updated
since, `execute` compares with the plan or the journal and asserts the lock
again, `commitApply`/`commitRollback` commit. `crash` may happen anywhere;
`loseLock` is the death of the lock's own session, which the process notices
only at `assertHeld`. People edit rows, attach rows (both wait for row locks)
and file reports (which wait for nothing, having no foreign key).

**IngestCompanies** - which company a record is written to. `start` loads the
`MatchIndex` (`Loaded`, with survivors of tombstones), then record after record
`upsert` decides (`decideCompanyMatch`, in full, with its evidence) and writes:
company, identifiers, then deals and binding in a later step, where a failure
or the end of the process may come between. `Merge`'s moves appear as
`mergeCompany`/`unmergeCompany`. Records state legal identifiers and a domain,
and report more deals later. `SerialSpec` has merges only between runs.

**RoundFolding** - the rounds of a company of another source or of people to
which a partner record is written. `upsert` pairs its deals with the rounds of
others (`pairNearDuplicates`, as a set of pairs taken closest first);
`writeDeal` folds a deal into its round, correcting and marking what it says
better, or writes a row of its own; `writeRoundBindings` and `writeBinding`
come last, and `breakOff` may come before them. `link` is how the next run
reaches the company: by a strong match, by the binding of one, or not at all
until the repair certifies it. `filed` is history: what a round's own writer
said of it last. Other sources file and moderators decide beside the runs.

**WebsiteEnrichment** - scans by key (the company and site they were created
for), their owner, and technologies by scan. A run discovers a page of
companies, elects due scans, and for each reads the owner, fetches, and files
(`persistSuccess`, `persistFailure`) only if owner, target and election are
still what they were (`Current`). Companies are edited, merged and unmerged in
any gap; detector versions change; weeks pass. `Shown` is what the profile
reader selects.

**Accounts**, **TwoFactor** - one account. A request is what it read and what
it will do, so all requests overlap. A session keeps the `tokenVersion` it was
signed with; `revocations`, `confirmed`, `spent`, `signedIn` and `usedCode` are
history. Transactions that read before they write (`factorRemoved`) are two
steps. A new secret of the authenticator app is random, so that none is drawn
that is in use or whose codes were used or are being checked (`InUse`). `FormSpec` and `SettingsSpec` exclude the overlaps named in section 6.

`MC*.tla` hold what TLC needs (symmetry sets, small definitions); `*Proofs.tla`
hold theorems: of one component, or of a run and the components it checks
(`ProposalModerationProofs`, `MergesProofs`, `CompanyRepairProofs` and
`AccountsProofs` extend the MC module; `GateProofs` has both gate modules).

`MCModeration`, `MCMerges`, `MCJobs` and `MCAccounts` check several modules in
one run: a variable `part`, chosen initially, names the module whose actions a
behaviour takes, and the variables of the others stay at one initial value. The
parts share no state, so the run is the union of their runs; a property names
its part or holds trivially of the others at rest.

Operators marked "Mutant" in a module are plausible mistakes in the definition
that follows them: each property is violated when its mutant is put in its
place.

## 3. What each run shows

| Run | Instance | Shows |
|---|---|---|
| `moderation` | parts *company* and *firm*: 2 proposals, 1 field, 3 values (blank, human, partner), 1 link, 1 contributor, 1 moderator, revisions bounded at 3, one handler at a time; *rows*: a company and a role, 3 people, one request at a time; *pairs*: a company and a holding, 2 moderators, every overlap | both kinds of edits implement `ReversibleEdit`; `TimelineTellsTheRow`, `ApprovedIsCited`, `MarksCoverPartnerValues`; contributed rows: timeline, mail and counts agree with the decisions, a role is attached to a dead person only behind a tombstone |
| `proposals_reapproval` | part *company* alone | **violation**: `PartnerValuesMasked` |
| `merges` | part *serial*: 3 rows, 1 child, 1 key held by all, 3 merges, one request at a time; *overlap*: 3 companies, 2 moderators; *rounds*: 2 deals, 2 rounds (a source's, a contribution), 5 things said of them, 2 changes | children, items, records and candidates agree with the tombstones through every sequence; row locks keep every tombstone leading to a live row; `FoldingIsSound` |
| `merge_unlocked` | 3 investors or people, 2 moderators | **violation**: two opposite merges make a cycle |
| `merge_chain` | key held by 2 of 3 rows | **violation**: a chain reversed does not restore |
| `gate` | 1 section, 2 facts (one partner-only), preview of 1 | the gate's algebra for every pair of stored rows |
| `policy` | 2 processes, 2 loads, 1 write at a time, 1 table, 2 writes, 1 failure, 1 restart | `NeverOlder`, `OwnReloadIsServed`, and with fairness `WritesSpread` |
| `policy_joined` | 1 process, 3 tables | **violation**: `ConfirmedIsServed` |
| `jobs` | part *repair*: 2 groups, 2 processes, 1 change by people; *ingest*: 3 records of 2 sources, 1 contributed company, 2 legal identifiers (one a company number), 1 domain, 2 deals, a merge or a failure; *web*: 2 companies that meet at 1 site, 1 technology, 2 weeks, 2 detector versions | `JournalTellsTheData`, `LostLockStops`, `RollbackOverwritesNothing`; `DealsAreVisible`, `RecordsStayWhole`, `RerunsLandAgain`, `JoinedOnLegalEvidence`; `SuppressedStaysHidden`, `RetiredOnTwoAbsences` |
| `ingest_merge` | 2 records, 1 domain, 1 merge during a run | **violation**: `DealsAreVisible` |
| `accounts` | part *account*: 2 addresses, 2 links, 2 requests, 2 revocations; *factors*: 2 challenges, 1 passkey, 1 secret, 2 recovery codes, 2 requests, limits of 1 attempt, one settings page | `RevokedStayRevoked`, `VerifiedWasConfirmed`, `UsedOnce`, `EnabledMeansAFactor`, `RequiredKeepsAFactor`, `FailuresBounded` |
| `accounts_removals` | the same, settings pages overlapping | **violation**: `EnabledMeansAFactor` |

`CHECK_DEADLOCK FALSE` is set where a bounded system stops: the merges once
every pair is rejected or the merges are used up, the *pairs* of `moderation`
once every row had its decisions, `accounts` once links, challenges and
versions are used up, `ingest_merge` once its merge and deals are.

### Bounds, and why they are enough

- *Two proposals, one field.* Fields of a proposal are treated one by one; what
  makes them interfere is a second proposal on the same field, sharing a link.
  A third proposal is only another instance of "someone else's edit", which the
  ingest's write already is. Three revisions allow approve, retract and a
  write before, between or after; a handler that has started may exceed the
  bound by its own entry. A firm is the same without revisions.
- *Three people.* One merged, one suppressed and a survivor; the code follows
  one hop, so the shortest failure needs two hops.
- *Three rows, three merges.* The shortest chain is two merges over three rows;
  the third merge makes one after a reversal.
- *Two deals, two rounds, five facts* (*rounds* in `MCMerges`). What one deal
  can take from another is one round, and the reverse; the facts are near and
  alike, near and unlike, undisclosed, on the border of the window, beyond it,
  and of a grant. Two changes let a round be approved, receive a deal and be
  retracted, or a deal be published or revised after another was placed.
- *One section, two facts.* Sections and facts do not interact but in
  `needsContributionLookup`, a disjunction over them. `previewRows` ranges one
  beyond the valid ones on either side.
- *Two processes, one table in `policy`.* Tables interact only in the time that
  passes between their reads, which `policy_joined` has with three. `TTL`
  expiry is an action that may come at any time.
- *Records and what they state* (`FewStatements`, `FewFaults` in `MCJobs`). The
  initial states of the *ingest* part are those in which records and companies
  state three things in all, those in which one record names the companies of
  two others, and those in which every record meets on one domain: a record is
  in doubt only where statements coincide, and every rule of
  `decideCompanyMatch` fires among these. Either a merge (with its reversal) or
  a failure happens, not both, and one record has a second deal later.
- *Two companies, one site* (`FewChanges`). A scan is at risk when its owner is
  edited or merged under a fetch; two scans meet when a merge brings them
  together at one site. One edit or one new detector version, or a merge with
  its reversal and an edit, cover each alone and the pairs that interact; with
  an expiry of one week, two weeks have a scan before and after it.
- *Two requests of an account.* Each property relates what one request read to
  what another wrote. Two revocations let a request span one. With limits of
  one failure, the second attempt is already beyond them.
- *Two groups, two processes.* Groups share no company, so that a third adds no
  interaction; the second process matters only after the first has lost its
  lock.

## 4. Fairness

Only `policy` uses fairness (`FairSpec`): a process that starts boots, visitors
keep asking for the policy, time passes, and a database query returns or
fails. `onModuleInit`, `current()` on every request, the clock and the driver's
timeouts justify each. Failures and restarts are bounded: if every load failed
nothing could spread. No fairness is assumed of administrators or of the
joining of loads.

## 5. What is proved

`tlapm` checks every leaf of the theorems below. Each is stated for every value
of the constants. Every safety property that a passing run checks is proved,
and so are the two refinements: what is left to TLC alone is at the end of this
section.

A theorem about a component is about its specification. Where one run checks
several components (`MCModeration`, `MCMerges`, `MCJobs`, `MCAccounts`), a
further theorem says the same of the run: the run's behaviours are, part by
part, behaviours of the component's specification (`WebBehaves`,
`IngestBehaves`, `RunIsOfBoth`, ...), and what holds of a part that stays at
rest is trivial. To cite the theorems of an instance, `MCJobs` instantiates the
proof modules `IngestCompaniesProofs` and `WebsiteEnrichmentProofs`, and
`MCModeration` instantiates `RowModerationProofs`.

**ProposalModerationProofs** (company and firm edits)

- `TypeCorrect` and `ApprovedStaysCited` hold with every overlap of handlers.
  The latter is inductive together with the types: an approval cites in the
  step that approves, a retraction removes only citations no *other* approved
  proposal needs, and that set is computed in the step that removes. So the
  property survives overlap, which most properties of this module do not.
- `TimelineIsAChain` (`SerialSpec => []TimelineTellsTheRow`). `ReadsInv`: what a
  handler in flight has read of the row is still so. This is where "one at a
  time" is used, and what an overlap breaks.
- `CompanyEditsImplementReversibleEdits` and
  `FirmEditsImplementReversibleEdits`: the refinements. `SerialInv` adds that a
  row which is no edit yet is empty and that an approved one has revisions (a
  firm's: a previous value) for every field it changes (`EditsInv`), and what
  the decision in flight knows of its proposal (`DecisionsInv`). Approvals and
  retractions map to the abstract ones, proposals to `Propose`, the ingest's
  writes to `Overwrite`, the rest to stutters. For companies the mapped
  `replaced` is the *newest real* revision of the proposal, and the lemma that
  carries the proof says how appending one revision changes it: not at all
  unless it is the proposal's own.
- `CompanyMasksHold`, `FirmMasksHold`. `MasksInv`, `FirmMasksInv`: whatever an
  edit keeps of the partner's is among the marks it records having removed, and
  what a decision read of the marks is still so. The company's has the
  exception of finding 1 (`Twice`), a second approval, and no other.
- of the run: `RunReversesFirmEdits`, `RunMasksPartnerValues`,
  `RunKeepsRowsOnTimeline`, `RunTellsTheStatus`, `RunKeepsCountsInOrder`,
  `RunAttachesToTheLiving`, `RunKeepsTypes`.

**RowModerationProofs** (contributed rows)

- With every overlap: `RowsKeepTypes`, `ShownStaysCreated`, and
  `ApprovalsAttachToTheLiving`, for which people who do not exist yet are
  neither suppressed nor merged away (`UnbornInv`).
- One request at a time: `DecisionsAreTold` (retractions, mail, counts). The
  invariant says what an answered request leaves true and *who still owes it*:
  a stored count is right unless the one request in flight will refresh it
  (`CountInv`, over the scopes its decision collected), the last mail tells the
  status unless it will send one (`MailInv`).

**MergesProofs** (merges, their overlaps, folding of rounds)

- `OverlappingMergesLeadToLiveRows`. `OverlapInv`: following `mergedInto` never
  comes back (`Acyclic`), and a request that holds both row locks still sees
  what it read. The lemmas about tables of rows folded into rows (`RootExists`,
  `OneRoot`, `FoldedRoot`, `UnfoldedRoot`: what folding a live row into another,
  or taking a row out again, does to where every row leads) replace the
  induction along chains: a round trip of minimal length is the only obstacle.
- `ChildrenAreWhereTheirRowsAre`, `MergesCanBeReversed`, `PartsKeepTypes`.
  `SerialInv`: the children an open record lists are exactly those that would
  lead to its tombstone if that were taken out (`OpenRecordHolds`); and for
  every key, the items there are and the open records that deleted one add up
  to the items there were at first (`SerialItems`). The first is what a
  reversal in the middle of a chain needs; "the children it moved" is not
  enough.
- `FoldingDealsIsSound`. `RoundsInv` adds to the property that the plan of a run
  in flight names no deal which has a row of its own and covers every deal of
  the run with a binding to a round (`PlanHolds`). That the pairing is one to
  one and leaves out no closer pair is a lemma about the greedy function over
  sets of pairs, by the size of the set.

**CompanyRepairProofs** (repair; theorems of the `jobs` run)

- `TypeCorrect`, `JournalIsTheCheckpoint`, `LostLockCommitsOnce`,
  `RollbackIsExact`. The inductive invariant `IInv` adds two parts to the types
  and `JournalTellsTheData`: `TransactionsHold` (what a transaction has locked
  is still as its snapshot saw it, and after `execute` it equals what the plan
  or journal recorded) and `HistoryTellsTheEntry` (the number of revisions the
  repair has appended tells whether a group is untouched, applied or reversed,
  so a snapshot that compares equal cannot be of an earlier life of the group).
  Without the second, a process that lost its lock and one that resumed could
  both apply a group as far as the invariant knows.
- of the run: `RunKeepsTypes`, `RunKeepsDealsVisible`, `RunLandsAgain`,
  `RunJoinsOnEvidence`, `RunKeepsRecordsWhole`, `RunKeepsSuppressed`,
  `RunRetiresOnTwo`.

**IngestCompaniesProofs** (merges between runs, failures anywhere)

- `RecordsAreWrittenWhole`. `WholeInv`: while a record is written, its earlier
  deals are already on the company it is written to, or it has none. A run may
  meet a record that a reversed merge left on two companies (`MovedRows` says
  which rows may come back); `childOwnerClash` keeps the run from adding to it.
- `DealsStayVisible`. `VisibleInv`: what the index of a run says of a record it
  has still to write is what the tables say, through the survivors of
  tombstones (`RunKnows`); and the survivor of a company that exists exists.
- `RerunsFindTheRecord`. `HomeInv`: a stored record's deals are where its own
  company row leads or, without one, its resolved binding (`AtHome`), and the
  record being written will be found by one of the two (`WritingHome`). With a
  merge taken back this fails, as it does in the code: `NeverReversed` is part
  of the property.
- `LegalEvidenceJoins`. `JoinInv`: a partner record's id is on the company its
  deals, its binding and its own row name (`AliasTells`), and two partner
  records are on one company only with legal evidence of one of them, in the
  tables (`SharedOnEvidence`) and in the write in flight (`WrittenOnEvidence`).

**WebsiteEnrichmentProofs**

- `RetiredTwiceMissed`. `AbsenceInv` (`CountsTellTheMisses`) ties the stored
  count, week and version of absences to the scans that missed the technology.
- `SuppressionLasts`, `MovedScansAreTraced`. `SuppressedInv`: what an operator
  suppressed for a company and site is marked on a scan of that pair, and a
  scan that a merge moved is in one open record, which says where it came from;
  without the latter a reversal could leave the mark behind.
- `EnrichmentTypes`. `TypeInv`: a stamp is bounded by the updates and the
  merges there were (`StampsCounted`), and no scan is left on a tombstone.

**AccountsProofs** (accounts and two-factor authentication)

- `AccountTypes`, `RevocationHolds`, `LinksAreSpentOnce` and, for one profile
  form at a time, `VerifiedAddresses`. `SessionInv`: `tokenVersion` counts the
  revocations, and a sign-in under way carries the version of the row it read,
  so that a session signed late is signed dead. `LinkInv`: a link is of one of
  the two tables, and has taken effect only if it reads used. `AddressInv`: a
  profile form that leaves the address alone names the address the row has.
- `NothingIsUsedTwice`. `ChallengeInv`: a challenge that signed in is spent.
  `UseInv`: at most one request is about to spend a code, and then it is not
  used yet; a code after the last step accepted is untouched; and a secret that
  is being enrolled belongs to one challenge and has no code in use.
- `FailuresStayBounded`. `FailInv`: the failures counted *plus the requests
  that are verifying a code* stay below the limit plus the requests at once:
  each was let in under the limit.
- `EnabledTellsTheFactors`, `LastFactorStays` (one settings page at a time).
  `SettingsInv`: what a removal in flight has counted is still so (`Decided`).
- `RowsAreTyped`, and `RunIsOfBoth` for the run.

**GateProofs** (read gate and policy service)

- `GateTypeCorrect`, `AccessIsMonotone`, `HintsPromiseRight`, `FiltersAreBlind`,
  `QuickAccessReadsAlike`. No invariant is needed beyond types: because an
  invalid override is dropped when read, every *resolved* policy is valid, and
  the rest follows from the order of levels, audiences and tiers.
- `TypeCorrect`, `OwnReloadServed`, `NeverGoesBack`. The inductive invariant
  adds to the types that a load in flight is the one its process knows of and
  that what it has read is neither older than what the process serves nor newer
  than the tables (`LoadsAreCurrent`), and that a write which started its load
  was written before that load read its table (`RequestsWait`). Single flight
  is what makes it inductive: with two loads of a process, the one that ends
  last may have read first. A write that *joined* a load is left out of the
  second part, as it must be (finding 4).

### Assumptions

The named assumptions of the modules; TLC evaluates them in every run
(`PartsAssumption` and `FactorsAssumption` those of instances). They say that
"none" is no row, address, link or value; that tables are finite where rows are
counted or followed (`MergeAssumption`, `RowAssumption`, `IngestAssumption`,
`EnrichmentAssumption`, `TwoFactorAssumption`); that the registry's defaults are
valid (`GateAssumption`); that identifier schemes are apart, a partner's record
id being no legal identifier and no domain (`IngestAssumption`); that a recovery
code is no code of the app and no passkey (`TwoFactorAssumption`); that a row is
of one type (`RowAssumption`); and that blank is a value no partner supplies
(`ValueAssumption`).

### What is only model-checked

`WritesSpread`, a liveness property: enabledness and fairness are out of the
prover's reach. The violations of section 6, which are counterexamples. What
the recursive functions `Follow`, `Hop` and the greedy pairing compute is not
proved by induction over data but from the equation that defines them, on
finite tables: `Root` from `Acyclic`, the pairing by the size of its set.

## 6. Where the code departs from what it says

Findings, each with a run that shows it:

1. **A second approval forgets the partner's marks**
   (`api/admin/admin.service.ts:871`, `proposals_reapproval`). Approving an
   applied edit again records the marks the row has *now* (none), so the
   retraction restores the partner's value unmasked.
2. **Investors and people are merged without row locks**
   (`api/admin/merge/merge.service.ts:580`, `merge_unlocked`). Two merges of a
   pair in opposite directions leave two tombstones pointing at each other;
   their slugs lead nowhere.
3. **A reversal recreates items under new ids**
   (`merge.service.ts:881`, `merge_chain`). An earlier merge's record still
   names the old id, and reversing it moves nothing.
4. **A write may join a load that has read its table already**
   (`api/gate/gate-policy.service.ts:70`, `policy_joined`). The write is
   confirmed, and the policy served stays the old one until the TTL.
5. **A merge during a run loses what the run writes later**
   (`jobs/ingest/ingest.service.ts:857`, `ingest_merge`). The index and the
   survivors of tombstones are read once per run; rounds written to a company
   merged meanwhile hang off its tombstone, and later runs hold the record.
6. **Two factors removed at once leave 2FA on with none**
   (`api/auth/mfa/mfa.service.ts:385`, `accounts_removals`). Each transaction
   of `factorRemoved` still sees the other's factor.

Observations for which the repository states no contrary rule, so that no run
claims one:

- With decisions that *overlap*, the status read before the transaction is
  stale: a rejection can miss that the row was approved in the meantime, and
  then writes no RETRACT entry and restores nothing; timelines, emails and
  counts can then disagree with rows. This is why `NoRejectedEditShows`,
  `TimelineTellsTheRow`, `GoneIsRetracted`, `MailTellsTheStatus` and
  `CountsInOrder` are checked under `SerialSpec`.
- A name whose oldest person was merged into one who was later suppressed or
  merged attaches new roles to that person (`resolvePerson` looks one hop).
  `MissesOnlyThroughTombstone` says this is the only way.
- Two overlapping `updateProfile` calls can leave an address verified that
  nobody confirmed: the second writes the verification time it read before the
  first changed the address (`api/auth/auth.service.ts:236-241`). `FormSpec`
  excludes it.
- Recovery codes minted while the last factor is removed stay behind without
  one (`mfa.service.ts:318`). `SettingsSpec` excludes it.
- Approving an applied firm edit again makes its first approval irreversible;
  the code documents this (`api/admin/admin.service.ts:914-920`).
- A partner record that fails between its identifiers and its binding is met
  again as an alias nobody confirmed and is held until the repair audits it,
  though the comment of `run()` calls every write idempotent
  (`jobs/ingest/ingest.service.ts:389-392`). `RerunsLandAgain` is about records
  that were written to the end.
- Reversing a merge after the survivor's record gained deals leaves that record
  on two companies: it is held from then on (`childOwnerClash`).
- A company that a partner record created and that is merged into another
  leaves the survivor with an identifier no binding confirms: later matches of
  the survivor by domain are held.
- A record whose legal identifier leads to a company that is merged away in the
  middle of a run creates a duplicate.
- `pairNearDuplicates` says re-running it is stable
  (`jobs/ingest/round-dedup.ts:74`); with two deals on one date it is not, which
  `IngestRoundBinding` then hides. It also keeps two deals from folding into
  one round (`:72`), but only the deals of one run: one that is published later
  is paired with rounds an earlier deal was folded into
  (`ingest.service.ts:1325` passes all of `held.others`), so both can end up in
  one round and show as one.
- Another source that writes its round again undoes the partner's corrections,
  and no later run makes them again: from the second run on the match is a
  binding, which corrects nothing (`ingest.service.ts:1362-1365`).
- Reversing a merge can show a technology on the survivor again that was
  suppressed only on the scan which went back.
- An alert whose mailing outlasts the next check can be sent twice, or disarm
  what that check re-armed (`api/admin/queue-alerts.service.ts:214`).
- Two requests for an API key can both pass the count of active keys
  (`api/api-keys/api-keys.service.ts:170`).
- A count refresh that fails after its decision is logged and dropped: the
  stored count stays wrong until the ingest's full pass
  (`api/admin/directory-counts.ts:15`). A chain of more tombstones than
  `MAX_MERGE_HOPS` redirects nowhere (`api/people/people.service.ts:299`).
- A run rolled back with some groups refused is `PARTIAL`; applying the plan
  again skips the rolled-back groups as done and, when the others are, calls
  the run `APPLIED` (`jobs/repair/apply.ts:84-109`).
- A report of a company the repair created outlives its rollback: reports have
  no foreign key.

## 7. What is not modelled, and why

- *Search, market pages, directories, details*: read-only queries whose content
  is SQL ranking and aggregation.
- *Source parsers*: format knowledge and I/O without shared state.
- *Mail templates, web pages, v1 routes*: other faces of the same services.
- *Ingest beyond the company and its rounds*: the raised total, funds, people,
  focus areas and citations. Their rows hang off the company a record was
  written to, which is what the model decides. The people's matcher and the
  name keys (which only propose merge candidates) are left out with them.
- *Ingest and enrichment schedulers*: timers behind one in-process flag. What
  they race with, the ingest's lock, is in `CompanyRepair`.
- *App links of companies*: the path of technologies without retirement.
- *Queue alerts, API keys*: one row and one counter each, with the races of
  section 6.
- *Reports*: their own status; what they change elsewhere is modelled.
- *Rate limits*: counters of a library.
- *The gate's free-text query, the cutting of rows in a reply, the contribution
  window.*
- *Backfill scripts, the patent pilot*: run by hand.
- *PostgreSQL* is modelled only as far as the services rely on it; WebAuthn and
  hashing are external.

## 8. Plan

What is left, most important first.

1. *Rounds and companies together*: `RoundFolding` composed with
   `IngestCompanies`, so that a merge moves rounds under a binding, and the
   raised total.
2. *Abstract specifications of more parts*, with refinements to check and to
   prove as those of the edits are: the repair as groups that are split and
   restored atomically (`CompanyRepair`), the accounts' sessions as a set that
   revocations empty (`Accounts`), the policy caches as a register that is read
   late (`GatePolicy`).
3. *What the findings leave*: the strongest statements that hold with every
   overlap (which timelines an overlapping rejection may leave, how many rounds
   a merge in mid-run may strand), stated and proved where one-at-a-time is
   assumed now.
4. *People*: `person-matcher.ts` against a reference over small inputs, and the
   roles the ingest writes, composed with `RowModeration`'s suppression.
5. *Queue alerts and submission paging* against a sorted reference.
