------------------------------ MODULE ReadGate ------------------------------
(***************************************************************************)
(* What each viewer receives: the gate policy (packages/api visibility.ts) *)
(* with the admin's stored overrides, and its enforcement over sections,   *)
(* header facts and directory filters (apps/api gate.ts).                  *)
(*                                                                         *)
(* Levels, audiences and tiers are their ranks.                            *)
(***************************************************************************)
EXTENDS Integers

CONSTANTS
    Section,           \* the sections of the profiles
    Block,             \* those shown whole or not at all
    Field,             \* the header facts of one entity, each with a filter
    PartnerOnlyColumn, \* those only the partner writes
    CardSections,      \* the sections a directory card samples rows of
    DefaultSection,    \* SECTION_REGISTRY defaults
    DefaultField,      \* FIELD_REGISTRY defaults
    PreviewMax,        \* PREVIEW_ROWS_MAX
    Value,             \* values of a header fact
    NoOverride

hidden == 0
preview == 1
full == 2
Level == hidden .. full

everyone == 0
signedIn == 1
contributors == 2
Audience == everyone .. contributors

Tier == 0 .. 2 \* signed out, signed in, unlocked

SectionPolicy == [level : [Tier -> Level], previewRows : 0 .. PreviewMax + 1,
                  partnerAudience : Audience]
FieldPolicy == [audience : Audience, partnerAudience : Audience]

\* Mutant: the order of the tiers is not checked.
validateSectionShape(s, p) ==
    /\ p.previewRows \in 1 .. PreviewMax
    /\ s \in Block => \A t \in Tier : p.level[t] # preview

\* A more privileged tier never sees less; a block is never previewed.
validateSectionPolicy(s, p) ==
    /\ p.previewRows \in 1 .. PreviewMax
    /\ p.level[0] <= p.level[1] /\ p.level[1] <= p.level[2]
    /\ s \in Block => \A t \in Tier : p.level[t] # preview

\* The partner's value never reaches a wider audience than the field.
validateFieldPolicy(p) == p.audience <= p.partnerAudience

ASSUME GateAssumption ==
    /\ Block \subseteq Section /\ CardSections \subseteq Section
    /\ PartnerOnlyColumn \subseteq Field
    /\ PreviewMax \in Nat
    /\ DefaultSection \in [Section -> SectionPolicy]
    /\ DefaultField \in [Field -> FieldPolicy]
    /\ \A s \in Section : validateSectionPolicy(s, DefaultSection[s])
    /\ \A f \in Field : validateFieldPolicy(DefaultField[f])
    /\ NoOverride \notin SectionPolicy \cup FieldPolicy

VARIABLES
    sectionRows, \* the GateSectionPolicy row of each section
    fieldRows    \* the GateFieldPolicy row of each field

gateVars == <<sectionRows, fieldRows>>

GateTypeOK ==
    /\ sectionRows \in [Section -> SectionPolicy \cup {NoOverride}]
    /\ fieldRows \in [Field -> FieldPolicy \cup {NoOverride}]

----------------------------------------------------------------------------
(* resolveGatePolicy: an invalid override is dropped. *)

section(s) ==
    IF sectionRows[s] # NoOverride /\ validateSectionPolicy(s, sectionRows[s])
    THEN sectionRows[s] ELSE DefaultSection[s]

field(f) ==
    IF fieldRows[f] # NoOverride /\ validateFieldPolicy(fieldRows[f])
    THEN fieldRows[f] ELSE DefaultField[f]

----------------------------------------------------------------------------
(* The viewer (UsersService.accessFor). *)

Viewer == {v \in [unlocked : BOOLEAN, signedIn : BOOLEAN, admin : BOOLEAN] :
             (v.unlocked => v.signedIn) /\ (v.admin => v.unlocked)}

viewerTier(v) == IF v.unlocked THEN 2 ELSE IF v.signedIn THEN 1 ELSE 0

\* Inside an audience: everyone, whoever is signed in, contributors.
tierMeets(t, audience) ==
    \/ audience = everyone
    \/ audience = signedIn /\ t # 0
    \/ audience = contributors /\ t = 2

meets(v, audience) == v.admin \/ tierMeets(viewerTier(v), audience)

\* listAccess: the access without the contribution lookup, which only finds
\* out whether a signed-in user has contributed lately (v.role).
listAccess(v, role) == [v EXCEPT !.unlocked = role \in {"ADMIN", "CONTRIBUTOR"}]

----------------------------------------------------------------------------
(* Sections. *)

Infinity == PreviewMax + 2

tierLimit(p, t) ==
    IF p.level[t] = hidden THEN 0 ELSE IF p.level[t] = preview THEN p.previewRows ELSE Infinity

sectionLimit(s, v) == IF v.admin THEN Infinity ELSE tierLimit(section(s), viewerTier(v))
sectionPartnerRows(s, v) == meets(v, section(s).partnerAudience)

LowestAbove(t, gains(_)) ==
    IF \E u \in Tier : u > t /\ gains(u)
    THEN CHOOSE u \in Tier : u > t /\ gains(u) /\ \A w \in Tier : w > t /\ gains(w) => u <= w
    ELSE t

\* unlockFor: which tier the hint names (0: none).
unlockFor(t, u) == IF u = t THEN 0 ELSE u

\* Mutant: the partner's rows are promised in a section that stays hidden.
unlockByAnyPartner(s, t) ==
    LET p == section(s)
        gains(u) == \/ p.level[u] > p.level[t]
                    \/ tierMeets(u, p.partnerAudience) /\ ~ tierMeets(t, p.partnerAudience)
    IN  unlockFor(t, LowestAbove(t, gains))

\* sectionView.unlockBy: the lowest tier above that gets more rows or the
\* partner's rows.
unlockBy(s, t) ==
    LET p == section(s)
        gains(u) == \/ p.level[u] > p.level[t]
                    \/ /\ p.level[u] # hidden
                       /\ tierMeets(u, p.partnerAudience) /\ ~ tierMeets(t, p.partnerAudience)
    IN  unlockFor(t, LowestAbove(t, gains))

----------------------------------------------------------------------------
(* Header facts. *)

fieldGate(f, v) ==
    IF ~ meets(v, field(f).audience) THEN "hide"
    ELSE IF meets(v, field(f).partnerAudience) THEN "show" ELSE "hidePartner"

\* gateFields: whether the value of f is withheld, the partner's or not.
withheld(f, v, partner) ==
    \/ fieldGate(f, v) = "hide"
    \/ fieldGate(f, v) = "hidePartner" /\ partner

\* fieldUnlockBy: the lowest tier that would see the value.
fieldUnlockBy(f, t, partner) ==
    LET sees(u) == /\ tierMeets(u, field(f).audience)
                   /\ partner => tierMeets(u, field(f).partnerAudience)
    IN  IF sees(t) THEN 0 ELSE unlockFor(t, LowestAbove(t, sees))

\* directoryFilters: the filter on f is ignored ...
ignored(f, v) ==
    \/ fieldGate(f, v) = "hide"
    \/ fieldGate(f, v) = "hidePartner" /\ f \in PartnerOnlyColumn

\* Mutant: a filter on a partner-gated value is not narrowed.
narrowedNever(f, v) == FALSE

\* ... or narrowed to rows whose value the partner did not write.
narrowed(f, v) == fieldGate(f, v) = "hidePartner" /\ f \notin PartnerOnlyColumn

\* Whether a directory filtered on f = wanted lists the row.
listed(f, v, row, wanted) ==
    \/ ignored(f, v)
    \/ row.value = wanted /\ ~ (narrowed(f, v) /\ row.partner)

\* Mutant: the partner audiences are not asked.
needsLookupForFields == \E f \in Field : field(f).audience = contributors

\* needsContributionLookup of the listed entities.
needsContributionLookup ==
    \/ \E f \in Field : contributors \in {field(f).audience, field(f).partnerAudience}
    \/ \E s \in CardSections : section(s).partnerAudience = contributors

----------------------------------------------------------------------------
GateInit ==
    /\ sectionRows = [s \in Section |-> NoOverride]
    /\ fieldRows = [f \in Field |-> NoOverride]

setSection(s, p) ==
    /\ validateSectionPolicy(s, p)
    /\ sectionRows' = [sectionRows EXCEPT ![s] = p]
    /\ UNCHANGED fieldRows

resetSection(s) ==
    /\ sectionRows' = [sectionRows EXCEPT ![s] = NoOverride]
    /\ UNCHANGED fieldRows

setField(f, p) ==
    /\ validateFieldPolicy(p)
    /\ fieldRows' = [fieldRows EXCEPT ![f] = p]
    /\ UNCHANGED sectionRows

resetField(f) ==
    /\ fieldRows' = [fieldRows EXCEPT ![f] = NoOverride]
    /\ UNCHANGED sectionRows

\* A row of another release or a hand: its columns are plain strings.
storedElsewhere(s, p) ==
    /\ sectionRows' = [sectionRows EXCEPT ![s] = p]
    /\ UNCHANGED fieldRows

fieldStoredElsewhere(f, p) ==
    /\ fieldRows' = [fieldRows EXCEPT ![f] = p]
    /\ UNCHANGED sectionRows

GateNext ==
    \/ \E s \in Section : resetSection(s) \/ \E p \in SectionPolicy : setSection(s, p) \/ storedElsewhere(s, p)
    \/ \E f \in Field : resetField(f) \/ \E p \in FieldPolicy : setField(f, p) \/ fieldStoredElsewhere(f, p)

GateSpec == GateInit /\ [][GateNext]_gateVars

----------------------------------------------------------------------------
(* Properties. *)

\* v has all the access w has.
AtLeast(v, w) == (w.admin => v.admin) /\ viewerTier(v) >= viewerTier(w)

\* Whatever overrides are stored, a viewer with more access never sees less:
\* no fewer rows, the partner's rows if anyone below gets them, no value
\* withheld that someone below sees (validateSectionPolicy: "A tier with more
\* access can never see less"; resolveGatePolicy: "a bad row can never widen
\* or break the gate").
MoreAccessShowsMore ==
    \A v, w \in Viewer : AtLeast(v, w) =>
        /\ \A s \in Section : /\ sectionLimit(s, v) >= sectionLimit(s, w)
                              /\ sectionPartnerRows(s, w) => sectionPartnerRows(s, v)
        /\ \A f \in Field, partner \in BOOLEAN :
             withheld(f, v, partner) => withheld(f, w, partner)

\* The rows of s a tier receives when there are n public and m partner rows.
Received(s, t, n, m) ==
    LET all == IF tierMeets(t, section(s).partnerAudience) THEN n + m ELSE n
        limit == tierLimit(section(s), t)
    IN  IF all < limit THEN all ELSE limit

ReceivesMore(s, t, u) ==
    \E n, m \in 0 .. PreviewMax + 1 : Received(s, u, n, m) > Received(s, t, n, m)

\* A hint keeps its promise: the tier it names is the lowest one above the
\* viewer to receive more, and without a hint none does (SectionView: "What
\* would show this viewer more; null when nothing would").
SectionHintsAreKept ==
    \A s \in Section, t \in Tier :
        LET u == unlockBy(s, t)
        IN  /\ u # 0 => u > t /\ ReceivesMore(s, t, u)
            /\ \A w \in Tier : w > t /\ (u = 0 \/ w < u) => ~ ReceivesMore(s, t, w)

\* A withheld value always names the lowest tier that sees it, so gateFields'
\* "?? 'signIn'" is never needed.
MaskedValuesSayHow ==
    \A f \in Field, v \in Viewer, partner \in BOOLEAN :
        withheld(f, v, partner) =>
            LET u == fieldUnlockBy(f, viewerTier(v), partner)
            IN  /\ u > viewerTier(v)
                /\ \A w \in Viewer : ~ w.admin =>
                     (withheld(f, w, partner) <=> viewerTier(w) < u)

\* Every hint about a section or a header fact is kept.
HintsAreKept == SectionHintsAreKept /\ MaskedValuesSayHow

\* A directory filtered on a fact lists the same rows whatever the values the
\* viewer may not see (directoryFilters: "the match itself would reveal it").
FiltersRevealNothing ==
    \A f \in Field, v \in Viewer, partner \in BOOLEAN, wanted, x, y \in Value :
        withheld(f, v, partner) =>
            (listed(f, v, [value |-> x, partner |-> partner], wanted)
               <=> listed(f, v, [value |-> y, partner |-> partner], wanted))

\* Where listAccessFor saves the contribution lookup, no list reads
\* differently for it.
LookupSavedIsNotMissed ==
    ~ needsContributionLookup =>
        \A v \in Viewer : v.signedIn =>
            LET quick == listAccess(v, IF v.admin THEN "ADMIN" ELSE "USER")
            IN  /\ \A f \in Field : fieldGate(f, v) = fieldGate(f, quick)
                /\ \A s \in CardSections : sectionPartnerRows(s, v) = sectionPartnerRows(s, quick)
=============================================================================
