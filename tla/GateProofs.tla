----------------------------- MODULE GateProofs -----------------------------
(***************************************************************************)
(* Theorems of ReadGate, for any sections, fields, defaults and stored     *)
(* overrides: the policy in force is a valid one, and a valid policy is    *)
(* monotone over the tiers.  Then those of GatePolicy, for any number of   *)
(* processes, requests, loads, tables and writes; and those of the run.    *)
(***************************************************************************)
EXTENDS MCGate, WellFoundedInduction, TLAPS


\* The rows of both override tables keep the shape their columns give them
\* (the admin's upserts and deletes, and rows written elsewhere).
THEOREM GateTypeCorrect == GateSpec => []GateTypeOK
<1>1. GateInit => GateTypeOK
  BY DEF GateInit, GateTypeOK
<1>2. GateTypeOK /\ [GateNext]_gateVars => GateTypeOK'
  <2> SUFFICES ASSUME GateTypeOK, [GateNext]_gateVars
               PROVE  GateTypeOK'
    OBVIOUS
  <2>1. ASSUME NEW s \in Section, resetSection(s)
        PROVE  GateTypeOK'
    BY <2>1 DEF resetSection, GateTypeOK
  <2>2. ASSUME NEW s \in Section, NEW p \in SectionPolicy, setSection(s, p) \/ storedElsewhere(s, p)
        PROVE  GateTypeOK'
    BY <2>2 DEF setSection, storedElsewhere, GateTypeOK
  <2>3. ASSUME NEW f \in Field, resetField(f)
        PROVE  GateTypeOK'
    BY <2>3 DEF resetField, GateTypeOK
  <2>4. ASSUME NEW f \in Field, NEW p \in FieldPolicy, setField(f, p) \/ fieldStoredElsewhere(f, p)
        PROVE  GateTypeOK'
    BY <2>4 DEF setField, fieldStoredElsewhere, GateTypeOK
  <2>5. CASE UNCHANGED gateVars
    BY <2>5 DEF gateVars, GateTypeOK
  <2> QED
    BY <2>1, <2>2, <2>3, <2>4, <2>5 DEF GateNext
<1> QED
  BY <1>1, <1>2, PTL DEF GateSpec

\* resolveGatePolicy: whatever is stored for a section, the policy in force
\* passes validateSectionPolicy.
LEMMA SectionInForce ==
    ASSUME GateTypeOK, NEW s \in Section
    PROVE  section(s) \in SectionPolicy /\ validateSectionPolicy(s, section(s))
<1>1. CASE sectionRows[s] # NoOverride /\ validateSectionPolicy(s, sectionRows[s])
  BY <1>1 DEF GateTypeOK, section
<1>2. CASE ~ (sectionRows[s] # NoOverride /\ validateSectionPolicy(s, sectionRows[s]))
  BY <1>2, GateAssumption DEF section
<1> QED
  BY <1>1, <1>2

\* resolveGatePolicy: whatever is stored for a header fact, the policy in
\* force passes validateFieldPolicy.
LEMMA FieldInForce ==
    ASSUME GateTypeOK, NEW f \in Field
    PROVE  field(f) \in FieldPolicy /\ validateFieldPolicy(field(f))
<1>1. CASE fieldRows[f] # NoOverride /\ validateFieldPolicy(fieldRows[f])
  BY <1>1 DEF GateTypeOK, field
<1>2. CASE ~ (fieldRows[f] # NoOverride /\ validateFieldPolicy(fieldRows[f]))
  BY <1>2, GateAssumption DEF field
<1> QED
  BY <1>1, <1>2

\* meets: an audience the viewer is in, everyone with more access is in.
LEMMA MeetsMonotone ==
    ASSUME NEW v \in Viewer, NEW w \in Viewer, AtLeast(v, w),
           NEW a \in Audience, meets(w, a)
    PROVE  meets(v, a)
<1>1. viewerTier(v) \in Tier /\ viewerTier(w) \in Tier
  BY DEF viewerTier, Tier
<1> QED
  BY <1>1 DEF AtLeast, meets, tierMeets, Tier, Audience, everyone, signedIn, contributors

\* sectionLimit: a valid section policy gives the higher tier at least as
\* many rows.
LEMMA LimitMonotone ==
    ASSUME NEW s, NEW p \in SectionPolicy, validateSectionPolicy(s, p),
           NEW t \in Tier, NEW u \in Tier, u >= t
    PROVE  tierLimit(p, u) >= tierLimit(p, t)
<1>1. PreviewMax \in Nat
  BY GateAssumption
<1>2. p.level \in [Tier -> Level] /\ p.previewRows \in 1 .. PreviewMax
  BY <1>1 DEF SectionPolicy, validateSectionPolicy
<1>3. p.level[0] <= p.level[1] /\ p.level[1] <= p.level[2]
  BY DEF validateSectionPolicy
<1>4. p.level[0] \in 0 .. 2 /\ p.level[1] \in 0 .. 2 /\ p.level[2] \in 0 .. 2
  BY <1>2 DEF Tier, Level, hidden, full
<1>5. p.level[t] <= p.level[u] /\ p.level[t] \in 0 .. 2 /\ p.level[u] \in 0 .. 2
  BY <1>3, <1>4 DEF Tier
<1> QED
  BY <1>1, <1>2, <1>5 DEF tierLimit, Infinity, hidden, preview, full

\* Whatever overrides are stored, a viewer with more access never sees less:
\* no fewer rows of a section, the partner's rows if anyone below gets them,
\* no value withheld that someone below sees.
THEOREM AccessIsMonotone == GateSpec => []MoreAccessShowsMore
<1>1. GateTypeOK => MoreAccessShowsMore
  <2> SUFFICES ASSUME GateTypeOK, NEW v \in Viewer, NEW w \in Viewer, AtLeast(v, w)
               PROVE  /\ \A s \in Section : /\ sectionLimit(s, v) >= sectionLimit(s, w)
                                            /\ sectionPartnerRows(s, w) => sectionPartnerRows(s, v)
                      /\ \A f \in Field, partner \in BOOLEAN :
                           withheld(f, v, partner) => withheld(f, w, partner)
    BY DEF MoreAccessShowsMore
  <2>1. /\ viewerTier(v) \in Tier /\ viewerTier(w) \in Tier
        /\ viewerTier(v) >= viewerTier(w) /\ (w.admin => v.admin)
    BY DEF viewerTier, Tier, AtLeast
  <2>2. ASSUME NEW s \in Section
        PROVE  sectionLimit(s, v) >= sectionLimit(s, w)
    <3>1. PreviewMax \in Nat
      BY GateAssumption
    <3>2. section(s) \in SectionPolicy /\ validateSectionPolicy(s, section(s))
      BY SectionInForce
    <3>3. tierLimit(section(s), viewerTier(v)) >= tierLimit(section(s), viewerTier(w))
      BY <2>1, <3>2, LimitMonotone
    <3>4. Infinity >= tierLimit(section(s), viewerTier(w)) /\ Infinity >= Infinity
      BY <3>1, <3>2 DEF validateSectionPolicy, tierLimit, Infinity
    <3> QED
      BY <2>1, <3>3, <3>4 DEF sectionLimit
  <2>3. ASSUME NEW s \in Section, sectionPartnerRows(s, w)
        PROVE  sectionPartnerRows(s, v)
    <3>1. section(s).partnerAudience \in Audience
      BY SectionInForce DEF SectionPolicy
    <3> QED
      BY <2>3, <3>1, MeetsMonotone DEF sectionPartnerRows
  <2>4. ASSUME NEW f \in Field, NEW partner \in BOOLEAN, withheld(f, v, partner)
        PROVE  withheld(f, w, partner)
    <3>1. field(f).audience \in Audience /\ field(f).partnerAudience \in Audience
      BY FieldInForce DEF FieldPolicy
    <3>2. /\ meets(w, field(f).audience) => meets(v, field(f).audience)
          /\ meets(w, field(f).partnerAudience) => meets(v, field(f).partnerAudience)
      BY <3>1, MeetsMonotone
    <3> QED
      BY <2>4, <3>2 DEF withheld, fieldGate
  <2> QED
    BY <2>2, <2>3, <2>4
<1> QED
  BY <1>1, GateTypeCorrect, PTL

----------------------------------------------------------------------------
(* Hints. *)

\* Tier u receives more of s than tier t by the policy in force: the
\* condition sectionView's unlockBy tries the tiers above the viewer's with.
GainsRows(s, t, u) ==
    LET p == section(s)
    IN  \/ p.level[u] > p.level[t]
        \/ /\ p.level[u] # hidden
           /\ tierMeets(u, p.partnerAudience) /\ ~ tierMeets(t, p.partnerAudience)

\* Tier u is inside the audiences of f: the condition of fieldUnlockBy.
SeesValue(f, partner, u) ==
    /\ tierMeets(u, field(f).audience)
    /\ partner => tierMeets(u, field(f).partnerAudience)

\* unlockBy names the lowest tier above t that gains, and none without one.
LEMMA UnlockByIsLowest ==
    ASSUME NEW s, NEW t \in Tier
    PROVE  /\ unlockBy(s, t) # 0 => /\ unlockBy(s, t) \in Tier /\ unlockBy(s, t) > t
                                    /\ GainsRows(s, t, unlockBy(s, t))
           /\ \A w \in Tier : w > t /\ (unlockBy(s, t) = 0 \/ w < unlockBy(s, t)) => ~ GainsRows(s, t, w)
<1> DEFINE Lowest(u) == u > t /\ GainsRows(s, t, u) /\ \A w \in Tier : w > t /\ GainsRows(s, t, w) => u <= w
<1>1. unlockBy(s, t) = unlockFor(t, IF \E u \in Tier : u > t /\ GainsRows(s, t, u)
                                    THEN CHOOSE u \in Tier : Lowest(u) ELSE t)
  BY DEF unlockBy, LowestAbove, GainsRows
<1>2. CASE \E u \in Tier : u > t /\ GainsRows(s, t, u)
  <2>1. \E u \in Tier : Lowest(u)
    <3> HIDE DEF GainsRows
    <3> QED
      BY <1>2 DEF Tier
  <2>2. PICK u \in Tier : Lowest(u) /\ u = CHOOSE x \in Tier : Lowest(x)
    BY <2>1
  <2>3. unlockBy(s, t) = u
    BY <1>1, <1>2, <2>2 DEF unlockFor, Tier
  <2> QED
    BY <2>2, <2>3 DEF Tier
<1>3. CASE ~ \E u \in Tier : u > t /\ GainsRows(s, t, u)
  BY <1>1, <1>3 DEF unlockFor
<1> QED
  BY <1>2, <1>3

\* A tier that gains by the policy in force is one some rows are shown to.
LEMMA GainsMeansReceives ==
    ASSUME GateTypeOK, NEW s \in Section, NEW t \in Tier, NEW u \in Tier, u > t
    PROVE  GainsRows(s, t, u) <=> ReceivesMore(s, t, u)
<1> DEFINE p == section(s)
<1>1. PreviewMax \in Nat
  BY GateAssumption
<1>2. p \in SectionPolicy /\ validateSectionPolicy(s, p)
  BY SectionInForce
<1>3. /\ p.level[t] \in 0 .. 2 /\ p.level[u] \in 0 .. 2 /\ p.level[t] <= p.level[u]
      /\ p.previewRows \in 1 .. PreviewMax
  <2>1. p.level \in [Tier -> Level] /\ p.previewRows \in 1 .. PreviewMax
    BY <1>2 DEF SectionPolicy, validateSectionPolicy
  <2>2. p.level[0] <= p.level[1] /\ p.level[1] <= p.level[2]
    BY <1>2 DEF validateSectionPolicy
  <2> QED
    BY <2>1, <2>2 DEF Tier, Level, hidden, full
<1>4. tierMeets(t, p.partnerAudience) => tierMeets(u, p.partnerAudience)
  BY DEF tierMeets, Tier
<1>5. ASSUME GainsRows(s, t, u)
      PROVE  ReceivesMore(s, t, u)
  <2>1. p.level[u] # hidden
    BY <1>3, <1>5 DEF GainsRows, hidden
  <2>2. CASE p.level[t] = hidden
    <3>1. Received(s, u, 1, 0) > Received(s, t, 1, 0)
      BY <1>1, <1>3, <2>1, <2>2 DEF Received, tierLimit, Infinity, hidden, preview
    <3> QED
      BY <3>1, <1>1 DEF ReceivesMore
  <2>3. CASE p.level[t] = preview /\ p.level[u] = full
    <3>1. Received(s, u, PreviewMax + 1, 0) > Received(s, t, PreviewMax + 1, 0)
      BY <1>1, <1>3, <2>3 DEF Received, tierLimit, Infinity, hidden, preview, full
    <3> QED
      BY <3>1, <1>1 DEF ReceivesMore
  <2>4. CASE p.level[u] # hidden /\ tierMeets(u, p.partnerAudience) /\ ~ tierMeets(t, p.partnerAudience)
    <3>1. Received(s, u, 0, 1) > Received(s, t, 0, 1)
      BY <1>1, <1>3, <2>4 DEF Received, tierLimit, Infinity, hidden, preview
    <3> QED
      BY <3>1, <1>1 DEF ReceivesMore
  <2> QED
    BY <1>3, <1>5, <2>2, <2>3, <2>4 DEF GainsRows, hidden, preview, full
<1>6. ASSUME ~ GainsRows(s, t, u)
      PROVE  ~ ReceivesMore(s, t, u)
  <2> SUFFICES ASSUME NEW n \in 0 .. PreviewMax + 1, NEW m \in 0 .. PreviewMax + 1
               PROVE  Received(s, u, n, m) <= Received(s, t, n, m)
    <3>1. \A n, m \in 0 .. PreviewMax + 1 :
            Received(s, u, n, m) \in Int /\ Received(s, t, n, m) \in Int
      BY <1>1, <1>3 DEF Received, tierLimit, Infinity
    <3> QED
      BY <3>1 DEF ReceivesMore
  <2>1. p.level[u] = p.level[t]
    BY <1>3, <1>6 DEF GainsRows
  <2>2. p.level[u] = hidden \/ (tierMeets(u, p.partnerAudience) <=> tierMeets(t, p.partnerAudience))
    BY <1>4, <1>6 DEF GainsRows
  <2> QED
    BY <1>1, <1>3, <2>1, <2>2 DEF Received, tierLimit, Infinity, hidden, preview
<1> QED
  BY <1>5, <1>6

\* fieldUnlockBy names the lowest tier that sees a value the viewer's tier
\* does not; contributors see every value.
LEMMA FieldUnlockByIsLowest ==
    ASSUME GateTypeOK, NEW f \in Field, NEW partner \in BOOLEAN, NEW t \in Tier,
           ~ SeesValue(f, partner, t)
    PROVE  /\ fieldUnlockBy(f, t, partner) \in Tier /\ fieldUnlockBy(f, t, partner) > t
           /\ \A w \in Tier : SeesValue(f, partner, w) <=> w >= fieldUnlockBy(f, t, partner)
<1> DEFINE Lowest(u) == u > t /\ SeesValue(f, partner, u)
                        /\ \A w \in Tier : w > t /\ SeesValue(f, partner, w) => u <= w
<1>1. fieldUnlockBy(f, t, partner) =
        unlockFor(t, IF \E u \in Tier : u > t /\ SeesValue(f, partner, u)
                     THEN CHOOSE u \in Tier : Lowest(u) ELSE t)
  BY DEF fieldUnlockBy, LowestAbove, SeesValue
<1>2. field(f).audience \in Audience /\ field(f).partnerAudience \in Audience
  BY FieldInForce DEF FieldPolicy
<1>3. \A x, y \in Tier : SeesValue(f, partner, x) /\ x <= y => SeesValue(f, partner, y)
  BY DEF SeesValue, tierMeets, Tier
<1>4. SeesValue(f, partner, 2)
  BY <1>2 DEF SeesValue, tierMeets, Audience, everyone, signedIn, contributors
<1>5. 2 \in Tier /\ 2 > t
  BY <1>4 DEF Tier
<1>6. \E u \in Tier : Lowest(u)
  BY <1>4, <1>5 DEF Tier
<1>7. PICK u \in Tier : Lowest(u) /\ u = CHOOSE x \in Tier : Lowest(x)
  BY <1>6
<1>8. fieldUnlockBy(f, t, partner) = u
  BY <1>1, <1>4, <1>5, <1>7 DEF unlockFor, Tier
<1>9. ASSUME NEW w \in Tier
      PROVE  SeesValue(f, partner, w) <=> w >= u
  <2>1. w >= u => SeesValue(f, partner, w)
    BY <1>3, <1>7 DEF Tier
  <2>2. w > t /\ SeesValue(f, partner, w) => w >= u
    BY <1>7 DEF Tier
  <2>3. w <= t => ~ SeesValue(f, partner, w)
    BY <1>3
  <2>4. w > t \/ w <= t
    BY DEF Tier
  <2> QED
    BY <2>1, <2>2, <2>3, <2>4
<1>10. u > t
  BY <1>7
<1> HIDE DEF Lowest
<1> QED
  BY <1>8, <1>9, <1>10

\* A value is withheld from exactly the viewers whose tier does not see it;
\* from an admin none is.
LEMMA WithheldFromTiers ==
    ASSUME NEW f, NEW v \in Viewer, NEW partner \in BOOLEAN
    PROVE  withheld(f, v, partner) <=> ~ v.admin /\ ~ SeesValue(f, partner, viewerTier(v))
BY DEF withheld, fieldGate, SeesValue, meets

\* Whatever overrides are stored, a hint is kept: the tier a section's hint
\* names is the lowest one above the viewer's that receives more rows of it,
\* and a withheld value names the lowest tier that sees it.
THEOREM HintsPromiseRight == GateSpec => []HintsAreKept
<1>1. GateTypeOK => SectionHintsAreKept
  <2> SUFFICES ASSUME GateTypeOK, NEW s \in Section, NEW t \in Tier
               PROVE  /\ unlockBy(s, t) # 0 => unlockBy(s, t) > t /\ ReceivesMore(s, t, unlockBy(s, t))
                      /\ \A w \in Tier : w > t /\ (unlockBy(s, t) = 0 \/ w < unlockBy(s, t)) => ~ ReceivesMore(s, t, w)
    BY DEF SectionHintsAreKept
  <2> QED
    BY UnlockByIsLowest, GainsMeansReceives
<1>2. GateTypeOK => MaskedValuesSayHow
  <2> SUFFICES ASSUME GateTypeOK, NEW f \in Field, NEW v \in Viewer, NEW partner \in BOOLEAN,
                      withheld(f, v, partner)
               PROVE  /\ fieldUnlockBy(f, viewerTier(v), partner) > viewerTier(v)
                      /\ \A w \in Viewer : ~ w.admin =>
                           (withheld(f, w, partner)
                              <=> viewerTier(w) < fieldUnlockBy(f, viewerTier(v), partner))
    BY DEF MaskedValuesSayHow
  <2> DEFINE u == fieldUnlockBy(f, viewerTier(v), partner)
  <2>1. \A w \in Viewer : viewerTier(w) \in Tier
    BY DEF viewerTier, Tier
  <2>2. ~ SeesValue(f, partner, viewerTier(v))
    BY WithheldFromTiers
  <2>3. u \in Tier /\ u > viewerTier(v) /\ \A w \in Tier : SeesValue(f, partner, w) <=> w >= u
    BY <2>1, <2>2, FieldUnlockByIsLowest
  <2>4. ASSUME NEW w \in Viewer, ~ w.admin
        PROVE  withheld(f, w, partner) <=> viewerTier(w) < u
    <3>1. withheld(f, w, partner) <=> ~ SeesValue(f, partner, viewerTier(w))
      BY <2>4, WithheldFromTiers
    <3>2. SeesValue(f, partner, viewerTier(w)) <=> viewerTier(w) >= u
      BY <2>1, <2>3
    <3>3. viewerTier(w) >= u <=> ~ (viewerTier(w) < u)
      BY <2>1, <2>3 DEF Tier
    <3> QED
      BY <3>1, <3>2, <3>3
  <2> QED
    BY <2>3, <2>4
<1> QED
  BY <1>1, <1>2, GateTypeCorrect, PTL DEF HintsAreKept

----------------------------------------------------------------------------
(* Directories. *)

\* Whatever overrides are stored, a directory filtered on a header fact lists
\* a row or not regardless of a value of it the viewer may not see.
THEOREM FiltersAreBlind == GateSpec => []FiltersRevealNothing
<1>1. ASSUME NEW f \in Field, NEW v \in Viewer, NEW partner \in BOOLEAN,
             NEW wanted, NEW x, withheld(f, v, partner)
      PROVE  listed(f, v, [value |-> x, partner |-> partner], wanted) <=> ignored(f, v)
  BY <1>1 DEF withheld, listed, ignored, narrowed
<1>2. FiltersRevealNothing
  BY <1>1 DEF FiltersRevealNothing
<1> QED
  BY <1>2, PTL

\* Whatever overrides are stored, where listAccessFor saves the contribution
\* lookup no directory of header facts and no card reads differently for it.
THEOREM QuickAccessReadsAlike == GateSpec => []LookupSavedIsNotMissed
<1>1. GateTypeOK => LookupSavedIsNotMissed
  <2> SUFFICES ASSUME GateTypeOK, ~ needsContributionLookup, NEW v \in Viewer, v.signedIn,
                      NEW role \in {"ADMIN", "USER"}, role = (IF v.admin THEN "ADMIN" ELSE "USER")
               PROVE  /\ \A f \in Field : fieldGate(f, v) = fieldGate(f, listAccess(v, role))
                      /\ \A s \in CardSections :
                           sectionPartnerRows(s, v) = sectionPartnerRows(s, listAccess(v, role))
    BY DEF LookupSavedIsNotMissed
  <2> DEFINE quick == listAccess(v, role)
  <2>1. /\ quick.admin <=> v.admin
        /\ viewerTier(quick) = IF v.admin THEN 2 ELSE 1
        /\ v.admin => viewerTier(v) = 2
        /\ viewerTier(v) \in {1, 2}
    <3>1. v \in [unlocked : BOOLEAN, signedIn : BOOLEAN, admin : BOOLEAN]
          /\ (v.unlocked => v.signedIn) /\ (v.admin => v.unlocked)
      BY DEF Viewer
    <3>2. role \in {"ADMIN", "CONTRIBUTOR"} <=> v.admin
      BY <3>1
    <3>3. quick.admin = v.admin /\ quick.signedIn = v.signedIn /\ (quick.unlocked <=> v.admin)
      BY <3>1, <3>2 DEF listAccess
    <3> QED
      BY <3>1, <3>3 DEF viewerTier
  <2>2. ASSUME NEW a \in Audience, a # contributors
        PROVE  meets(v, a) <=> meets(quick, a)
    <3>1. tierMeets(viewerTier(v), a) <=> tierMeets(viewerTier(quick), a)
      BY <2>1, <2>2 DEF tierMeets, Audience, everyone, signedIn, contributors
    <3> QED
      BY <2>1, <3>1 DEF meets
  <2>3. ASSUME NEW f \in Field
        PROVE  fieldGate(f, v) = fieldGate(f, quick)
    <3>1. field(f).audience \in Audience /\ field(f).partnerAudience \in Audience
      BY FieldInForce DEF FieldPolicy
    <3>2. field(f).audience # contributors /\ field(f).partnerAudience # contributors
      BY DEF needsContributionLookup
    <3> QED
      BY <2>2, <3>1, <3>2 DEF fieldGate
  <2>4. ASSUME NEW s \in CardSections
        PROVE  sectionPartnerRows(s, v) = sectionPartnerRows(s, quick)
    <3>1. section(s).partnerAudience \in Audience
      BY SectionInForce, GateAssumption DEF SectionPolicy
    <3>2. section(s).partnerAudience # contributors
      BY DEF needsContributionLookup
    <3> QED
      BY <2>2, <3>1, <3>2 DEF sectionPartnerRows, meets
  <2> QED
    BY <2>3, <2>4
<1> QED
  BY <1>1, GateTypeCorrect, PTL

----------------------------------------------------------------------------
(* GatePolicy: the inductive invariant. *)

\* A load in flight is the one its process knows of, and what it has read is
\* neither older than what the process serves nor newer than the tables.
LoadIsCurrent(l) ==
    LET p == load[l].proc
    IN  /\ refreshing[p] = l
        /\ \A t \in Table : t <= Len(load[l].read) =>
             snapshot[p][t] <= load[l].read[t] /\ load[l].read[t] <= db[t]

\* A write waits for a load of its own process; one that started its load
\* had been written before the load read anything.
RequestWaits(r) ==
    LET q == req[r]
    IN  /\ q.version <= db[q.table]
        /\ q.load # none =>
             /\ load[q.load] # none
             /\ load[q.load].proc = q.proc
             /\ ~ q.joined /\ q.table <= Len(load[q.load].read) =>
                  q.version <= load[q.load].read[q.table]

LoadsAreCurrent == \A l \in Load : load[l] # none => LoadIsCurrent(l)
RequestsWait == \A r \in Request : req[r] # none => RequestWaits(r)

\* Nothing is served that is not in the tables.
ServedIsStored == \A p \in Process, t \in Table : snapshot[p][t] <= db[t]

IInv == TypeOK /\ LoadsAreCurrent /\ RequestsWait /\ ServedIsStored /\ OwnReloadIsServed

USE GatePolicyAssumption, NoneAssumption
USE DEF Table, Version

----------------------------------------------------------------------------
\* What snapshot, answered and answeredOwn hold.
Versions == [Process -> [Table -> Version]]

\* A nonempty set of versions has a greatest one.
LEMMA NewestExists ==
    ASSUME NEW s \in SUBSET Version, s # {}
    PROVE  LET v == CHOOSE v \in s : \A w \in s : w <= v
           IN  v \in s /\ \A w \in s : w <= v
<1> DEFINE T == {k \in Nat : \E v \in s : k = MaxWrites - v}
<1>1. T # {}
  <2>1. PICK v \in s : TRUE
    OBVIOUS
  <2>2. MaxWrites - v \in Nat
    BY <2>1
  <2> QED BY <2>1, <2>2
<1>2. PICK k \in T : \A y \in T : ~ (<<y, k>> \in OpToRel(<, Nat))
  <2>1. T \subseteq Nat
    OBVIOUS
  <2> HIDE DEF T
  <2> QED BY <1>1, <2>1, NatLessThanWellFounded, WFMin
<1>3. PICK v \in s : k = MaxWrites - v
  BY <1>2
<1>4. \A w \in s : w <= v
  <2> TAKE w \in s
  <2>1. MaxWrites - w \in T
    BY DEF T
  <2>2. ~ (MaxWrites - w < k)
    BY <1>2, <2>1 DEF OpToRel
  <2> QED BY <1>3, <2>2
<1> QED BY <1>4

\* Confirming the writes of rs moves the versions answered by p to versions of
\* those writes, and no others.
LEMMA ConfirmedVersion ==
    ASSUME NEW was \in Versions, NEW p \in Process,
           NEW rs \in SUBSET Request, \A r \in rs : req[r] \in RequestRecord,
           NEW q \in Process, NEW t \in Table
    PROVE  /\ Confirmed(was, p, rs)[q][t] \in Version
           /\ Confirmed(was, p, rs)[q][t] # was[q][t] =>
                q = p /\ \E r \in rs : /\ req[r].table = t
                                     /\ Confirmed(was, p, rs)[q][t] = req[r].version
<1> DEFINE vs(u) == {req[r].version : r \in {k \in rs : req[k].table = u}} \cup {was[p][u]}
           top(u) == CHOOSE v \in vs(u) : \A w \in vs(u) : w <= v
<1>1. vs(t) \in SUBSET Version /\ vs(t) # {}
  <2>1. \A r \in rs : req[r].version \in Version
    BY DEF RequestRecord
  <2>2. was[p][t] \in Version
    BY DEF Versions
  <2> QED BY <2>1, <2>2
<1>2. top(t) \in vs(t)
  <2> HIDE DEF vs
  <2> QED BY <1>1, NewestExists
<1>3. Confirmed(was, p, rs) = [was EXCEPT ![p] = [u \in Table |-> top(u)]]
  BY DEF Confirmed
<1>4. CASE q = p
  <2>1. Confirmed(was, p, rs)[q][t] = top(t)
    <3> HIDE DEF top
    <3> QED BY <1>3, <1>4 DEF Versions
  <2> HIDE DEF top
  <2> QED BY <1>1, <1>2, <1>4, <2>1
<1>5. CASE q # p
  <2>1. Confirmed(was, p, rs)[q] = was[q]
    <3> HIDE DEF top
    <3> QED BY <1>3, <1>5 DEF Versions
  <2> QED BY <2>1, <1>5 DEF Versions
<1> QED BY <1>4, <1>5

LEMMA ConfirmedType ==
    ASSUME NEW was \in Versions, NEW p \in Process,
           NEW rs \in SUBSET Request, \A r \in rs : req[r] \in RequestRecord
    PROVE  Confirmed(was, p, rs) \in Versions
<1> DEFINE top(u) == CHOOSE v \in {req[r].version : r \in {k \in rs : req[k].table = u}} \cup {was[p][u]} :
                       \A w \in {req[r].version : r \in {k \in rs : req[k].table = u}} \cup {was[p][u]} : w <= v
<1>1. Confirmed(was, p, rs) = [was EXCEPT ![p] = [u \in Table |-> top(u)]]
  BY DEF Confirmed
<1>2. \A q \in Process, t \in Table : Confirmed(was, p, rs)[q][t] \in Version
  BY ConfirmedVersion
<1> HIDE DEF top
<1>3. \A u \in Table : top(u) \in Version
  BY <1>1, <1>2 DEF Versions
<1> QED BY <1>1, <1>3 DEF Versions

\* A load that starts while its process has none in flight.
LEMMA StartsKeeps ==
    ASSUME IInv, NEW p \in Process, NEW l \in Load, NEW by \in {"boot", "current", "admin"},
           idle(p), starts(p, l, by), UNCHANGED <<db, snapshot>>
    PROVE  /\ load' \in [Load -> LoadRecord \cup {none}]
           /\ refreshing' \in [Process -> Load \cup {none}]
           /\ \A k \in Load : load'[k] # none => Len(load'[k].read) <= TableCount
           /\ \A q \in Process : refreshing'[q] # none =>
                load'[refreshing'[q]] # none /\ load'[refreshing'[q]].proc = q
           /\ LoadsAreCurrent'
           /\ load'[l] # none /\ load'[l].proc = p /\ Len(load'[l].read) = 0
           /\ \A k \in Load : load[k] # none => load'[k] = load[k]
<1> DEFINE new == [proc |-> p, by |-> by, read |-> <<>>]
<1>1. /\ new \in LoadRecord /\ new # none
      /\ new.proc = p /\ Len(new.read) = 0
  <2>1. <<>> \in Seq(Version) /\ Len(<<>>) = 0
    OBVIOUS
  <2>2. new \in LoadRecord
    BY <2>1 DEF LoadRecord
  <2> QED BY <2>1, <2>2
<1> HIDE DEF new
<1>2. /\ load' = [load EXCEPT ![l] = new] /\ load[l] = none
      /\ refreshing' = [refreshing EXCEPT ![p] = l]
      /\ refreshing[p] = none
  BY DEF starts, new, idle
<1>3. /\ load \in [Load -> LoadRecord \cup {none}]
      /\ refreshing \in [Process -> Load \cup {none}]
      /\ \A k \in Load : load[k] # none => Len(load[k].read) <= TableCount
      /\ \A q \in Process : refreshing[q] # none =>
           load[refreshing[q]] # none /\ load[refreshing[q]].proc = q
  BY DEF IInv, TypeOK
<1>4. /\ load' \in [Load -> LoadRecord \cup {none}]
      /\ load'[l] = new
      /\ \A k \in Load \ {l} : load'[k] = load[k]
      /\ refreshing' \in [Process -> Load \cup {none}]
      /\ refreshing'[p] = l
      /\ \A q \in Process \ {p} : refreshing'[q] = refreshing[q] /\ refreshing[q] # l
  BY <1>1, <1>2, <1>3
<1>5. \A k \in Load : load'[k] # none => Len(load'[k].read) <= TableCount
  BY <1>1, <1>3, <1>4
<1>6. \A q \in Process : refreshing'[q] # none =>
         load'[refreshing'[q]] # none /\ load'[refreshing'[q]].proc = q
  BY <1>1, <1>3, <1>4
<1>7. LoadsAreCurrent'
  <2> SUFFICES ASSUME NEW k \in Load, load'[k] # none PROVE LoadIsCurrent(k)'
    BY DEF LoadsAreCurrent
  <2>1. CASE k = l
    BY <2>1, <1>1, <1>4 DEF LoadIsCurrent
  <2>2. CASE k # l
    <3>1. load[k] # none /\ load'[k] = load[k] /\ LoadIsCurrent(k)
      BY <2>2, <1>4 DEF IInv, LoadsAreCurrent
    <3>2. load[k].proc \in Process /\ load[k].proc # p
      BY <3>1, <1>2, <1>3 DEF LoadIsCurrent, LoadRecord
    <3> QED BY <3>1, <3>2, <1>4 DEF LoadIsCurrent
  <2> QED BY <2>1, <2>2
<1> QED BY <1>1, <1>2, <1>4, <1>5, <1>6, <1>7

----------------------------------------------------------------------------
(* One lemma for each kind of step. *)

\* boot, current, view: a load starts and nothing else changes.
LEMMA LoadStarts ==
    ASSUME IInv, NEW p \in Process, NEW l \in Load,
           boot(p, l) \/ current(p, l) \/ view(p, l)
    PROVE  IInv'
<1>1. PICK by \in {"boot", "current", "admin"} : idle(p) /\ starts(p, l, by)
  BY DEF boot, current, view
<1>2. UNCHANGED <<db, snapshot, fresh, up, req, answered, answeredOwn, failures, restarts>>
  BY DEF boot, current, view
<1>3. TypeOK' /\ LoadsAreCurrent'
  <2>1. /\ load' \in [Load -> LoadRecord \cup {none}]
        /\ refreshing' \in [Process -> Load \cup {none}]
        /\ \A k \in Load : load'[k] # none => Len(load'[k].read) <= TableCount
        /\ \A q \in Process : refreshing'[q] # none =>
             load'[refreshing'[q]] # none /\ load'[refreshing'[q]].proc = q
        /\ LoadsAreCurrent'
    <3>1. UNCHANGED <<db, snapshot>>
      BY <1>2
    <3> QED BY <1>1, <3>1, StartsKeeps
  <2>2. TypeOK
    BY DEF IInv
  <2> QED BY <1>2, <2>1, <2>2 DEF TypeOK
<1>4. RequestsWait'
  <2> SUFFICES ASSUME NEW r \in Request, req[r] # none PROVE RequestWaits(r)'
    BY <1>2 DEF RequestsWait
  <2>1. RequestWaits(r) /\ req[r].load \in Load \cup {none}
    BY DEF IInv, TypeOK, RequestsWait, RequestRecord
  <2>2. req[r].load # none => load'[req[r].load] = load[req[r].load]
    BY <2>1, <1>1, <1>2, StartsKeeps DEF RequestWaits
  <2>3. req' = req /\ db' = db
    BY <1>2
  <2> QED BY <2>1, <2>2, <2>3, <1>1, <1>2, StartsKeeps DEF RequestWaits
<1>5. ServedIsStored' /\ OwnReloadIsServed'
  BY <1>2 DEF IInv, ServedIsStored, OwnReloadIsServed
<1> QED BY <1>3, <1>4, <1>5 DEF IInv

LEMMA WriteStep ==
    ASSUME IInv, NEW r \in Request, NEW p \in Process, NEW t \in Table, write(r, p, t)
    PROVE  IInv'
<1> DEFINE new == [proc |-> p, table |-> t, version |-> db[t] + 1,
                   load |-> none, joined |-> FALSE]
<1> USE DEF IInv
<1>1. /\ db \in [Table -> Version] /\ db[t] < MaxWrites
      /\ db' = [db EXCEPT ![t] = db[t] + 1]
      /\ req \in [Request -> RequestRecord \cup {none}]
      /\ req' = [req EXCEPT ![r] = new]
      /\ UNCHANGED <<snapshot, fresh, refreshing, up, load, answered, answeredOwn,
                     failures, restarts>>
  BY DEF write, TypeOK
<1>2. db' \in [Table -> Version] /\ db'[t] = db[t] + 1
  BY <1>1
<1>3. \A u \in Table : db[u] <= db'[u]
  BY <1>1
<1>4. new \in RequestRecord /\ new # none
  <2>1. db[t] + 1 \in Version
    BY <1>1
  <2>2. new \in RequestRecord
    BY <2>1 DEF RequestRecord
  <2> QED BY <2>2
<1>5. TypeOK'
  <2>1. req' \in [Request -> RequestRecord \cup {none}]
    BY <1>1, <1>4
  <2> QED BY <1>1, <1>2, <2>1 DEF TypeOK
<1>6. LoadsAreCurrent'
  <2> SUFFICES ASSUME NEW l \in Load, load[l] # none, LoadIsCurrent(l) PROVE LoadIsCurrent(l)'
    BY <1>1 DEF LoadsAreCurrent
  <2>1. load[l] \in LoadRecord
    BY DEF TypeOK
  <2>2. \A u \in Table : u <= Len(load[l].read) => load[l].read[u] \in Version
    BY <2>1 DEF LoadRecord
  <2>3. UNCHANGED <<load, refreshing, snapshot>>
    BY <1>1
  <2> QED BY <1>1, <1>2, <1>3, <2>2, <2>3 DEF LoadIsCurrent
<1>7. RequestsWait'
  <2> SUFFICES ASSUME NEW q \in Request, req'[q] # none PROVE RequestWaits(q)'
    BY DEF RequestsWait
  <2>1. CASE q = r
    <3>1. req'[q] = new
      BY <2>1, <1>1
    <3>2. new.version <= db'[new.table] /\ new.load = none
      BY <1>1, <1>2
    <3> QED BY <3>1, <3>2 DEF RequestWaits
  <2>2. CASE q # r
    <3>1. req'[q] = req[q] /\ RequestWaits(q) /\ req[q] \in RequestRecord
      BY <2>2, <1>1 DEF RequestsWait
    <3>2. load' = load
      BY <1>1
    <3>3. req[q].version \in Version /\ req[q].table \in Table
      BY <3>1 DEF RequestRecord
    <3>4. req[q].version <= db'[req[q].table]
      BY <3>1, <3>3, <1>1, <1>2, <1>3 DEF RequestWaits
    <3> QED BY <3>1, <3>2, <3>4 DEF RequestWaits
  <2> QED BY <2>1, <2>2
<1>8. ServedIsStored'
  <2> SUFFICES ASSUME NEW q \in Process, NEW u \in Table PROVE snapshot[q][u] <= db'[u]
    BY <1>1 DEF ServedIsStored
  <2>1. snapshot \in [Process -> [Table -> Version]]
    BY DEF TypeOK
  <2>2. snapshot[q][u] \in Version
    BY <2>1
  <2>3. snapshot[q][u] <= db[u]
    BY DEF ServedIsStored
  <2>4. db[u] \in Version /\ db'[u] \in Version /\ db[u] <= db'[u]
    BY <1>1, <1>2, <1>3
  <2> QED BY <2>2, <2>3, <2>4
<1>9. OwnReloadIsServed'
  BY <1>1 DEF OwnReloadIsServed
<1> QED BY <1>5, <1>6, <1>7, <1>8, <1>9

\* adminView: the write starts a load, which has read nothing, or joins one.
LEMMA AdminViewStep ==
    ASSUME IInv, NEW r \in Request, NEW l \in Load, adminView(r, l)
    PROVE  IInv'
<1> DEFINE p == req[r].proc
<1> USE DEF IInv
<1>1. /\ req[r] # none /\ req[r] \in RequestRecord /\ RequestWaits(r)
      /\ req \in [Request -> RequestRecord \cup {none}]
      /\ UNCHANGED <<db, snapshot, fresh, up, answered, answeredOwn, failures, restarts>>
      /\ p \in Process
  BY DEF adminView, TypeOK, RequestsWait, RequestRecord
<1>2. ServedIsStored' /\ OwnReloadIsServed'
  BY <1>1 DEF ServedIsStored, OwnReloadIsServed
<1>3. CASE idle(p)
  <2>1. starts(p, l, "admin") /\ req' = [req EXCEPT ![r].load = l]
    BY <1>3 DEF adminView
  <2>2. /\ req' \in [Request -> RequestRecord \cup {none}]
        /\ req'[r] = [req[r] EXCEPT !.load = l]
        /\ \A q \in Request \ {r} : req'[q] = req[q]
    BY <2>1, <1>1 DEF RequestRecord
  <2>3. TypeOK' /\ LoadsAreCurrent'
    BY <1>1, <1>3, <2>1, <2>2, StartsKeeps DEF TypeOK
  <2>4. RequestsWait'
    <3> SUFFICES ASSUME NEW q \in Request, req'[q] # none PROVE RequestWaits(q)'
      BY DEF RequestsWait
    <3>1. CASE q = r
      <4>1. /\ req'[r].version = req[r].version /\ req'[r].table = req[r].table
            /\ req'[r].proc = p /\ req'[r].load = l
            /\ req[r].table \in Table
        BY <2>2, <1>1 DEF RequestRecord
      <4>2. load'[l] # none /\ load'[l].proc = p /\ Len(load'[l].read) = 0
        BY <1>1, <1>3, <2>1, StartsKeeps
      <4>3. ~ req[r].table <= Len(load'[l].read)
        BY <4>1, <4>2
      <4>4. db' = db
        BY <1>1
      <4> QED BY <3>1, <4>1, <4>2, <4>3, <4>4, <1>1 DEF RequestWaits
    <3>2. CASE q # r
      <4>1. req'[q] = req[q] /\ RequestWaits(q) /\ req[q].load \in Load \cup {none}
        BY <3>2, <2>2 DEF RequestsWait, RequestRecord
      <4>2. req[q].load # none => load'[req[q].load] = load[req[q].load]
        BY <4>1, <1>1, <1>3, <2>1, StartsKeeps DEF RequestWaits
      <4>3. db' = db
        BY <1>1
      <4> QED BY <4>1, <4>2, <4>3 DEF RequestWaits
    <3> QED BY <3>1, <3>2
  <2> QED BY <1>2, <2>3, <2>4
<1>4. CASE ~ idle(p)
  <2>1. /\ l = refreshing[p] /\ UNCHANGED <<load, refreshing>>
        /\ req' = [req EXCEPT ![r].load = l, ![r].joined = TRUE]
    BY <1>4 DEF adminView
  <2>2. /\ req' \in [Request -> RequestRecord \cup {none}]
        /\ req'[r] = [req[r] EXCEPT !.load = l, !.joined = TRUE]
        /\ \A q \in Request \ {r} : req'[q] = req[q]
    BY <2>1, <1>1 DEF RequestRecord
  <2>3. TypeOK' /\ LoadsAreCurrent'
    BY <1>1, <2>1, <2>2 DEF TypeOK, LoadsAreCurrent, LoadIsCurrent
  <2>4. RequestsWait'
    <3> SUFFICES ASSUME NEW q \in Request, req'[q] # none PROVE RequestWaits(q)'
      BY DEF RequestsWait
    <3>1. CASE q = r
      <4>1. /\ req'[r].version = req[r].version /\ req'[r].table = req[r].table
            /\ req'[r].proc = p /\ req'[r].load = l /\ req'[r].joined = TRUE
        BY <2>2, <1>1 DEF RequestRecord
      <4>2. load[l] # none /\ load[l].proc = p
        BY <1>1, <1>4, <2>1 DEF TypeOK, idle
      <4>3. UNCHANGED <<db, load>>
        BY <1>1, <2>1
      <4> QED BY <3>1, <4>1, <4>2, <4>3, <1>1 DEF RequestWaits
    <3>2. CASE q # r
      <4>1. req'[q] = req[q] /\ RequestWaits(q) /\ UNCHANGED <<db, load>>
        BY <3>2, <2>1, <2>2, <1>1 DEF RequestsWait
      <4> QED BY <4>1 DEF RequestWaits
    <3> QED BY <3>1, <3>2
  <2> QED BY <1>2, <2>3, <2>4
<1> QED BY <1>3, <1>4

\* load(): what is read now is what is stored now.
LEMMA ReadTableStep ==
    ASSUME IInv, NEW l \in Load, readTable(l)
    PROVE  IInv'
<1> DEFINE rd == load[l].read
           n == Len(rd)
           more == [load[l] EXCEPT !.read = Append(rd, db[n + 1])]
<1> USE DEF IInv
<1>1. /\ load[l] # none /\ n < TableCount
      /\ load \in [Load -> LoadRecord \cup {none}]
      /\ load' = [load EXCEPT ![l] = more]
      /\ UNCHANGED <<db, snapshot, fresh, refreshing, up, req, answered, answeredOwn,
                     failures, restarts>>
  BY DEF readTable, TypeOK
<1>2. /\ load[l] \in LoadRecord /\ rd \in Seq(Version) /\ n \in Nat
      /\ n + 1 \in Table /\ db[n + 1] \in Version
  BY <1>1 DEF LoadRecord, TypeOK
<1>3. /\ Append(rd, db[n + 1]) \in Seq(Version)
      /\ Len(Append(rd, db[n + 1])) = n + 1
      /\ Append(rd, db[n + 1])[n + 1] = db[n + 1]
      /\ \A t \in Table : t <= n => Append(rd, db[n + 1])[t] = rd[t]
  BY <1>2
<1>4. /\ more \in LoadRecord /\ more # none
      /\ more.read = Append(rd, db[n + 1]) /\ more.proc = load[l].proc
  <2>1. more \in LoadRecord
    BY <1>2, <1>3 DEF LoadRecord
  <2> QED BY <2>1, <1>2 DEF LoadRecord
<1> HIDE DEF more
<1>5. /\ load' \in [Load -> LoadRecord \cup {none}]
      /\ load'[l] = more
      /\ \A k \in Load \ {l} : load'[k] = load[k]
  BY <1>1, <1>4
<1>6. TypeOK'
  <2>1. \A k \in Load : load'[k] # none => Len(load'[k].read) <= TableCount
    BY <1>1, <1>2, <1>3, <1>4, <1>5 DEF TypeOK
  <2>2. \A p \in Process : refreshing[p] # none =>
           load'[refreshing[p]] # none /\ load'[refreshing[p]].proc = p
    <3> SUFFICES ASSUME NEW p \in Process, refreshing[p] # none
                 PROVE  load'[refreshing[p]] # none /\ load'[refreshing[p]].proc = p
      OBVIOUS
    <3>1. /\ refreshing[p] \in Load
          /\ load[refreshing[p]] # none /\ load[refreshing[p]].proc = p
      BY DEF TypeOK
    <3> QED BY <3>1, <1>4, <1>5
  <2> QED BY <1>1, <1>5, <2>1, <2>2 DEF TypeOK
<1>7. LoadsAreCurrent'
  <2> SUFFICES ASSUME NEW k \in Load, load'[k] # none PROVE LoadIsCurrent(k)'
    BY DEF LoadsAreCurrent
  <2>1. UNCHANGED <<refreshing, snapshot, db>>
    BY <1>1
  <2>2. CASE k = l
    <3>1. LoadIsCurrent(l) /\ load[l].proc \in Process
      BY <1>1, <1>2 DEF LoadsAreCurrent, LoadRecord
    <3>2. snapshot[load[l].proc][n + 1] <= db[n + 1]
      BY <3>1, <1>2 DEF ServedIsStored
    <3>3. load'[k].proc = load[l].proc /\ load'[k].read = Append(rd, db[n + 1])
      BY <2>2, <1>4, <1>5
    <3>4. Len(load'[k].read) = n + 1 /\ Table \subseteq Nat
      BY <1>3, <3>3 DEF Table
    <3>5. \A t \in Table : t <= n + 1 => t <= n \/ t = n + 1
      BY <1>2, <3>4
    <3>6. /\ refreshing[load[l].proc] = l
          /\ \A t \in Table : t <= n => snapshot[load[l].proc][t] <= rd[t] /\ rd[t] <= db[t]
      BY <3>1 DEF LoadIsCurrent
    <3>7. \A t \in Table : t <= n + 1 =>
             snapshot[load[l].proc][t] <= load'[k].read[t] /\ load'[k].read[t] <= db[t]
      <4> SUFFICES ASSUME NEW t \in Table, t <= n + 1
                   PROVE  snapshot[load[l].proc][t] <= load'[k].read[t] /\ load'[k].read[t] <= db[t]
        OBVIOUS
      <4>1. CASE t <= n
        <5>1. load'[k].read[t] = rd[t]
          BY <1>3, <3>3, <4>1
        <5> QED BY <3>6, <4>1, <5>1
      <4>2. CASE t = n + 1
        <5>1. load'[k].read[t] = db[t] /\ db[t] \in Nat
          BY <1>2, <1>3, <3>3, <4>2 DEF Version
        <5> QED BY <3>2, <4>2, <5>1
      <4> QED BY <3>5, <4>1, <4>2
    <3> QED BY <2>1, <2>2, <3>3, <3>4, <3>6, <3>7 DEF LoadIsCurrent
  <2>3. CASE k # l
    <3>1. load'[k] = load[k] /\ LoadIsCurrent(k)
      BY <2>3, <1>5 DEF LoadsAreCurrent
    <3> QED BY <2>1, <3>1 DEF LoadIsCurrent
  <2> QED BY <2>2, <2>3
<1>8. RequestsWait'
  <2> SUFFICES ASSUME NEW q \in Request, req[q] # none PROVE RequestWaits(q)'
    BY <1>1 DEF RequestsWait
  <2>1. /\ RequestWaits(q) /\ req[q] \in RequestRecord /\ UNCHANGED <<req, db>>
        /\ req[q].table \in Table /\ req[q].load \in Load \cup {none}
    BY <1>1 DEF RequestsWait, TypeOK, RequestRecord
  <2>2. CASE req[q].load = l
    <3>1. load'[l] = more /\ more # none /\ more.proc = req[q].proc
      BY <2>1, <2>2, <1>1, <1>4, <1>5 DEF RequestWaits
    <3>2. ~ req[q].joined /\ req[q].table <= n + 1 => req[q].version <= more.read[req[q].table]
      <4>1. CASE req[q].table <= n
        BY <4>1, <2>1, <2>2, <1>1, <1>3, <1>4 DEF RequestWaits
      <4>2. CASE req[q].table = n + 1
        BY <4>2, <2>1, <1>3, <1>4 DEF RequestWaits
      <4> QED BY <4>1, <4>2, <2>1, <1>2
    <3> QED BY <2>1, <2>2, <3>1, <3>2, <1>1, <1>3, <1>4 DEF RequestWaits
  <2>3. CASE req[q].load # l
    BY <2>1, <2>3, <1>5 DEF RequestWaits
  <2> QED BY <2>2, <2>3
<1>9. ServedIsStored' /\ OwnReloadIsServed'
  BY <1>1 DEF ServedIsStored, OwnReloadIsServed
<1> QED BY <1>6, <1>7, <1>8, <1>9

\* Of what is answered, only versions of the confirmed writes change.
LEMMA SettlesTypes ==
    ASSUME TypeOK, NEW l \in Load, load[l] # none, NEW rs \in SUBSET Waiting(l),
           settles(l, rs)
    PROVE  answered' \in Versions /\ answeredOwn' \in Versions
<1> DEFINE p == load[l].proc
           own == {r \in rs : ~ req[r].joined}
<1>1. p \in Process /\ answered \in Versions /\ answeredOwn \in Versions
  BY DEF TypeOK, LoadRecord, Versions
<1>2. answered' = Confirmed(answered, p, rs) /\ answeredOwn' = Confirmed(answeredOwn, p, own)
  BY DEF settles
<1>3. /\ rs \in SUBSET Request /\ own \in SUBSET Request
      /\ \A r \in rs : req[r] \in RequestRecord
      /\ \A r \in own : req[r] \in RequestRecord
  BY DEF TypeOK, Waiting
<1> HIDE DEF own, p
<1> QED BY <1>1, <1>2, <1>3, ConfirmedType

LEMMA SettlesAnswers ==
    ASSUME TypeOK, NEW l \in Load, load[l] # none, NEW rs \in SUBSET Waiting(l),
           settles(l, rs),
           NEW q \in Process, NEW t \in Table, answeredOwn'[q][t] # answeredOwn[q][t]
    PROVE  \E r \in rs : /\ q = load[l].proc
                       /\ ~ req[r].joined /\ req[r].table = t
                       /\ answeredOwn'[q][t] = req[r].version
<1> DEFINE p == load[l].proc
           own == {r \in rs : ~ req[r].joined}
<1>1. p \in Process /\ answeredOwn \in Versions
  BY DEF TypeOK, LoadRecord, Versions
<1>2. answeredOwn' = Confirmed(answeredOwn, p, own)
  BY DEF settles
<1>3. /\ own \in SUBSET Request
      /\ \A r \in own : req[r] \in RequestRecord /\ r \in rs /\ ~ req[r].joined
  BY DEF TypeOK, Waiting
<1> HIDE DEF own, p
<1>4. q = p /\ \E r \in own : req[r].table = t /\ answeredOwn'[q][t] = req[r].version
  BY <1>1, <1>2, <1>3, ConfirmedVersion
<1> QED BY <1>3, <1>4 DEF p

\* The load l ends, the writes of rs confirmed: what both ends have in common.
LEMMA SettlesKeeps ==
    ASSUME IInv, NEW l \in Load, load[l] # none, NEW rs \in SUBSET Waiting(l),
           settles(l, rs), db' = db,
           snapshot' \in [Process -> [Table -> Version]],
           \A q \in Process \ {load[l].proc} : snapshot'[q] = snapshot[q]
    PROVE  /\ load' \in [Load -> LoadRecord \cup {none}]
           /\ refreshing' \in [Process -> Load \cup {none}]
           /\ up' \in [Process -> BOOLEAN]
           /\ req' \in [Request -> RequestRecord \cup {none}]
           /\ \A k \in Load : load'[k] # none => Len(load'[k].read) <= TableCount
           /\ \A q \in Process : refreshing'[q] # none =>
                load'[refreshing'[q]] # none /\ load'[refreshing'[q]].proc = q
           /\ LoadsAreCurrent'
           /\ RequestsWait'
<1> DEFINE p == load[l].proc
<1> USE DEF IInv
<1>1. /\ load \in [Load -> LoadRecord \cup {none}] /\ p \in Process
      /\ refreshing \in [Process -> Load \cup {none}]
      /\ req \in [Request -> RequestRecord \cup {none}]
      /\ up \in [Process -> BOOLEAN]
      /\ refreshing[p] = l
  BY DEF TypeOK, LoadRecord, LoadsAreCurrent, LoadIsCurrent
<1>2. /\ refreshing' = [refreshing EXCEPT ![p] = none]
      /\ up' = [up EXCEPT ![p] = TRUE]
      /\ load' = [load EXCEPT ![l] = none]
      /\ req' = [r \in Request |-> IF r \in Waiting(l) THEN none ELSE req[r]]
  BY DEF settles, released
<1>5. /\ load' \in [Load -> LoadRecord \cup {none}] /\ load'[l] = none
      /\ \A k \in Load \ {l} : load'[k] = load[k]
      /\ refreshing' \in [Process -> Load \cup {none}]
      /\ refreshing'[p] = none
      /\ \A q \in Process \ {p} : refreshing'[q] = refreshing[q]
      /\ up' \in [Process -> BOOLEAN]
      /\ req' \in [Request -> RequestRecord \cup {none}]
  BY <1>1, <1>2
<1>6. \A k \in Load : load'[k] # none => k # l /\ load[k] # none /\ load'[k] = load[k]
  BY <1>5
<1>7. \A k \in Load : load'[k] # none => Len(load'[k].read) <= TableCount
  BY <1>6 DEF TypeOK
<1>8. \A q \in Process : refreshing'[q] # none =>
         load'[refreshing'[q]] # none /\ load'[refreshing'[q]].proc = q
  <2> SUFFICES ASSUME NEW q \in Process, refreshing'[q] # none
               PROVE  load'[refreshing'[q]] # none /\ load'[refreshing'[q]].proc = q
    OBVIOUS
  <2>1. q # p /\ refreshing'[q] = refreshing[q]
    BY <1>5
  <2>2. refreshing[q] \in Load /\ load[refreshing[q]] # none /\ load[refreshing[q]].proc = q
    BY <2>1 DEF TypeOK
  <2>3. refreshing[q] # l
    BY <2>1, <2>2
  <2> QED BY <2>1, <2>2, <2>3, <1>5
<1>9. LoadsAreCurrent'
  <2> SUFFICES ASSUME NEW k \in Load, load'[k] # none PROVE LoadIsCurrent(k)'
    BY DEF LoadsAreCurrent
  <2>1. k # l /\ load'[k] = load[k] /\ LoadIsCurrent(k) /\ load[k].proc \in Process
    BY <1>1, <1>6 DEF LoadsAreCurrent, LoadRecord
  <2>2. load[k].proc # p
    BY <2>1, <1>1 DEF LoadIsCurrent
  <2> QED BY <2>1, <2>2, <1>5 DEF LoadIsCurrent
<1>10. RequestsWait'
  <2> SUFFICES ASSUME NEW q \in Request, req'[q] # none PROVE RequestWaits(q)'
    BY DEF RequestsWait
  <2>1. req'[q] = req[q] /\ req[q] # none /\ req[q].load # l
    BY <1>2 DEF Waiting
  <2>2. RequestWaits(q) /\ req[q].load \in Load \cup {none}
    BY <2>1, <1>1 DEF RequestsWait, RequestRecord
  <2>3. req[q].load # none => load'[req[q].load] = load[req[q].load]
    BY <2>1, <2>2, <1>5
  <2> QED BY <2>1, <2>2, <2>3 DEF RequestWaits
<1> QED BY <1>5, <1>7, <1>8, <1>9, <1>10

\* The writes whose reload was their own were written before it read their
\* table, so that what it read serves them.
LEMMA LoadedStep ==
    ASSUME IInv, NEW l \in Load, loaded(l)
    PROVE  /\ IInv'
           /\ \A p \in Process, t \in Table : snapshot'[p][t] >= snapshot[p][t]
<1> DEFINE p == load[l].proc
<1> USE DEF IInv
<1>1. /\ load[l] # none /\ Len(load[l].read) = TableCount
      /\ load[l] \in LoadRecord /\ p \in Process
      /\ snapshot \in [Process -> [Table -> Version]]
      /\ snapshot' = [snapshot EXCEPT ![p] = load[l].read]
      /\ settles(l, Waiting(l))
      /\ db' = db /\ UNCHANGED <<failures, restarts>>
      /\ fresh' \in [Process -> BOOLEAN]
      /\ LoadIsCurrent(l)
  BY DEF loaded, TypeOK, LoadRecord, LoadsAreCurrent
<1>2. load[l].read \in [Table -> Version]
  BY <1>1 DEF LoadRecord
<1>3. /\ snapshot' \in [Process -> [Table -> Version]]
      /\ snapshot'[p] = load[l].read
      /\ \A q \in Process \ {p} : snapshot'[q] = snapshot[q]
  BY <1>1, <1>2
<1>4. \A t \in Table : /\ snapshot[p][t] <= load[l].read[t]
                       /\ load[l].read[t] <= db[t]
  BY <1>1 DEF LoadIsCurrent
<1>5. \A q \in Process, t \in Table : snapshot'[q][t] >= snapshot[q][t]
  <2> TAKE q \in Process, t \in Table
  <2>1. snapshot[q][t] \in Version
    BY <1>1
  <2>2. CASE q = p
    <3>1. snapshot'[q][t] = load[l].read[t] /\ load[l].read[t] \in Version
      BY <2>2, <1>2, <1>3
    <3> QED BY <2>1, <2>2, <3>1, <1>4
  <2>3. CASE q # p
    BY <2>1, <2>3, <1>3
  <2> QED BY <2>2, <2>3
<1>6. TypeOK' /\ LoadsAreCurrent' /\ RequestsWait'
  <2>1. Waiting(l) \in SUBSET Waiting(l)
    OBVIOUS
  <2>2. /\ load' \in [Load -> LoadRecord \cup {none}]
        /\ refreshing' \in [Process -> Load \cup {none}]
        /\ up' \in [Process -> BOOLEAN]
        /\ req' \in [Request -> RequestRecord \cup {none}]
        /\ \A k \in Load : load'[k] # none => Len(load'[k].read) <= TableCount
        /\ \A q \in Process : refreshing'[q] # none =>
             load'[refreshing'[q]] # none /\ load'[refreshing'[q]].proc = q
        /\ LoadsAreCurrent' /\ RequestsWait'
    BY <2>1, <1>1, <1>3, SettlesKeeps
  <2>3. answered' \in Versions /\ answeredOwn' \in Versions
    <3>1. TypeOK
      OBVIOUS
    <3> HIDE DEF IInv
    <3> QED BY <2>1, <3>1, <1>1, SettlesTypes
  <2>4. db \in [Table -> Version] /\ failures \in 0 .. MaxFailures /\ restarts \in 0 .. MaxRestarts
    BY DEF TypeOK
  <2> HIDE DEF IInv
  <2> QED BY <2>2, <2>3, <2>4, <1>1, <1>3 DEF TypeOK, Versions
<1>7. ServedIsStored'
  BY <1>1, <1>3, <1>4 DEF ServedIsStored
<1>8. OwnReloadIsServed'
  <2> SUFFICES ASSUME NEW q \in Process, NEW t \in Table
               PROVE  snapshot'[q][t] >= answeredOwn'[q][t]
    BY DEF OwnReloadIsServed
  <2>1. snapshot[q][t] >= answeredOwn[q][t]
    BY DEF OwnReloadIsServed
  <2>2. /\ snapshot[q][t] \in Version /\ snapshot'[q][t] \in Version
        /\ answeredOwn[q][t] \in Version
    <3>1. answeredOwn \in [Process -> [Table -> Version]]
      BY DEF TypeOK
    <3>2. snapshot \in [Process -> [Table -> Version]]
      BY <1>1
    <3>3. snapshot' \in [Process -> [Table -> Version]]
      BY <1>3
    <3> QED BY <3>1, <3>2, <3>3
  <2>3. snapshot'[q][t] >= answeredOwn[q][t]
    BY <2>1, <2>2, <1>5
  <2>4. CASE answeredOwn'[q][t] = answeredOwn[q][t]
    BY <2>3, <2>4
  <2>5. CASE answeredOwn'[q][t] # answeredOwn[q][t]
    <3>1. PICK r \in Waiting(l) : /\ q = p
                                  /\ ~ req[r].joined /\ req[r].table = t
                                  /\ answeredOwn'[q][t] = req[r].version
      <4>1. /\ Waiting(l) \in SUBSET Waiting(l) /\ TypeOK
            /\ load[l] # none /\ settles(l, Waiting(l))
        BY <1>1
      <4> HIDE DEF IInv
      <4> QED BY <4>1, <2>5, SettlesAnswers
    <3>2. r \in Request /\ req[r] # none /\ req[r].load = l /\ RequestWaits(r)
      BY <3>1 DEF Waiting, RequestsWait
    <3>3. req[r].version <= load[l].read[t]
      BY <3>1, <3>2, <1>1 DEF RequestWaits
    <3>4. req[r].version \in Version /\ load[l].read[t] \in Version
      BY <3>2, <1>2 DEF TypeOK, RequestRecord
    <3> QED BY <3>1, <3>3, <3>4, <1>3
  <2> QED BY <2>4, <2>5
<1> QED BY <1>5, <1>6, <1>7, <1>8

\* A failed load confirms nothing and leaves the snapshot.
LEMMA FailedStep ==
    ASSUME IInv, NEW l \in Load, failed(l)
    PROVE  IInv'
<1> USE DEF IInv
<1>1. /\ load[l] # none /\ load[l].proc \in Process
      /\ settles(l, {}) /\ db' = db /\ snapshot' = snapshot /\ restarts' = restarts
      /\ snapshot \in [Process -> [Table -> Version]]
      /\ fresh \in [Process -> BOOLEAN]
      /\ failures' \in 0 .. MaxFailures
  BY DEF failed, confirmedDespite, TypeOK, LoadRecord
<1>2. fresh' \in [Process -> BOOLEAN]
  <2>1. fresh' = [fresh EXCEPT ![load[l].proc] = @ \/ load[l].by = "current"]
    BY DEF failed
  <2> QED BY <2>1, <1>1
<1>3. {} \in SUBSET Waiting(l)
  OBVIOUS
<1>4. TypeOK' /\ LoadsAreCurrent' /\ RequestsWait'
  BY <1>1, <1>2, <1>3, SettlesKeeps, SettlesTypes DEF TypeOK, Versions
<1>5. ServedIsStored'
  BY <1>1 DEF ServedIsStored
<1>6. answeredOwn' = answeredOwn
  <2>1. ASSUME NEW q \in Process, NEW t \in Table
        PROVE  answeredOwn'[q][t] = answeredOwn[q][t]
    <3> SUFFICES ASSUME answeredOwn'[q][t] # answeredOwn[q][t] PROVE FALSE
      OBVIOUS
    <3>1. TypeOK /\ load[l] # none /\ settles(l, {})
      BY <1>1
    <3>2. \E r \in {} : /\ q = load[l].proc
                       /\ ~ req[r].joined /\ req[r].table = t
                       /\ answeredOwn'[q][t] = req[r].version
      BY <3>1, <1>3, SettlesAnswers
    <3> QED BY <3>2
  <2>2. /\ answeredOwn \in [Process -> [Table -> Version]]
        /\ answeredOwn' \in [Process -> [Table -> Version]]
    BY <1>4 DEF TypeOK
  <2> QED BY <2>1, <2>2
<1>7. OwnReloadIsServed'
  BY <1>1, <1>6 DEF OwnReloadIsServed
<1> QED BY <1>4, <1>5, <1>7

\* GATE_POLICY_TTL_MS passing changes nothing the invariant speaks of.
LEMMA ExpireStep ==
    ASSUME IInv, NEW p \in Process, expire(p)
    PROVE  IInv'
<1> USE DEF IInv
<1>1. /\ fresh' = [fresh EXCEPT ![p] = FALSE]
      /\ UNCHANGED <<db, snapshot, refreshing, up, load, req, answered, answeredOwn,
                     failures, restarts>>
  BY DEF expire
<1>2. TypeOK'
  BY <1>1 DEF TypeOK
<1>3. LoadsAreCurrent'
  BY <1>1 DEF LoadsAreCurrent, LoadIsCurrent
<1>4. RequestsWait'
  BY <1>1 DEF RequestsWait, RequestWaits
<1>5. ServedIsStored' /\ OwnReloadIsServed'
  BY <1>1 DEF ServedIsStored, OwnReloadIsServed
<1> QED BY <1>2, <1>3, <1>4, <1>5

\* A restart takes the loads and requests of its process along, and leaves
\* those of the others as they were.
LEMMA RestartStep ==
    ASSUME IInv, NEW p \in Process, restart(p)
    PROVE  IInv'
<1> USE DEF IInv
<1>1. /\ snapshot \in [Process -> [Table -> Version]]
      /\ answered \in [Process -> [Table -> Version]]
      /\ answeredOwn \in [Process -> [Table -> Version]]
      /\ fresh \in [Process -> BOOLEAN] /\ up \in [Process -> BOOLEAN]
      /\ refreshing \in [Process -> Load \cup {none}]
      /\ load \in [Load -> LoadRecord \cup {none}]
      /\ req \in [Request -> RequestRecord \cup {none}]
      /\ db \in [Table -> Version]
      /\ restarts \in 0 .. MaxRestarts
  BY DEF TypeOK
<1>2. /\ snapshot' = [snapshot EXCEPT ![p] = Defaults]
      /\ fresh' = [fresh EXCEPT ![p] = FALSE]
      /\ refreshing' = [refreshing EXCEPT ![p] = none]
      /\ up' = [up EXCEPT ![p] = FALSE]
      /\ load' = [l \in Load |-> IF load[l] # none /\ load[l].proc = p THEN none ELSE load[l]]
      /\ req' = [r \in Request |-> IF req[r] # none /\ req[r].proc = p THEN none ELSE req[r]]
      /\ answered' = [answered EXCEPT ![p] = Defaults]
      /\ answeredOwn' = [answeredOwn EXCEPT ![p] = Defaults]
      /\ restarts' = restarts + 1 /\ restarts < MaxRestarts
      /\ UNCHANGED <<db, failures>>
  BY DEF restart
<1>3. Defaults \in [Table -> Version] /\ \A t \in Table : Defaults[t] = 0
  BY DEF Defaults
<1>4. /\ refreshing'[p] = none
      /\ \A q \in Process \ {p} : refreshing'[q] = refreshing[q]
      /\ snapshot'[p] = Defaults /\ answeredOwn'[p] = Defaults
      /\ \A q \in Process \ {p} : /\ snapshot'[q] = snapshot[q]
                                  /\ answeredOwn'[q] = answeredOwn[q]
  BY <1>1, <1>2
<1>5. \A l \in Load : load'[l] # none =>
         load[l] # none /\ load'[l] = load[l] /\ load[l].proc # p
  BY <1>2
<1>6. \A l \in Load : load[l] # none /\ load[l].proc # p => load'[l] = load[l]
  BY <1>2
<1>7. TypeOK'
  <2>1. /\ snapshot' \in [Process -> [Table -> Version]]
        /\ answered' \in [Process -> [Table -> Version]]
        /\ answeredOwn' \in [Process -> [Table -> Version]]
    BY <1>1, <1>2, <1>3
  <2>2. /\ fresh' \in [Process -> BOOLEAN] /\ up' \in [Process -> BOOLEAN]
        /\ refreshing' \in [Process -> Load \cup {none}]
    BY <1>1, <1>2
  <2>3. load' \in [Load -> LoadRecord \cup {none}]
    BY <1>1, <1>2
  <2>4. req' \in [Request -> RequestRecord \cup {none}]
    BY <1>1, <1>2
  <2>5. \A l \in Load : load'[l] # none => Len(load'[l].read) <= TableCount
    BY <1>5 DEF TypeOK
  <2>6. \A q \in Process : refreshing'[q] # none =>
           load'[refreshing'[q]] # none /\ load'[refreshing'[q]].proc = q
    <3> SUFFICES ASSUME NEW q \in Process, refreshing'[q] # none
                 PROVE  load'[refreshing'[q]] # none /\ load'[refreshing'[q]].proc = q
      OBVIOUS
    <3>1. q # p /\ refreshing'[q] = refreshing[q]
      BY <1>4
    <3>2. /\ refreshing[q] \in Load
          /\ load[refreshing[q]] # none /\ load[refreshing[q]].proc = q
      BY <3>1, <1>1 DEF TypeOK
    <3> QED BY <3>1, <3>2, <1>6
  <2>7. restarts' \in 0 .. MaxRestarts /\ failures' \in 0 .. MaxFailures
    BY <1>1, <1>2 DEF TypeOK
  <2>8. db' \in [Table -> Version]
    BY <1>1, <1>2
  <2> QED BY <2>1, <2>2, <2>3, <2>4, <2>5, <2>6, <2>7, <2>8 DEF TypeOK
<1>8. LoadsAreCurrent'
  <2> SUFFICES ASSUME NEW l \in Load, load'[l] # none PROVE LoadIsCurrent(l)'
    BY DEF LoadsAreCurrent
  <2>1. load[l] # none /\ load'[l] = load[l] /\ load[l].proc # p /\ LoadIsCurrent(l)
    BY <1>5 DEF LoadsAreCurrent
  <2>2. load[l].proc \in Process
    BY <2>1, <1>1 DEF LoadRecord
  <2> QED BY <2>1, <2>2, <1>2, <1>4 DEF LoadIsCurrent
<1>9. RequestsWait'
  <2> SUFFICES ASSUME NEW r \in Request, req'[r] # none PROVE RequestWaits(r)'
    BY DEF RequestsWait
  <2>1. req[r] # none /\ req'[r] = req[r] /\ req[r].proc # p /\ RequestWaits(r)
    BY <1>2 DEF RequestsWait
  <2>2. req[r].load # none => load'[req[r].load] = load[req[r].load]
    <3>1. req[r].load \in Load \cup {none}
      BY <2>1, <1>1 DEF RequestRecord
    <3> QED BY <3>1, <2>1, <1>6 DEF RequestWaits
  <2> QED BY <2>1, <2>2, <1>2 DEF RequestWaits
<1>10. ServedIsStored'
  <2> SUFFICES ASSUME NEW q \in Process, NEW t \in Table PROVE snapshot'[q][t] <= db[t]
    BY <1>2 DEF ServedIsStored
  <2>1. db[t] \in Version
    BY <1>1
  <2>2. CASE q = p
    BY <2>1, <2>2, <1>3, <1>4
  <2>3. CASE q # p
    BY <2>3, <1>4 DEF ServedIsStored
  <2> QED BY <2>2, <2>3
<1>11. OwnReloadIsServed'
  BY <1>3, <1>4 DEF OwnReloadIsServed
<1> QED BY <1>7, <1>8, <1>9, <1>10, <1>11

----------------------------------------------------------------------------
\* Boot: nothing is loaded, served, written or waited for.
LEMMA InitIInv == Init => IInv
<1> SUFFICES ASSUME Init PROVE IInv
  OBVIOUS
<1> USE DEF Init
<1>1. Defaults \in [Table -> Version] /\ \A t \in Table : Defaults[t] = 0
  BY DEF Defaults
<1>2. TypeOK
  BY <1>1 DEF TypeOK
<1>3. LoadsAreCurrent /\ RequestsWait
  BY DEF LoadsAreCurrent, RequestsWait
<1>4. ServedIsStored /\ OwnReloadIsServed
  BY <1>1 DEF ServedIsStored, OwnReloadIsServed
<1> QED BY <1>2, <1>3, <1>4 DEF IInv

\* No step of the gate policy service breaks the invariant.
LEMMA NextIInv == IInv /\ [Next]_vars => IInv'
<1> SUFFICES ASSUME IInv, [Next]_vars PROVE IInv'
  OBVIOUS
<1>1. ASSUME NEW p \in Process, expire(p) PROVE IInv'
  BY <1>1, ExpireStep
<1>2. ASSUME NEW p \in Process, restart(p) PROVE IInv'
  BY <1>2, RestartStep
<1>3. ASSUME NEW p \in Process, NEW l \in Load, boot(p, l) \/ current(p, l) \/ view(p, l)
      PROVE  IInv'
  BY <1>3, LoadStarts
<1>4. ASSUME NEW r \in Request, NEW p \in Process, NEW t \in Table, write(r, p, t)
      PROVE  IInv'
  BY <1>4, WriteStep
<1>5. ASSUME NEW r \in Request, NEW l \in Load, adminView(r, l) PROVE IInv'
  BY <1>5, AdminViewStep
<1>6. ASSUME NEW l \in Load, readTable(l) PROVE IInv'
  BY <1>6, ReadTableStep
<1>7. ASSUME NEW l \in Load, loaded(l) PROVE IInv'
  BY <1>7, LoadedStep
<1>8. ASSUME NEW l \in Load, failed(l) PROVE IInv'
  BY <1>8, FailedStep
<1>9. CASE UNCHANGED vars
  BY <1>9 DEF vars, IInv, TypeOK, LoadsAreCurrent, LoadIsCurrent, RequestsWait,
              RequestWaits, ServedIsStored, OwnReloadIsServed
<1> QED BY <1>1, <1>2, <1>3, <1>4, <1>5, <1>6, <1>7, <1>8, <1>9 DEF Next

\* The state of the gate policy service keeps its shape: a load in flight
\* belongs to the process that refreshes through it, and has read no more
\* tables than there are.
THEOREM TypeCorrect == Spec => []TypeOK
<1>1. IInv => TypeOK
  BY DEF IInv
<1> QED BY <1>1, InitIInv, NextIInv, PTL DEF Spec

\* A write that was confirmed after the reload it started itself is in the
\* policy its process serves (adminView() after a write of
\* gate-policy.service.ts).
THEOREM OwnReloadServed == Spec => []OwnReloadIsServed
<1>1. IInv => OwnReloadIsServed
  BY DEF IInv
<1> QED BY <1>1, InitIInv, NextIInv, PTL DEF Spec

\* While a process runs, no load replaces the policy it serves by an older
\* one (load() of gate-policy.service.ts, one at a time).
THEOREM NeverGoesBack == Spec => NeverOlder
<1> DEFINE Newer == \A p \in Process : (up[p] /\ up'[p]) =>
                      \A t \in Table : snapshot'[p][t] >= snapshot[p][t]
<1>1. IInv /\ [Next]_vars => [Newer]_vars
  <2> SUFFICES ASSUME IInv, [Next]_vars PROVE Newer
    OBVIOUS
  <2>0. /\ snapshot \in [Process -> [Table -> Version]] /\ up \in [Process -> BOOLEAN]
        /\ \A p \in Process, t \in Table : snapshot[p][t] >= snapshot[p][t]
    <3>1. snapshot \in [Process -> [Table -> Version]] /\ up \in [Process -> BOOLEAN]
      BY DEF IInv, TypeOK
    <3>2. \A p \in Process, t \in Table : snapshot[p][t] \in Version
      BY <3>1
    <3> QED BY <3>1, <3>2
  <2>1. ASSUME snapshot' = snapshot PROVE Newer
    BY <2>0, <2>1
  <2>2. ASSUME NEW p \in Process, restart(p) PROVE Newer
    <3>1. up'[p] = FALSE /\ \A q \in Process \ {p} : snapshot'[q] = snapshot[q]
      BY <2>0, <2>2 DEF restart
    <3> QED BY <2>0, <3>1
  <2>3. ASSUME NEW l \in Load, loaded(l) PROVE Newer
    BY <2>3, LoadedStep
  <2>4. CASE UNCHANGED vars
    BY <2>1, <2>4 DEF vars
  <2>5. ASSUME NEW p \in Process, expire(p) PROVE Newer
    BY <2>1, <2>5 DEF expire
  <2>6. ASSUME NEW p \in Process, NEW l \in Load, boot(p, l) \/ current(p, l) \/ view(p, l)
        PROVE  Newer
    BY <2>1, <2>6 DEF boot, current, view
  <2>7. ASSUME NEW r \in Request, NEW p \in Process, NEW t \in Table, write(r, p, t)
        PROVE  Newer
    BY <2>1, <2>7 DEF write
  <2>8. ASSUME NEW r \in Request, NEW l \in Load, adminView(r, l) PROVE Newer
    BY <2>1, <2>8 DEF adminView
  <2>9. ASSUME NEW l \in Load, readTable(l) \/ failed(l) PROVE Newer
    BY <2>1, <2>9 DEF readTable, failed
  <2> HIDE DEF Newer
  <2> QED BY <2>2, <2>3, <2>4, <2>5, <2>6, <2>7, <2>8, <2>9 DEF Next
<1> QED BY <1>1, InitIInv, NextIInv, PTL DEF Spec, NeverOlder

----------------------------------------------------------------------------
(* The run: each part moves as its own specification says.                  *)

LEMMA GateRunInit == MCInit => GateInit /\ Init
BY DEF MCInit

LEMMA GateRunNext == [MCNext]_allVars => [GateNext]_gateVars /\ [Next]_vars
BY DEF MCNext, Read, Serve, allVars

LEMMA GateRunRefines == MCSpec => GateSpec /\ Spec
BY GateRunInit, GateRunNext, PTL DEF MCSpec, GateSpec, Spec

\* In the run, too: override rows, snapshots and loads keep their shape.
THEOREM GateRunTypes == MCSpec => []TypesOK
<1>1. TypesOK <=> GateTypeOK /\ TypeOK
  BY DEF TypesOK
<1> QED BY <1>1, GateRunRefines, GateTypeCorrect, TypeCorrect, PTL

\* In the run, too, a viewer with more access never sees less (tierLimit).
THEOREM RunIsMonotone == MCSpec => []ReadsAreMonotone
<1>1. MoreAccessShowsMore => ReadsAreMonotone
  BY DEF ReadsAreMonotone
<1> QED BY <1>1, GateRunRefines, AccessIsMonotone, PTL

\* In the run, too, every hint is kept (sectionView, fieldView).
THEOREM RunKeepsHints == MCSpec => []ReadsKeepHints
<1>1. HintsAreKept => ReadsKeepHints
  BY DEF ReadsKeepHints
<1> QED BY <1>1, GateRunRefines, HintsPromiseRight, PTL

\* In the run, too, the saved lookup changes no list (needsContributionLookup).
THEOREM RunMissesNoLookup == MCSpec => []ReadsMissNoLookup
<1>1. LookupSavedIsNotMissed => ReadsMissNoLookup
  BY DEF ReadsMissNoLookup
<1> QED BY <1>1, GateRunRefines, QuickAccessReadsAlike, PTL

\* In the run, too, filters tell nothing of what is hidden (directoryFilters).
THEOREM RunFiltersBlindly == MCSpec => []ReadsFilterBlindly
<1>1. FiltersRevealNothing => ReadsFilterBlindly
  BY DEF ReadsFilterBlindly
<1> QED BY <1>1, GateRunRefines, FiltersAreBlind, PTL
=============================================================================
