------------------------------- MODULE MCGate -------------------------------
(***************************************************************************)
(* The gate in one run: a behaviour stores policies and reads through them *)
(* ("reads", ReadGate), or loads them into processes ("policy",            *)
(* GatePolicy).  The other part stays where it started.                    *)
(***************************************************************************)
EXTENDS ReadGate, GatePolicy

CONSTANTS rounds, terms, stage, status

VARIABLE part

allVars == <<part, gateVars, vars>>

\* "members": hidden signed out, previewed signed in; terms: contributors only.
MCDefaultSection ==
    [s \in Section |->
        [level |-> [t \in Tier |-> IF t = 2 THEN full ELSE
                                   IF t = 1 /\ s = rounds THEN preview ELSE hidden],
         previewRows |-> 1, partnerAudience |-> signedIn]]
MCDefaultField == [f \in Field |-> [audience |-> everyone, partnerAudience |-> signedIn]]

MCInit == GateInit /\ Init /\ part \in {"reads", "policy"}

Read(A) == part = "reads" /\ A /\ UNCHANGED <<part, vars>>
Serve(A) == part = "policy" /\ A /\ UNCHANGED <<part, gateVars>>

MCNext == Read(GateNext) \/ Serve(Next)

MCSpec == MCInit /\ [][MCNext]_allVars

\* FairSpec of GatePolicy, for its part.
MCFairSpec ==
    /\ MCSpec
    /\ \A p \in Process :
         /\ WF_allVars(Serve(\E l \in Load : boot(p, l)))
         /\ WF_allVars(Serve(\E l \in Load : current(p, l)))
         /\ WF_allVars(Serve(expire(p)))
    /\ \A l \in Load : WF_allVars(Serve(readTable(l) \/ loaded(l)))

----------------------------------------------------------------------------
(* The properties of the parts. *)

\* Both keep their types.
TypesOK == GateTypeOK /\ TypeOK

\* ReadGate: a viewer with more access never sees less (tierMeets, tierLimit).
ReadsAreMonotone == part = "reads" => MoreAccessShowsMore

\* ReadGate: hints are kept and name the lowest tier (sectionView, fieldView).
ReadsKeepHints == part = "reads" => HintsAreKept

\* ReadGate: the saved contribution lookup changes no list
\* (needsContributionLookup).
ReadsMissNoLookup == part = "reads" => LookupSavedIsNotMissed

\* ReadGate: a value a viewer may not see changes no filtered list
\* (directoryFilters).
ReadsFilterBlindly == part = "reads" => FiltersRevealNothing
=============================================================================
