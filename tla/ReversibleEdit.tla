--------------------------- MODULE ReversibleEdit ---------------------------
(***************************************************************************)
(* What moderated edits of one profile promise, whatever stores them: an   *)
(* approval shows its values, and its retraction puts back what it         *)
(* replaced, field by field, except where something newer is shown.        *)
(***************************************************************************)
CONSTANTS
    Edit, Field, Value,
    Unset,       \* no value: a field the edit leaves alone, or nothing kept
    KeepsFirst   \* approving an applied edit again keeps what it replaced

EditAssumption == Unset \notin Value /\ KeepsFirst \in BOOLEAN

VARIABLES
    shown,     \* the profile
    diff,      \* what each edit sets
    replaced,  \* what each edit last replaced, by field
    applied    \* the edits that stand approved

vars == <<shown, diff, replaced, applied>>

Part == [Field -> Value \cup {Unset}]
Touched(e) == {f \in Field : diff[e][f] # Unset}

Init ==
    /\ shown \in [Field -> Value]
    /\ diff \in [Edit -> Part]
    /\ replaced \in [Edit -> Part]
    /\ applied \in SUBSET Edit
    /\ \A e \in applied : \A f \in Touched(e) : replaced[e][f] # Unset

\* An edit is written once, before anybody decides on it.
Propose(e) ==
    /\ e \notin applied
    /\ \A f \in Field : diff[e][f] = Unset /\ replaced[e][f] = Unset
    /\ \E c \in Part : diff' = [diff EXCEPT ![e] = c]
    /\ UNCHANGED <<shown, replaced, applied>>

Replaces(e, f) ==
    IF /\ KeepsFirst
       /\ shown[f] = diff[e][f]
       /\ replaced[e][f] # Unset
    THEN replaced[e][f] ELSE shown[f]

Approve(e) ==
    /\ applied' = applied \cup {e}
    /\ shown' = [f \in Field |-> IF f \in Touched(e) THEN diff[e][f] ELSE shown[f]]
    /\ replaced' = [replaced EXCEPT ![e] =
                      [f \in Field |-> IF f \in Touched(e) THEN Replaces(e, f)
                                       ELSE replaced[e][f]]]
    /\ UNCHANGED diff

Retract(e) ==
    /\ e \in applied
    /\ applied' = applied \ {e}
    /\ shown' = [f \in Field |-> IF f \in Touched(e) /\ shown[f] = diff[e][f]
                                 THEN replaced[e][f] ELSE shown[f]]
    /\ UNCHANGED <<diff, replaced>>

\* Somebody else (a source) writes the profile.
Overwrite ==
    /\ shown' \in [Field -> Value]
    /\ UNCHANGED <<diff, replaced, applied>>

Next == Overwrite \/ \E e \in Edit : Propose(e) \/ Approve(e) \/ Retract(e)

Spec == Init /\ [][Next]_vars
=============================================================================
