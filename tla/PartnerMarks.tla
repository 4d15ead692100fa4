---------------------------- MODULE PartnerMarks ----------------------------
(***************************************************************************)
(* The helpers company and firm edits share (admin.service.ts): a diff, the *)
(* partner marks of the columns it touches, and the record an approval     *)
(* keeps of the marks it removed.                                          *)
(*                                                                         *)
(* Values: a member of PartnerValue is one only the licensed partner's     *)
(* records carry, so that the origin of what a field shows can be read off *)
(* the value.                                                              *)
(***************************************************************************)
CONSTANTS
    Field,         \* the editable columns
    Value,         \* what a column may hold
    PartnerValue,  \* the values only the partner supplies
    Blank,         \* the empty value, which enrichment fills
    Unset          \* "no such key" in a changes / data object

ASSUME ValueAssumption ==
    /\ PartnerValue \subseteq Value
    /\ Blank \in Value \ PartnerValue
    /\ Unset \notin Value

Changes == [Field -> Value \cup {Unset}]
Keys(c) == {f \in Field : c[f] # Unset}
NoChanges == [f \in Field |-> Unset]

Entity == [val : [Field -> Value], marks : SUBSET Field, partnerOnly : BOOLEAN]

\* clearedPartnerFields: null (not recorded) or an array.
Cleared == [recorded : BOOLEAN, fields : SUBSET Field]
NotRecorded == [recorded |-> FALSE, fields |-> {}]

\* The row with the keys of c written.
Overlay(c, old) == [f \in Field |-> IF c[f] = Unset THEN old[f] ELSE c[f]]

\* withoutPartnerFields: partnerFields after a human edit of fs.
WithoutPartnerFields(marks, fs) == marks \ fs

\* withPartnerFields: partnerFields after a retraction puts fs back.
WithPartnerFields(marks, fs) == marks \cup fs

\* clearedMarks: the marks the approval is about to remove.
ClearedMarks(marks, fs) == [recorded |-> TRUE, fields |-> marks \cap fs]

\* Mutant: a proposal approved before the record restores no mark.
MarksToRestoreFailOpen(cleared, restored, touched) ==
    IF cleared.recorded THEN Keys(restored) \cap cleared.fields ELSE {}

\* marksToRestore: the recorded marks, or, for an approval older than the
\* record (null), every restored non-null value of a partner-touched row.
MarksToRestore(cleared, restored, touched) ==
    IF cleared.recorded
    THEN Keys(restored) \cap cleared.fields
    ELSE IF touched THEN {f \in Keys(restored) : restored[f] # Blank} ELSE {}

\* The columns a source can supply: the partner its own values, others the rest.
Supplied(source) == IF source = "PARTNER" THEN PartnerValue \cup {Blank}
                                          ELSE Value \ PartnerValue

\* provenanceUpdate: absolute values, computed from the row as read.
ProvenanceMarks(row, source, fs, now) ==
    IF source = "PARTNER"
    THEN IF fs \subseteq row.marks THEN now ELSE row.marks \cup fs
    ELSE IF fs \cap row.marks = {} THEN now ELSE row.marks \ fs

ProvenanceOnly(row, source, now) ==
    IF source # "PARTNER" /\ row.partnerOnly THEN FALSE ELSE now
=============================================================================
