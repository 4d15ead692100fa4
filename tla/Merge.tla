------------------------------- MODULE Merge -------------------------------
(***************************************************************************)
(* MergeService: duplicate rows of one kind (companies, investors or       *)
(* people) folded into a survivor and taken apart again.                   *)
(*                                                                         *)
(* A child is a row that names its owner in a column (a round, a role, a   *)
(* holding, a revision): it is repointed.  An item is a row with a unique  *)
(* key per owner (a citation, a user's save): it is repointed, or deleted  *)
(* when the survivor has one with the same key.                            *)
(***************************************************************************)
EXTENDS Naturals, Sequences, FiniteSets

CONSTANTS
    Row,         \* the rows that can be merged
    Child,
    Key,         \* the keys of items
    Admin,
    None,
    Locked,      \* lockCompanies is called: companies, not investors or people
    HeldAtFirst, \* the <<key, row>> pairs of the items there are at first
    MaxRecords,  \* bound: merges
    MaxItems     \* bound: item ids

MergeAssumption ==
    /\ None \notin Row \cup Admin
    /\ Locked \in BOOLEAN
    /\ IsFiniteSet(Row) /\ IsFiniteSet(Key)
    /\ HeldAtFirst \subseteq Key \X Row
    /\ MaxRecords \in Nat /\ MaxItems \in Nat /\ Cardinality(HeldAtFirst) <= MaxItems

VARIABLES
    mergedInto, \* mergedIntoId of each row
    owner,      \* the row each child hangs off (None: not written yet)
    items,      \* the items: id, key, at (entityId)
    lastItem,   \* the greatest id given to an item
    candidates, \* status of the MergeCandidate of each pair (ABSENT: no row)
    records,    \* the MergeRecord rows, oldest first
    req,        \* requests in flight, one per admin
    rowLock,    \* who holds each row FOR UPDATE
    home        \* history: the row each child was contributed to, once it was live

vars == <<mergedInto, owner, items, lastItem, candidates, records, req, rowLock, home>>

Pair == {p \in SUBSET Row : Cardinality(p) = 2}
ItemId == 1 .. MaxItems
Item == [id : ItemId, key : Key, at : Row]
Record == [survivor : Row, losing : Row, children : SUBSET Child, kept : SUBSET ItemId,
           deleted : SUBSET Key, unmerged : BOOLEAN]
Request == [pc : {"idle", "begun", "ready"}, op : {"merge", "unmerge", "reject"},
            survivor : Row \cup {None}, losing : Row \cup {None}, record : Nat]

TypeOK ==
    /\ mergedInto \in [Row -> Row \cup {None}]
    /\ owner \in [Child -> Row \cup {None}] /\ home \in [Child -> Row \cup {None}]
    /\ items \subseteq Item
    /\ \A i, j \in items : (i.id = j.id \/ <<i.key, i.at>> = <<j.key, j.at>>) => i = j
    /\ candidates \in [Pair -> {"ABSENT", "PENDING", "MERGED", "REJECTED"}]
    /\ records \in Seq(Record)
    /\ req \in [Admin -> Request]
    /\ rowLock \in [Row -> Admin \cup {None}]

----------------------------------------------------------------------------
IdleRequest == [pc |-> "idle", op |-> "merge", survivor |-> None, losing |-> None, record |-> 0]

\* Items numbered in some order; contributions and pairs still to come.
Init ==
    /\ mergedInto = [x \in Row |-> None]
    /\ owner = [c \in Child |-> None] /\ home = owner
    /\ lastItem = Cardinality(HeldAtFirst)
    /\ \E id \in [HeldAtFirst -> 1 .. lastItem] :
         /\ \A p, q \in HeldAtFirst : p # q => id[p] # id[q]
         /\ items = {[id |-> id[p], key |-> p[1], at |-> p[2]] : p \in HeldAtFirst}
    /\ candidates = [p \in Pair |-> "ABSENT"]
    /\ records = <<>>
    /\ req = [a \in Admin |-> IdleRequest]
    /\ rowLock = [x \in Row |-> None]

Live(x) == mergedInto[x] = None

\* Ids for new items with these keys at x, after the last one given.
Recreated(x, keys) ==
    {new \in SUBSET [id : lastItem + 1 .. lastItem + Cardinality(keys), key : keys, at : {x}] :
        /\ Cardinality(new) = Cardinality(keys)
        /\ \A i, j \in new : (i.id = j.id \/ i.key = j.key) => i = j}

----------------------------------------------------------------------------
(* The queue. *)

\* requireCompany finds a row merged away too, and rows are never deleted, so
\* the read that comes first lets the write land anywhere.  The key the new
\* row refers to waits for a merge that holds it (in PostgreSQL).
contribute(c, x) ==
    /\ owner[c] = None /\ rowLock[x] = None
    /\ owner' = [owner EXCEPT ![c] = x]
    /\ home' = IF Live(x) THEN [home EXCEPT ![c] = x] ELSE home
    /\ UNCHANGED <<mergedInto, items, lastItem, candidates, records, req, rowLock>>

\* createCandidate (and the detector): an upsert that changes no existing pair.
createCandidate(p) ==
    /\ candidates[p] = "ABSENT"
    /\ candidates' = [candidates EXCEPT ![p] = "PENDING"]
    /\ UNCHANGED <<mergedInto, owner, items, lastItem, records, req, rowLock, home>>

\* Mutant: a merged pair can be marked "not a duplicate".
RejectableAny(status) == status # "ABSENT"

\* reject refuses a pair that was merged.
Rejectable(status) == status \in {"PENDING", "REJECTED"}

\* reject: the read and its check, then an update, in no transaction.
readCandidate(a, p) ==
    /\ req[a].pc = "idle"
    /\ Rejectable(candidates[p])
    /\ \E x, y \in Row : p = {x, y} /\ req' = [req EXCEPT ![a] =
          [IdleRequest EXCEPT !.pc = "begun", !.op = "reject", !.survivor = x, !.losing = y]]
    /\ UNCHANGED <<mergedInto, owner, items, lastItem, candidates, records, rowLock, home>>

reject(a) ==
    /\ req[a].pc = "begun" /\ req[a].op = "reject"
    /\ candidates' = [candidates EXCEPT ![{req[a].survivor, req[a].losing}] = "REJECTED"]
    /\ req' = [req EXCEPT ![a] = IdleRequest]
    /\ UNCHANGED <<mergedInto, owner, items, lastItem, records, rowLock, home>>

----------------------------------------------------------------------------
(* merge and unmerge: the read that comes first, the transaction's reads,  *)
(* and its writes.                                                         *)

\* mergeCandidate's check, before the transaction.
mergeCandidate(a, survivor, losing) ==
    /\ req[a].pc = "idle"
    /\ Len(records) < MaxRecords
    /\ survivor # losing
    /\ candidates[{survivor, losing}] = "PENDING"
    /\ req' = [req EXCEPT ![a] = [IdleRequest EXCEPT !.pc = "begun", !.op = "merge",
                                     !.survivor = survivor, !.losing = losing]]
    /\ UNCHANGED <<mergedInto, owner, items, lastItem, candidates, records, rowLock, home>>

\* "This merge has already been reversed".
Open(r) == ~ r.unmerged

\* unmerge reads the record before any lock is taken.
readRecord(a, n) ==
    /\ req[a].pc = "idle"
    /\ Open(records[n])
    /\ req' = [req EXCEPT ![a] = [IdleRequest EXCEPT !.pc = "begun", !.op = "unmerge",
                  !.survivor = records[n].survivor, !.losing = records[n].losing, !.record = n]]
    /\ UNCHANGED <<mergedInto, owner, items, lastItem, candidates, records, rowLock, home>>

\* Mutant: a survivor that was merged away is not refused.
AllowedAnySurvivor(r) ==
    IF r.op = "merge" THEN Live(r.losing)
    ELSE mergedInto[r.losing] = r.survivor

\* The two refusals of a merge, and of an unmerge.
Allowed(r) ==
    IF r.op = "merge" THEN Live(r.survivor) /\ Live(r.losing)
    ELSE Live(r.survivor) /\ mergedInto[r.losing] = r.survivor

\* lockCompanies.
LockCompanies(a) ==
    LET both == {req[a].survivor, req[a].losing}
    IN  /\ \A x \in both : rowLock[x] = None
        /\ rowLock' = [x \in Row |-> IF x \in both THEN a ELSE rowLock[x]]

\* The rows are read, under their lock if there is one; a refusal rolls back.
readRows(a) ==
    /\ req[a].pc = "begun" /\ req[a].op # "reject"
    /\ IF Allowed(req[a])
       THEN /\ req' = [req EXCEPT ![a].pc = "ready"]
            /\ IF Locked THEN LockCompanies(a) ELSE UNCHANGED rowLock
       ELSE /\ \A x \in {req[a].survivor, req[a].losing} : rowLock[x] = None
            /\ req' = [req EXCEPT ![a] = IdleRequest]
            /\ UNCHANGED rowLock
    /\ UNCHANGED <<mergedInto, owner, items, lastItem, candidates, records, home>>

Release(a) ==
    /\ req' = [req EXCEPT ![a] = IdleRequest]
    /\ rowLock' = [x \in Row |-> IF rowLock[x] = a THEN None ELSE rowLock[x]]

\* Mutant: the survivor's items with the same key are not looked at.
CollidingNone(survivor, losing) == {}

\* moveCitations, SavedCompany: the loser's items the survivor has already.
Colliding(survivor, losing) ==
    {i \in items : i.at = losing /\ \E j \in items : j.at = survivor /\ j.key = i.key}

\* moved.deleted...: the content of the deleted items.
Deleted(gone) == {i.key : i \in gone}

\* merge: children and items move or go, the loser becomes a tombstone, the
\* record keeps what was done, the candidate is MERGED.
merge(a) ==
    LET s == req[a].survivor
        l == req[a].losing
        gone == Colliding(s, l)
    IN  /\ req[a].pc = "ready" /\ req[a].op = "merge"
        /\ owner' = [c \in Child |-> IF owner[c] = l THEN s ELSE owner[c]]
        /\ items' = {IF i.at = l THEN [i EXCEPT !.at = s] ELSE i : i \in items \ gone}
        /\ mergedInto' = [mergedInto EXCEPT ![l] = s]
        /\ records' = Append(records,
              [survivor |-> s, losing |-> l, children |-> {c \in Child : owner[c] = l},
               kept |-> {i.id : i \in {j \in items \ gone : j.at = l}},
               deleted |-> Deleted(gone), unmerged |-> FALSE])
        /\ candidates' = [candidates EXCEPT ![{s, l}] = "MERGED"]
        /\ Release(a)
        /\ UNCHANGED <<lastItem, home>>

\* Mutant: everything the survivor has goes back.
RestoredAll(r) == {c \in Child : owner[c] = r.survivor}

\* restoreByCompany, restoreByColumn: exactly the rows the merge moved.
Restored(r) == r.children

\* unmerge: the record replayed backwards, then closed; its pair is PENDING.
unmerge(a) ==
    LET n == req[a].record
        r == records[n]
        l == req[a].losing
    IN  /\ req[a].pc = "ready" /\ req[a].op = "unmerge"
        /\ owner' = [c \in Child |-> IF c \in Restored(r) THEN l ELSE owner[c]]
        /\ lastItem + Cardinality(r.deleted) <= MaxItems
        /\ \E new \in Recreated(l, r.deleted) :
             items' = {IF i.id \in r.kept THEN [i EXCEPT !.at = l] ELSE i : i \in items} \cup new
        /\ lastItem' = lastItem + Cardinality(r.deleted)
        /\ mergedInto' = [mergedInto EXCEPT ![l] = None]
        /\ records' = [records EXCEPT ![n].unmerged = TRUE]
        /\ candidates' = [candidates EXCEPT ![{r.survivor, l}] = "PENDING"]
        /\ Release(a)
        /\ home' = [c \in Child |-> IF owner[c] = l THEN l ELSE home[c]]

Next ==
    \/ \E c \in Child, x \in Row : contribute(c, x)
    \/ \E p \in Pair : createCandidate(p)
    \/ \E a \in Admin :
         \/ \E p \in Pair : readCandidate(a, p)
         \/ reject(a)
         \/ \E s, l \in Row : mergeCandidate(a, s, l)
         \/ \E n \in DOMAIN records : readRecord(a, n)
         \/ readRows(a)
         \/ merge(a)
         \/ unmerge(a)

Spec == Init /\ [][Next]_vars

\* The same when no two requests of admins overlap; people contribute at any
\* time.
OneAtATime == \A a, b \in Admin : req[a].pc # "idle" /\ req[b].pc # "idle" => a = b
SerialSpec == Init /\ [][Next /\ OneAtATime']_vars

----------------------------------------------------------------------------
(* Properties. *)

\* Following mergedInto for n hops.
Follow[n \in 0 .. Cardinality(Row)] ==
    [x \in Row |-> IF n = 0 \/ Live(x) THEN x ELSE Follow[n - 1][mergedInto[x]]]
Root(x) == Follow[Cardinality(Row)][x]

\* However merges overlap, a merged row leads to a live one, so its slug still
\* redirects and its keys still match (Company.mergedIntoId: "The row is KEPT,
\* not deleted: its slug still redirects").
TombstonesReachALiveRow == \A x \in Row : Live(Root(x))

\* Through every sequence of merges and unmerges, with contributions between
\* their steps, a child is where the row it was contributed to now is: an
\* unmerge moves back "exactly these rows ... and only these"
\* (remapByCompany).  One that was contributed to a tombstone stays there
\* until that merge is reversed.
ChildrenFollow ==
    \A c \in Child : IF home[c] # None THEN owner[c] = Root(home[c])
                     ELSE owner[c] # None => ~ Live(owner[c])

\* A merge leaves nothing it found on the tombstone, where no profile would
\* show it.
TombstoneHoldsNothing ==
    \A x \in Row : ~ Live(x) => /\ \A c \in Child : owner[c] = x => home[c] = None
                                /\ \A i \in items : i.at # x

\* An item is deleted only against a record that can recreate it (MovedRecord:
\* "What one merge moved, complete enough to reverse it").
NothingLost ==
    \A k \in Key :
        Cardinality({i \in items : i.key = k})
          + Cardinality({n \in DOMAIN records : ~ records[n].unmerged /\ k \in records[n].deleted})
        = Cardinality({p \in HeldAtFirst : p[1] = k})

\* Every tombstone has exactly one open record, which can take it apart, and
\* no open record is of a row that is live again (unmerge refuses a merge that
\* "has already been reversed").
TombstonesHaveRecords ==
    /\ \A n \in DOMAIN records :
         ~ records[n].unmerged => mergedInto[records[n].losing] = records[n].survivor
    /\ \A x \in Row : ~ Live(x) =>
         Cardinality({n \in DOMAIN records : ~ records[n].unmerged /\ records[n].losing = x}) = 1

\* While a pair is merged its candidate reads MERGED (reject: "This pair was
\* merged; unmerge it before rejecting").
MergedPairsReadMerged ==
    \A n \in DOMAIN records : ~ records[n].unmerged =>
        candidates[{records[n].survivor, records[n].losing}] = "MERGED"

\* When every merge is reversed every item is back (the test "restores every
\* table to its pre-merge state").
ReversedIsRestored ==
    (\A x \in Row : Live(x)) => {<<i.key, i.at>> : i \in items} = HeldAtFirst

=============================================================================
