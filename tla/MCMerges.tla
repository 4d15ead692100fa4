------------------------------ MODULE MCMerges ------------------------------
(***************************************************************************)
(* Rows that are folded into rows, for TLC, one behaviour per part.  Merge *)
(* in two instances over the same variables: one admin, a child and items  *)
(* that collide ("serial"); a pair of admins on bare rows ("overlap").     *)
(* RoundFolding: the partner's deals and the rounds of others ("rounds").  *)
(***************************************************************************)
EXTENDS Naturals, TLC

CONSTANTS
    Row, Child, Key, Admin, None, MaxRecords, MaxItems, MaxChanges,
    HeldAtFirst, \* the items there are at first, of the part of one admin
    AdminPair,
    DealCount, RungCount, Contributed, Facts, Window

VARIABLES
    part,
    mergedInto, owner, items, lastItem, candidates, records, req, rowLock, home,
    deal, own, rung, filed, binding, link, run, changes

mergeVars == <<mergedInto, owner, items, lastItem, candidates, records, req, rowLock, home>>
roundVars == <<deal, own, rung, filed, binding, link, run, changes>>
allVars == <<part, mergeVars, roundVars>>

Serial == INSTANCE Merge WITH Locked <- TRUE
Overlap == INSTANCE Merge WITH
    Admin <- AdminPair, Locked <- TRUE, Child <- {}, HeldAtFirst <- {}, MaxItems <- 0

Rounds == INSTANCE RoundFolding

ASSUME PartsAssumption ==
    Serial!MergeAssumption /\ Overlap!MergeAssumption /\ Rounds!FoldingAssumption

\* One initial state of the rounds, for the merges.
roundsAtRest ==
    /\ Rounds!Init /\ link = "own"
    /\ \A d \in DOMAIN deal : ~ deal[d].in
    /\ \A x \in DOMAIN rung : ~ rung[x].exists

MCInit ==
    \/ part = "serial" /\ Serial!Init /\ roundsAtRest
    \/ part = "overlap" /\ Overlap!Init /\ roundsAtRest
    \/ part = "rounds" /\ Serial!Init /\ Rounds!Init

MCNext ==
    /\ part' = part
    /\ \/ /\ part = "serial"
          /\ Serial!Next /\ Serial!OneAtATime'
          /\ UNCHANGED roundVars
       \/ part = "overlap" /\ Overlap!Next /\ UNCHANGED roundVars
       \/ part = "rounds" /\ Rounds!Next /\ UNCHANGED mergeVars

MCSpec == MCInit /\ [][MCNext]_allVars

\* Every row holds an item of every key.
EachOnEvery == Key \X Row

\* Of two deals, a source's round and a person's: near and alike, near and
\* unlike, undisclosed, out of the window, a grant.
Said(date, amount, grant) == [date |-> date, amount |-> amount, grant |-> grant]
AlikeAndUnlike == {Said(0, 4, FALSE), Said(0, 6, FALSE), Said(1, 3, FALSE), Said(2, 0, FALSE),
                   Said(1, 0, TRUE)}

Symmetry == Permutations(Row) \cup Permutations(AdminPair)

----------------------------------------------------------------------------
(* The properties of the parts, by the names they have there. *)

\* Every part keeps its types; of merges, ids and keys of items are unique.
TypesOK ==
    /\ part = "serial" => Serial!TypeOK
    /\ part = "overlap" => Overlap!TypeOK
    /\ part = "rounds" => Rounds!TypeOK

\* Merge: a child is where the row it was contributed to now is, and a merge
\* leaves nothing on the tombstone.
ChildrenFollow == part = "serial" => Serial!ChildrenFollow /\ Serial!TombstoneHoldsNothing

\* Merge: a tombstone has one open record, whose pair reads MERGED, and an
\* item is deleted only against a record that can recreate it.
TombstonesHaveRecords ==
    part = "serial" =>
        Serial!TombstonesHaveRecords /\ Serial!MergedPairsReadMerged /\ Serial!NothingLost

\* Merge, two admins at once: a merged row leads to a live one.
TombstonesReachALiveRow == part = "overlap" => Overlap!TombstonesReachALiveRow

\* RoundFolding: the pairing of deals with rounds leaves out none that is
\* closer, what a round says that its writer did not is marked, and no deal is
\* both a row of its own and folded into another.
FoldingIsSound == part = "rounds" => Rounds!FoldingIsSound
=============================================================================
