--------------------------- MODULE CompanyRepair ---------------------------
(***************************************************************************)
(* The company-match repair (apps/jobs repair/): a plan whose groups are   *)
(* applied, resumed and rolled back one transaction each, under the ingest *)
(* lock and with a journal, while people go on editing.                    *)
(*                                                                         *)
(* Groups share no company.  A group splits one company: its moves, its    *)
(* bindings and the company it creates commit together.                    *)
(***************************************************************************)
EXTENDS Naturals, Sequences, FiniteSets

CONSTANTS
    GroupCount, \* groups of the plan, applied in their order
    Cli,        \* processes that can run apply or rollback
    Ingest,     \* the ingest, which takes the same lock
    none,
    MaxChanges  \* bound: what people change

ASSUME RepairAssumption ==
    /\ GroupCount \in Nat /\ MaxChanges \in Nat
    /\ Ingest \notin Cli /\ none \notin Cli \cup {Ingest}

Group == 1 .. GroupCount
Side == {"incumbent", "created"}

VARIABLES
    data,    \* per group, what hydrate() reads of it
    journal, \* the CompanyRepairGroup rows, oldest first
    run,     \* status of the CompanyRepairRun
    holder,  \* whose session holds the advisory lock
    cli,     \* the processes
    rowLock, \* per group: who holds its rows FOR UPDATE
    late     \* per process: groups committed since an ingest took the lock

vars == <<data, journal, run, holder, cli, rowLock, late>>

\* split: the created company exists and owns what was moved; edits: updates
\* of the companies' rows; rows: inserts that reference them (a save, a round);
\* reports: of the created company, whose id no foreign key checks; history:
\* revisions the repair appended.
Data == [split : BOOLEAN, edits : Nat, rows : [Side -> Nat], reports : Nat, history : Nat]
Process == [pc : {"off", "apply", "rollback"}, todo : SUBSET Group, settled : SUBSET Group,
            tx : {"none", "begun", "locked", "asserted"}, group : Group \cup {0}, snap : Data]
Entry == [group : Group, status : {"APPLIED", "ROLLED_BACK"}, after : Data]

TypeOK ==
    /\ data \in [Group -> Data]
    /\ journal \in Seq(Entry)
    /\ \A i, j \in DOMAIN journal : journal[i].group = journal[j].group => i = j
    /\ run \in {"none", "RUNNING", "APPLIED", "PARTIAL", "ROLLED_BACK"}
    /\ holder \in Cli \cup {Ingest, none}
    /\ cli \in [Cli -> Process]
    /\ rowLock \in [Group -> Cli \cup {none}]
    /\ late \in [Cli -> Nat]

Untouched == [split |-> FALSE, edits |-> 0, rows |-> [s \in Side |-> 0],
              reports |-> 0, history |-> 0]
Off == [pc |-> "off", todo |-> {}, settled |-> {}, tx |-> "none", group |-> 0, snap |-> Untouched]

\* The plan observed every group untouched; people may have edited since.
Init ==
    /\ data = [g \in Group |-> Untouched]
    /\ journal = <<>> /\ run = "none"
    /\ holder = none
    /\ cli = [c \in Cli |-> Off]
    /\ rowLock = [g \in Group |-> none]
    /\ late = [c \in Cli |-> 0]

Journaled(status) == {journal[i].group : i \in {k \in DOMAIN journal : journal[k].status = status}}
EntryOf(g) == CHOOSE i \in DOMAIN journal : journal[i].group = g

----------------------------------------------------------------------------
(* Starting, stopping and losing the lock. *)

\* The groups the journal has, rolled-back ones too.
Skipped == Journaled("APPLIED") \cup Journaled("ROLLED_BACK")

\* resolveRun refuses a rolled-back run, finds a begun one or starts it.
applyPlan(c) ==
    /\ cli[c].pc = "off" /\ holder = none
    /\ run # "ROLLED_BACK"
    /\ holder' = c
    /\ run' = IF run = "none" THEN "RUNNING" ELSE run
    /\ cli' = [cli EXCEPT ![c] = [Off EXCEPT !.pc = "apply", !.settled = Skipped,
                                             !.todo = Group \ Skipped]]
    /\ UNCHANGED <<data, journal, rowLock, late>>

rollbackRun(c) ==
    /\ cli[c].pc = "off" /\ holder = none
    /\ run # "none"
    /\ holder' = c
    /\ cli' = [cli EXCEPT ![c] = [Off EXCEPT !.pc = "rollback", !.todo = Journaled("APPLIED")]]
    /\ UNCHANGED <<data, journal, run, rowLock, late>>

Unlocked(c) == [g \in Group |-> IF rowLock[g] = c THEN none ELSE rowLock[g]]

\* The process ends: its transaction rolls back, its sessions close.
Exits(c) ==
    /\ cli' = [cli EXCEPT ![c] = Off]
    /\ holder' = IF holder = c THEN none ELSE holder
    /\ rowLock' = Unlocked(c)
    /\ UNCHANGED <<data, journal, late>>

\* The run's status once every group has been tried.
StatusAfter(c) ==
    IF cli[c].pc = "apply"
    THEN IF cli[c].settled = Group THEN "APPLIED" ELSE "PARTIAL"
    ELSE IF Journaled("APPLIED") = {} THEN "ROLLED_BACK" ELSE "PARTIAL"

finish(c) ==
    /\ cli[c].pc # "off" /\ cli[c].todo = {}
    /\ run' = StatusAfter(c)
    /\ Exits(c)

\* A crash or an error that is not a conflict, at any point.
crash(c) ==
    /\ cli[c].pc # "off"
    /\ Exits(c)
    /\ UNCHANGED run

\* The lock's own session dies; the process learns of it at assertHeld.
loseLock ==
    /\ holder \in Cli
    /\ holder' = none
    /\ UNCHANGED <<data, journal, run, cli, rowLock, late>>

ingestStarts ==
    /\ holder = none
    /\ holder' = Ingest
    /\ late' = [c \in Cli |-> 0]
    /\ UNCHANGED <<data, journal, run, cli, rowLock>>

ingestEnds ==
    /\ holder = Ingest
    /\ holder' = none
    /\ UNCHANGED <<data, journal, run, cli, rowLock, late>>

----------------------------------------------------------------------------
(* One group's transaction: applyGroup and rollbackGroup. *)

\* Mutant: the session is not asked.
assertHeldNot(c) == TRUE

assertHeld(c) == holder = c

\* The process done with its group, and done with it for good.
GaveUp(p) == [p EXCEPT !.todo = @ \ {p.group}, !.tx = "none", !.group = 0]
Settled(p) == [GaveUp(p) EXCEPT !.settled = @ \cup {p.group}]

\* GroupConflict, a serialization failure or a lock timeout: this group is
\* given up, the next one tried.
Conflict(c) ==
    /\ cli' = [cli EXCEPT ![c] = GaveUp(@)]
    /\ rowLock' = Unlocked(c)
    /\ UNCHANGED <<data, journal, run, holder, late>>

LockLost(c) == Exits(c) /\ UNCHANGED run

\* The plan's order; a rollback takes the newest group first.
Turn(c, g) ==
    \A h \in cli[c].todo :
        IF cli[c].pc = "apply" THEN g <= h ELSE EntryOf(h) <= EntryOf(g)

\* BEGIN SERIALIZABLE; its first query, assertHeld, takes the snapshot.
begin(c) ==
    /\ cli[c].tx = "none"
    /\ \E g \in cli[c].todo :
         /\ Turn(c, g)
         /\ IF assertHeld(c)
            THEN /\ cli' = [cli EXCEPT ![c] = [@ EXCEPT !.tx = "begun", !.group = g, !.snap = data[g]]]
                 /\ UNCHANGED <<data, journal, run, holder, rowLock, late>>
            ELSE LockLost(c)

\* lockGroup: a row updated after the snapshot is a serialization failure, an
\* insert after it goes unseen.
lockGroup(c) ==
    LET g == cli[c].group
    IN  /\ cli[c].tx = "begun"
        /\ rowLock[g] = none
        /\ IF <<data[g].edits, data[g].history>> # <<cli[c].snap.edits, cli[c].snap.history>>
           THEN Conflict(c)
           ELSE /\ rowLock' = [rowLock EXCEPT ![g] = c]
                /\ cli' = [cli EXCEPT ![c].tx = "locked"]
                /\ UNCHANGED <<data, journal, run, holder, late>>

lockTimeout(c) ==
    /\ cli[c].tx = "begun"
    /\ rowLock[cli[c].group] # none
    /\ Conflict(c)

\* Mutants: what the group looks like now is not compared; a rollback does not
\* compare it.
UnchangedAny(c) == TRUE
UnchangedToApply(c) == cli[c].pc = "apply" => cli[c].snap = Untouched

\* The snapshot hashes to what the plan, or the journal, recorded.
Unchanged(c) ==
    cli[c].snap = IF cli[c].pc = "apply" THEN Untouched
                  ELSE journal[EntryOf(cli[c].group)].after

\* Deleting the created company fails if rows the snapshot lacks reference it.
Deletable(c) ==
    cli[c].pc = "rollback" =>
        data[cli[c].group].rows["created"] = cli[c].snap.rows["created"]

\* The comparison, the operations, the journal row, assertHeld again.
execute(c) ==
    /\ cli[c].tx = "locked"
    /\ IF ~ (Unchanged(c) /\ Deletable(c)) THEN Conflict(c)
       ELSE IF assertHeld(c)
       THEN /\ cli' = [cli EXCEPT ![c].tx = "asserted"]
            /\ UNCHANGED <<data, journal, run, holder, rowLock, late>>
       ELSE LockLost(c)

Committed(c) ==
    /\ cli' = [cli EXCEPT ![c] = Settled(@)]
    /\ rowLock' = Unlocked(c)
    /\ late' = IF holder = Ingest THEN [late EXCEPT ![c] = @ + 1] ELSE late
    /\ UNCHANGED <<run, holder>>

\* The state a commit leaves of what its snapshot saw.
Split(d) == [d EXCEPT !.split = TRUE, !.history = @ + 1]
Rejoined(d) == [d EXCEPT !.split = FALSE, !.history = @ + 1]

commitApply(c) ==
    LET g == cli[c].group
    IN  /\ cli[c].tx = "asserted" /\ cli[c].pc = "apply"
        /\ data' = [data EXCEPT ![g] = Split(@)]
        /\ journal' = Append(journal, [group |-> g, status |-> "APPLIED",
                                       after |-> Split(cli[c].snap)])
        /\ Committed(c)

\* Mutant: the journal row keeps its status.
ReversedStill == "APPLIED"

Reversed == "ROLLED_BACK"

commitRollback(c) ==
    LET g == cli[c].group
    IN  /\ cli[c].tx = "asserted" /\ cli[c].pc = "rollback"
        /\ data' = [data EXCEPT ![g] = Rejoined(@)]
        /\ journal' = [journal EXCEPT ![EntryOf(g)].status = Reversed]
        /\ Committed(c)

----------------------------------------------------------------------------
(* People. *)

Changes[g \in 0 .. GroupCount] ==
    IF g = 0 THEN 0
    ELSE Changes[g - 1] + data[g].edits + data[g].reports
           + data[g].rows["incumbent"] + data[g].rows["created"]

\* An approval, a merge or a scan updates a company: it waits for the row lock.
edit(g) ==
    /\ rowLock[g] = none
    /\ Changes[GroupCount] < MaxChanges
    /\ data' = [data EXCEPT ![g].edits = @ + 1]
    /\ UNCHANGED <<journal, run, holder, cli, rowLock, late>>

\* A child insert waits too, for its foreign key.
insert(g, side) ==
    /\ rowLock[g] = none
    /\ side = "created" => data[g].split
    /\ Changes[GroupCount] < MaxChanges
    /\ data' = [data EXCEPT ![g].rows[side] = @ + 1]
    /\ UNCHANGED <<journal, run, holder, cli, rowLock, late>>

\* A report of the created company waits for nothing.
report(g) ==
    /\ data[g].split
    /\ Changes[GroupCount] < MaxChanges
    /\ data' = [data EXCEPT ![g].reports = @ + 1]
    /\ UNCHANGED <<journal, run, holder, cli, rowLock, late>>

Next ==
    \/ \E c \in Cli :
         \/ applyPlan(c) \/ rollbackRun(c) \/ finish(c) \/ crash(c)
         \/ begin(c) \/ lockGroup(c) \/ lockTimeout(c) \/ execute(c)
         \/ commitApply(c) \/ commitRollback(c)
    \/ loseLock \/ ingestStarts \/ ingestEnds
    \/ \E g \in Group : edit(g) \/ report(g) \/ \E s \in Side : insert(g, s)

Spec == Init /\ [][Next]_vars

----------------------------------------------------------------------------
(* Properties. *)

\* Through crashes, resumes, rollbacks and a second process that starts while
\* the first has lost its lock, a group is split exactly if the journal says
\* so ("the database, not a log file, is the checkpoint").
JournalTellsTheData == \A g \in Group : data[g].split <=> g \in Journaled("APPLIED")

\* A rollback undoes a group only as the repair left it: nobody has edited
\* its companies or attached a row to the created one since ("overwriting it
\* is not a rollback's call").
RollbackOverwritesNothing ==
    [][\A g \in Journaled("APPLIED") : g \in Journaled("ROLLED_BACK")' =>
          LET then == journal[EntryOf(g)].after
          IN  /\ data[g].edits = then.edits
              /\ data[g].rows["created"] = then.rows["created"]]_vars

\* A process that lost the lock to an ingest commits at most the group it had
\* already asserted the lock for ("stopping before any further write").
LostLockStops == \A c \in Cli : late[c] <= 1
=============================================================================
