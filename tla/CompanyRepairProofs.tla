------------------------- MODULE CompanyRepairProofs -------------------------
(***************************************************************************)
(* Theorems of CompanyRepair, for every number of groups and processes;    *)
(* and, at the end, those of the other jobs for the run they share.        *)
(***************************************************************************)
EXTENDS MCJobs, TLAPS

(* The inductive invariant. *)

Holds(c) == cli[c].tx \in {"locked", "asserted"}

\* A transaction works on a group it still has to do; from the row locks to
\* the commit, the group's rows stay as the snapshot has them.
TransactionHolds(c) ==
    LET p == cli[c]
    IN  /\ p.pc = "off" => p.tx = "none" /\ p.todo = {}
        /\ p.tx # "none" => p.group \in p.todo
        /\ p.pc = "rollback" => \A g \in p.todo : \E i \in DOMAIN journal : journal[i].group = g
        /\ Holds(c) => /\ rowLock[p.group] = c
                       /\ data[p.group].edits = p.snap.edits
                       /\ data[p.group].history = p.snap.history
        /\ p.tx = "asserted" => Unchanged(c) /\ Deletable(c)

TransactionsHold == \A c \in Cli : TransactionHolds(c)

\* What the repair appended to a group's history tells whether it is
\* journaled, and with which status.
HistoryTellsTheEntry ==
    \A i \in DOMAIN journal :
        LET d == data[journal[i].group]
            then == journal[i].after
        IN  /\ d.history > 0
            /\ journal[i].status = "APPLIED" => d.history = then.history
            /\ journal[i].status = "ROLLED_BACK" => d.history > then.history

IInv == TypeOK /\ JournalTellsTheData /\ HistoryTellsTheEntry /\ TransactionsHold

LEMMA SplitType == \A d \in Data : /\ Split(d) \in Data
                                   /\ Split(d).split
                                   /\ Split(d).history = d.history + 1
                                   /\ Split(d).edits = d.edits
                                   /\ Split(d).rows = d.rows
<1> SUFFICES ASSUME NEW d \in Data
             PROVE  /\ Split(d) \in Data
                    /\ Split(d).split
                    /\ Split(d).history = d.history + 1
                    /\ Split(d).edits = d.edits
                    /\ Split(d).rows = d.rows
  OBVIOUS
<1> DEFINE e == [d EXCEPT !.split = TRUE]
<1>1. e \in Data /\ e.split = TRUE
  BY DEF Data
<1>2. d.history \in Nat /\ e.history = d.history /\ e.edits = d.edits /\ e.rows = d.rows
  BY DEF Data
<1>3. Split(d) = [e EXCEPT !.history = d.history + 1]
  BY DEF Split, Data
<1> HIDE DEF e
<1>4. Split(d) \in Data
  BY <1>1, <1>2, <1>3 DEF Data
<1> QED BY <1>1, <1>2, <1>3, <1>4 DEF Data

LEMMA RejoinedType == \A d \in Data : /\ Rejoined(d) \in Data
                                      /\ ~ Rejoined(d).split
                                      /\ Rejoined(d).history = d.history + 1
                                      /\ Rejoined(d).edits = d.edits
                                      /\ Rejoined(d).rows = d.rows
<1> SUFFICES ASSUME NEW d \in Data
             PROVE  /\ Rejoined(d) \in Data
                    /\ ~ Rejoined(d).split
                    /\ Rejoined(d).history = d.history + 1
                    /\ Rejoined(d).edits = d.edits
                    /\ Rejoined(d).rows = d.rows
  OBVIOUS
<1> DEFINE e == [d EXCEPT !.split = FALSE]
<1>1. e \in Data /\ e.split = FALSE
  BY DEF Data
<1>2. d.history \in Nat /\ e.history = d.history /\ e.edits = d.edits /\ e.rows = d.rows
  BY DEF Data
<1>3. Rejoined(d) = [e EXCEPT !.history = d.history + 1]
  BY DEF Rejoined, Data
<1> HIDE DEF e
<1>4. Rejoined(d) \in Data
  BY <1>1, <1>2, <1>3 DEF Data
<1> QED BY <1>1, <1>2, <1>3, <1>4 DEF Data

LEMMA UntouchedType == Untouched \in Data /\ Untouched.history = 0 /\ Untouched.split = FALSE
  BY DEF Untouched, Data

LEMMA OffType == /\ Off \in Process
                 /\ Off.pc = "off" /\ Off.tx = "none" /\ Off.group = 0 /\ Off.todo = {}
  BY UntouchedType DEF Off, Process

\* The entry a group has is the one EntryOf chooses.
LEMMA EntryIsUnique ==
  ASSUME TypeOK, NEW i \in DOMAIN journal
  PROVE  EntryOf(journal[i].group) = i
  BY DEF EntryOf, TypeOK

LEMMA EntryIsUniqueNext ==
  ASSUME TypeOK', NEW g, NEW i \in DOMAIN journal', journal'[i].group = g
  PROVE  EntryOf(g)' = i
  BY DEF EntryOf, TypeOK

\* What a step assigns keeps its type.
LEMMA DataType ==
  ASSUME NEW d \in Data, NEW s \in Side
  PROVE  /\ [d EXCEPT !.edits = @ + 1] \in Data
         /\ [d EXCEPT !.reports = @ + 1] \in Data
         /\ [d EXCEPT !.rows[s] = @ + 1] \in Data
<1>1. [d EXCEPT !.edits = @ + 1] \in Data BY DEF Data
<1>2. [d EXCEPT !.reports = @ + 1] \in Data BY DEF Data
<1>3. [d.rows EXCEPT ![s] = @ + 1] \in [Side -> Nat] BY DEF Data
<1>4. [d EXCEPT !.rows = [d.rows EXCEPT ![s] = @ + 1]] \in Data BY <1>3 DEF Data
<1>5. [d EXCEPT !.rows[s] = @ + 1] = [d EXCEPT !.rows = [d.rows EXCEPT ![s] = @ + 1]]
  BY DEF Data
<1> QED BY <1>1, <1>2, <1>4, <1>5

LEMMA ProcessType ==
  ASSUME NEW p \in Process
  PROVE  /\ GaveUp(p) \in Process
         /\ GaveUp(p).pc = p.pc /\ GaveUp(p).tx = "none" /\ GaveUp(p).todo \subseteq p.todo
         /\ p.group \in Group => Settled(p) \in Process
         /\ Settled(p).pc = p.pc /\ Settled(p).tx = "none" /\ Settled(p).todo \subseteq p.todo
<1>1. p.todo \ {p.group} \in SUBSET Group BY DEF Process
<1>2. p.group \in Group => p.settled \cup {p.group} \in SUBSET Group BY DEF Process
<1>3. GaveUp(p) \in Process
  BY <1>1 DEF Process, GaveUp
<1>4. /\ GaveUp(p).pc = p.pc /\ GaveUp(p).tx = "none" /\ GaveUp(p).todo \subseteq p.todo
      /\ GaveUp(p).settled = p.settled
  BY DEF Process, GaveUp
<1>5. p.group \in Group => Settled(p) \in Process
  BY <1>2, <1>3, <1>4 DEF Process, Settled
<1>6. Settled(p).pc = p.pc /\ Settled(p).tx = "none" /\ Settled(p).todo \subseteq p.todo
  BY <1>3, <1>4 DEF Process, Settled
<1> QED BY <1>3, <1>4, <1>5, <1>6

(* Types. *)

LEMMA EntryType ==
  ASSUME TypeOK, NEW i \in DOMAIN journal
  PROVE  journal[i] \in Entry /\ journal[i].group \in Group
<1>1. journal[i] \in Entry
  BY DEF TypeOK
<1> QED BY <1>1 DEF Entry

LEMMA JournaledType ==
  ASSUME TypeOK, NEW status
  PROVE  Journaled(status) \in SUBSET Group
<1>1. \A i \in DOMAIN journal : journal[i] \in Entry
  BY DEF TypeOK
<1> QED BY <1>1 DEF Journaled, Entry

LEMMA UnlockedType ==
  ASSUME TypeOK, NEW c \in Cli
  PROVE  Unlocked(c) \in [Group -> Cli \cup {none}]
  BY DEF TypeOK, Unlocked

LEMMA ExitsType ==
  ASSUME TypeOK, NEW c \in Cli, Exits(c)
  PROVE  /\ data' = data /\ journal' = journal /\ late' = late
         /\ cli' \in [Cli -> Process]
         /\ holder' \in Cli \cup {Ingest, none}
         /\ rowLock' \in [Group -> Cli \cup {none}]
  BY OffType, UnlockedType DEF TypeOK, Exits

LEMMA ConflictType ==
  ASSUME TypeOK, NEW c \in Cli, Conflict(c)
  PROVE  TypeOK'
<1>1. cli' \in [Cli -> Process] BY ProcessType DEF TypeOK, Conflict
<1> QED BY <1>1, UnlockedType DEF TypeOK, Conflict

LEMMA LockLostType ==
  ASSUME TypeOK, NEW c \in Cli, LockLost(c)
  PROVE  TypeOK'
  BY ExitsType DEF TypeOK, LockLost

LEMMA CommittedType ==
  ASSUME TypeOK, NEW c \in Cli, Committed(c), cli[c].group \in Group
  PROVE  /\ cli' \in [Cli -> Process]
         /\ holder' \in Cli \cup {Ingest, none}
         /\ rowLock' \in [Group -> Cli \cup {none}]
         /\ late' \in [Cli -> Nat]
         /\ run' \in {"none", "RUNNING", "APPLIED", "PARTIAL", "ROLLED_BACK"}
<1>3. cli' \in [Cli -> Process] BY ProcessType DEF TypeOK, Committed
<1>4. late' \in [Cli -> Nat] BY DEF TypeOK, Committed
<1> QED BY <1>3, <1>4, UnlockedType DEF TypeOK, Committed

(* What the two commits do to the journal. *)

LEMMA AppliedEntry ==
  ASSUME IInv, NEW c \in Cli, commitApply(c)
  PROVE  LET g == cli[c].group
             n == Len(journal) + 1
         IN  /\ g \in Group
             /\ \A i \in DOMAIN journal : journal[i].group # g
             /\ journal' \in Seq(Entry)
             /\ DOMAIN journal' = DOMAIN journal \cup {n} /\ n \notin DOMAIN journal
             /\ \A i \in DOMAIN journal : journal'[i] = journal[i]
             /\ journal'[n].group = g /\ journal'[n].status = "APPLIED"
             /\ journal'[n].after.history = data[g].history + 1
<1> DEFINE g == cli[c].group
           e == [group |-> g, status |-> "APPLIED", after |-> Split(cli[c].snap)]
<1>1. cli[c] \in Process /\ cli[c].tx = "asserted" /\ cli[c].pc = "apply"
  BY DEF IInv, TypeOK, commitApply
<1>2. g \in Group /\ cli[c].snap \in Data
  BY <1>1 DEF IInv, TransactionsHold, TransactionHolds, Process
<1>3. cli[c].snap = Untouched /\ data[g].history = cli[c].snap.history
  BY <1>1 DEF IInv, TransactionsHold, TransactionHolds, Unchanged, Holds
<1>4. data[g].history = 0
  BY <1>3, UntouchedType
<1>5. \A i \in DOMAIN journal : journal[i].group # g
  BY <1>4 DEF IInv, HistoryTellsTheEntry
<1>6. e \in Entry
  BY <1>2, SplitType DEF Entry
<1>7. journal \in Seq(Entry) /\ journal' = Append(journal, e)
  BY DEF IInv, TypeOK, commitApply
<1>8. e.group = g /\ e.status = "APPLIED" /\ e.after.history = data[g].history + 1
  BY <1>2, <1>3, SplitType
<1> HIDE DEF e
<1>9. /\ journal' \in Seq(Entry)
      /\ DOMAIN journal' = DOMAIN journal \cup {Len(journal) + 1}
      /\ Len(journal) + 1 \notin DOMAIN journal
      /\ \A i \in DOMAIN journal : journal'[i] = journal[i]
      /\ journal'[Len(journal) + 1] = e
  BY <1>6, <1>7
<1> QED BY <1>2, <1>5, <1>8, <1>9

LEMMA ReversedEntry ==
  ASSUME IInv, NEW c \in Cli, commitRollback(c)
  PROVE  LET g == cli[c].group
             k == EntryOf(g)
         IN  /\ g \in Group
             /\ k \in DOMAIN journal /\ journal[k].group = g /\ journal[k].status = "APPLIED"
             /\ data[g].edits = journal[k].after.edits
             /\ data[g].rows["created"] = journal[k].after.rows["created"]
             /\ journal' \in Seq(Entry) /\ DOMAIN journal' = DOMAIN journal
             /\ \A i \in DOMAIN journal : /\ journal'[i].group = journal[i].group
                                          /\ journal'[i].after = journal[i].after
                                          /\ i # k => journal'[i].status = journal[i].status
             /\ journal'[k].status = "ROLLED_BACK"
<1> DEFINE g == cli[c].group
           k == EntryOf(g)
<1>1. cli[c] \in Process /\ cli[c].tx = "asserted" /\ cli[c].pc = "rollback"
  BY DEF IInv, TypeOK, commitRollback
<1>2. g \in cli[c].todo /\ g \in Group
  BY <1>1 DEF IInv, TransactionsHold, TransactionHolds, Process
<1>3. PICK i \in DOMAIN journal : journal[i].group = g
  BY <1>1, <1>2 DEF IInv, TransactionsHold, TransactionHolds
<1>4. k = i
  BY <1>3, EntryIsUnique DEF IInv
<1>5. /\ data[g].edits = cli[c].snap.edits
      /\ data[g].history = cli[c].snap.history
      /\ cli[c].snap = journal[k].after
      /\ data[g].rows["created"] = cli[c].snap.rows["created"]
  BY <1>1 DEF IInv, TransactionsHold, TransactionHolds, Unchanged, Deletable, Holds
<1>6. journal \in Seq(Entry) /\ journal[k] \in Entry /\ data[g] \in Data
  BY <1>2, <1>3, <1>4 DEF IInv, TypeOK
<1>7. journal[k].status = "APPLIED"
  <2>1. journal[k].status = "ROLLED_BACK" => data[g].history > journal[k].after.history
    BY <1>3, <1>4 DEF IInv, HistoryTellsTheEntry
  <2>2. data[g].history = journal[k].after.history /\ data[g].history \in Nat
    BY <1>5, <1>6 DEF Data
  <2> QED BY <1>6, <2>1, <2>2 DEF Entry
<1>8. journal' = [journal EXCEPT ![k] = [journal[k] EXCEPT !.status = "ROLLED_BACK"]]
  BY DEF commitRollback, Reversed
<1>9. /\ [journal[k] EXCEPT !.status = "ROLLED_BACK"] \in Entry
      /\ [journal[k] EXCEPT !.status = "ROLLED_BACK"].group = journal[k].group
      /\ [journal[k] EXCEPT !.status = "ROLLED_BACK"].after = journal[k].after
      /\ [journal[k] EXCEPT !.status = "ROLLED_BACK"].status = "ROLLED_BACK"
  BY <1>6 DEF Entry
<1>10. journal' \in Seq(Entry) /\ DOMAIN journal' = DOMAIN journal
  BY <1>3, <1>4, <1>6, <1>8, <1>9
<1>11. /\ \A j \in DOMAIN journal : j # k => journal'[j] = journal[j]
       /\ journal'[k] = [journal[k] EXCEPT !.status = "ROLLED_BACK"]
  BY <1>3, <1>4, <1>6, <1>8
<1> HIDE DEF g, k
<1>12. \A j \in DOMAIN journal : /\ journal'[j].group = journal[j].group
                                 /\ journal'[j].after = journal[j].after
                                 /\ j # k => journal'[j].status = journal[j].status
  BY <1>9, <1>11
<1>13. journal'[k].status = "ROLLED_BACK"
  BY <1>9, <1>11
<1> QED BY <1>2, <1>3, <1>4, <1>5, <1>7, <1>10, <1>12, <1>13 DEF g, k

(* A step keeps what TransactionHolds says of a process. *)

\* It is idle, or gone.
LEMMA IdleHolds ==
  ASSUME NEW d \in Cli, cli'[d].tx = "none",
         cli'[d].pc = "off" => cli'[d].todo = {},
         cli'[d].pc = "rollback" =>
             \A g \in cli'[d].todo : \E i \in DOMAIN journal' : journal'[i].group = g
  PROVE  TransactionHolds(d)'
  BY DEF TransactionHolds, Holds

\* Neither it nor the rows it holds changed, nor any entry's after-state.
LEMMA BystanderHolds ==
  ASSUME IInv, TypeOK', NEW d \in Cli, cli'[d] = cli[d],
         \A i \in DOMAIN journal : /\ i \in DOMAIN journal'
                                   /\ journal'[i].group = journal[i].group
                                   /\ journal'[i].after = journal[i].after,
         Holds(d) => LET g == cli[d].group
                     IN  /\ rowLock'[g] = d
                         /\ data'[g].edits = data[g].edits
                         /\ data'[g].history = data[g].history
                         /\ data'[g].rows = data[g].rows
  PROVE  TransactionHolds(d)'
<1> DEFINE g == cli[d].group
<1>1. TransactionHolds(d)
  BY DEF IInv, TransactionsHold
<1>2. cli[d].pc = "rollback" =>
          \A h \in cli[d].todo : \E i \in DOMAIN journal' : journal'[i].group = h
  BY <1>1 DEF TransactionHolds
<1>3. ASSUME cli[d].tx = "asserted" PROVE Unchanged(d)' /\ Deletable(d)'
  <2>1. Unchanged(d) /\ Deletable(d) /\ Holds(d) /\ g \in cli[d].todo
    BY <1>1, <1>3 DEF TransactionHolds, Holds
  <2>2. Deletable(d)'
    BY <2>1 DEF Deletable
  <2>3. cli[d].pc \in {"off", "apply", "rollback"}
    BY DEF IInv, TypeOK, Process
  <2>4. CASE cli[d].pc = "apply"
    BY <2>1, <2>2, <2>4 DEF Unchanged
  <2>5. CASE cli[d].pc = "rollback"
    <3>1. PICK i \in DOMAIN journal : journal[i].group = g
      BY <1>1, <2>1, <2>5 DEF TransactionHolds
    <3>2. EntryOf(g) = i
      BY <3>1, EntryIsUnique DEF IInv
    <3>3. i \in DOMAIN journal' /\ journal'[i].group = g
      BY <3>1
    <3>4. EntryOf(g)' = i
      BY <3>3, EntryIsUniqueNext
    <3> QED BY <2>1, <2>2, <2>5, <3>1, <3>2, <3>4 DEF Unchanged
  <2> QED BY <1>1, <1>3, <2>3, <2>4, <2>5 DEF TransactionHolds
<1> QED BY <1>1, <1>2, <1>3 DEF TransactionHolds, Holds

\* Another process's own steps: only its group's rows, which it holds, change.
LEMMA OthersHold ==
  ASSUME IInv, TypeOK', NEW c \in Cli, NEW d \in Cli, d # c,
         \A e \in Cli : e # c => cli'[e] = cli[e],
         \A g \in Group : rowLock[g] = d => rowLock'[g] = d,
         \A g \in Group : rowLock[g] = d => data'[g] = data[g],
         \A i \in DOMAIN journal : /\ i \in DOMAIN journal'
                                   /\ journal'[i].group = journal[i].group
                                   /\ journal'[i].after = journal[i].after
  PROVE  TransactionHolds(d)'
<1>1. cli'[d] = cli[d]
  OBVIOUS
<1>2. ASSUME Holds(d)
      PROVE  cli[d].group \in Group /\ rowLock[cli[d].group] = d
  BY <1>2 DEF IInv, TypeOK, Process, TransactionsHold, TransactionHolds, Holds
<1> QED BY <1>1, <1>2, BystanderHolds

\* A process gives its group up or ends: its row locks go, nothing else.
LEMMA ReleaseHolds ==
  ASSUME IInv, TypeOK', NEW c \in Cli, NEW p, cli' = [cli EXCEPT ![c] = p], rowLock' = Unlocked(c),
         data' = data, journal' = journal, p.tx = "none",
         p.pc = "off" => p.todo = {},
         p.pc = "rollback" => cli[c].pc = "rollback" /\ p.todo \subseteq cli[c].todo
  PROVE  TransactionsHold'
<1> SUFFICES ASSUME NEW d \in Cli PROVE TransactionHolds(d)'
  BY DEF TransactionsHold
<1>1. cli'[c] = p /\ \A e \in Cli : e # c => cli'[e] = cli[e]
  BY DEF IInv, TypeOK
<1>2. CASE d = c
  BY <1>1, <1>2, IdleHolds DEF IInv, TransactionsHold, TransactionHolds
<1>3. CASE d # c
  <2>1. \A g \in Group : rowLock[g] = d => rowLock'[g] = d
    BY <1>3 DEF Unlocked
  <2> QED BY <1>1, <1>3, <2>1, OthersHold
<1> QED BY <1>2, <1>3

LEMMA ConflictHolds ==
  ASSUME IInv, NEW c \in Cli, Conflict(c)
  PROVE  TransactionsHold'
<1>1. TypeOK' BY ConflictType DEF IInv
<1>2. GaveUp(cli[c]).tx = "none" /\ GaveUp(cli[c]).pc = cli[c].pc
         /\ GaveUp(cli[c]).todo \subseteq cli[c].todo
  BY ProcessType DEF IInv, TypeOK
<1>3. cli[c].pc = "off" => GaveUp(cli[c]).todo = {}
  BY <1>2 DEF IInv, TransactionsHold, TransactionHolds
<1> QED BY <1>1, <1>2, <1>3, ReleaseHolds DEF Conflict

LEMMA ExitsHold ==
  ASSUME IInv, NEW c \in Cli, Exits(c), TypeOK'
  PROVE  TransactionsHold'
  BY OffType, ReleaseHolds DEF Exits

(* The invariant is inductive. *)

LEMMA InitIInv == Init => IInv
<1> SUFFICES ASSUME Init PROVE IInv OBVIOUS
<1>1. TypeOK
  BY UntouchedType, OffType DEF Init, TypeOK
<1>2. journal = <<>> /\ \A g \in Group : data[g].split = FALSE
  BY UntouchedType DEF Init
<1>3. JournalTellsTheData /\ HistoryTellsTheEntry
  BY <1>2 DEF JournalTellsTheData, HistoryTellsTheEntry, Journaled
<1>4. TransactionsHold
  BY OffType DEF Init, TransactionsHold, TransactionHolds, Holds
<1> QED BY <1>1, <1>3, <1>4 DEF IInv

\* Steps that commit nothing and change no data leave these two alone.
LEMMA DataKept ==
  ASSUME IInv, data' = data, journal' = journal
  PROVE  JournalTellsTheData' /\ HistoryTellsTheEntry'
  BY DEF IInv, JournalTellsTheData, HistoryTellsTheEntry, Journaled

LEMMA StartsIInv ==
  ASSUME IInv, NEW c \in Cli, applyPlan(c) \/ rollbackRun(c)
  PROVE  IInv'
<1>1. Journaled("APPLIED") \in SUBSET Group /\ Journaled("ROLLED_BACK") \in SUBSET Group
  BY JournaledType DEF IInv
<1>2. PICK p \in Process :
          /\ cli' = [cli EXCEPT ![c] = p] /\ p.tx = "none" /\ p.pc # "off"
          /\ p.pc = "rollback" => p.todo = Journaled("APPLIED")
  <2>1. CASE applyPlan(c)
    <3> DEFINE p == [Off EXCEPT !.pc = "apply", !.settled = Skipped, !.todo = Group \ Skipped]
    <3>1. p \in Process /\ p.tx = "none" /\ p.pc = "apply"
      BY <1>1, OffType DEF Process, Skipped
    <3> QED BY <2>1, <3>1 DEF applyPlan
  <2>2. CASE rollbackRun(c)
    <3> DEFINE p == [Off EXCEPT !.pc = "rollback", !.todo = Journaled("APPLIED")]
    <3>1. p \in Process /\ p.tx = "none" /\ p.todo = Journaled("APPLIED") /\ p.pc # "off"
      BY <1>1, OffType DEF Process
    <3> QED BY <2>2, <3>1 DEF rollbackRun
  <2> QED BY <2>1, <2>2
<1>3. UNCHANGED <<data, journal, rowLock, late>> /\ holder' = c
        /\ run' \in {"none", "RUNNING", "APPLIED", "PARTIAL", "ROLLED_BACK"}
  BY DEF applyPlan, rollbackRun, IInv, TypeOK
<1>4. TypeOK'
  BY <1>2, <1>3 DEF IInv, TypeOK
<1>5. cli'[c] = p /\ \A e \in Cli : e # c => cli'[e] = cli[e]
  BY <1>2 DEF IInv, TypeOK
<1>6. ASSUME NEW d \in Cli PROVE TransactionHolds(d)'
  <2>1. CASE d = c
    <3>1. \A g \in Journaled("APPLIED") : \E i \in DOMAIN journal : journal[i].group = g
      BY DEF Journaled
    <3> QED BY <1>2, <1>3, <1>5, <2>1, <3>1, IdleHolds
  <2>2. CASE d # c
    BY <1>3, <1>4, <1>5, <2>2, OthersHold
  <2> QED BY <2>1, <2>2
<1> QED BY <1>3, <1>4, <1>6, DataKept DEF IInv, TransactionsHold

LEMMA ExitsIInv ==
  ASSUME IInv, NEW c \in Cli, Exits(c),
         run' \in {"none", "RUNNING", "APPLIED", "PARTIAL", "ROLLED_BACK"}
  PROVE  IInv'
<1>1. TypeOK'
  BY ExitsType DEF IInv, TypeOK
<1> QED BY <1>1, ExitsHold, DataKept DEF IInv, Exits

LEMMA LockLostIInv ==
  ASSUME IInv, NEW c \in Cli, LockLost(c)
  PROVE  IInv'
  BY ExitsIInv DEF LockLost, IInv, TypeOK

LEMMA ConflictIInv ==
  ASSUME IInv, NEW c \in Cli, Conflict(c)
  PROVE  IInv'
  BY ConflictType, ConflictHolds, DataKept DEF IInv, Conflict

LEMMA BeginIInv ==
  ASSUME IInv, NEW c \in Cli, begin(c)
  PROVE  IInv'
<1>1. CASE LockLost(c) BY <1>1, LockLostIInv
<1>2. CASE /\ \E g \in cli[c].todo :
                 cli' = [cli EXCEPT ![c] = [@ EXCEPT !.tx = "begun", !.group = g, !.snap = data[g]]]
           /\ UNCHANGED <<data, journal, run, holder, rowLock, late>>
  <2>1. PICK g \in cli[c].todo :
            cli' = [cli EXCEPT ![c] = [cli[c] EXCEPT !.tx = "begun", !.group = g, !.snap = data[g]]]
    BY <1>2
  <2> DEFINE p == [cli[c] EXCEPT !.tx = "begun", !.group = g, !.snap = data[g]]
  <2>2. /\ p \in Process /\ p.tx = "begun" /\ p.group = g
        /\ p.pc = cli[c].pc /\ p.todo = cli[c].todo
    BY DEF IInv, TypeOK, Process
  <2> HIDE DEF p
  <2>3. cli' = [cli EXCEPT ![c] = p]
    BY <2>1 DEF p
  <2>4. TypeOK'
    BY <1>2, <2>2, <2>3 DEF IInv, TypeOK
  <2>5. cli'[c] = p /\ \A e \in Cli : e # c => cli'[e] = cli[e]
    BY <2>3 DEF IInv, TypeOK
  <2>6. ASSUME NEW d \in Cli PROVE TransactionHolds(d)'
    <3>1. CASE d = c
      <4>1. cli[c].pc # "off"
        BY <2>1 DEF IInv, TransactionsHold, TransactionHolds
      <4> QED BY <1>2, <2>2, <2>5, <3>1, <4>1
             DEF IInv, TransactionsHold, TransactionHolds, Holds
    <3>2. CASE d # c
      BY <1>2, <2>4, <2>5, <3>2, OthersHold
    <3> QED BY <3>1, <3>2
  <2> QED BY <1>2, <2>4, <2>6, DataKept DEF IInv, TransactionsHold
<1> QED BY <1>1, <1>2 DEF begin

\* Taking the row locks, and asserting the lock a second time.
LEMMA ProgressIInv ==
  ASSUME IInv, NEW c \in Cli, NEW tx \in {"locked", "asserted"},
         cli' = [cli EXCEPT ![c].tx = tx], cli[c].tx # "none",
         UNCHANGED <<data, journal, run, holder, late>>,
         rowLock' = [rowLock EXCEPT ![cli[c].group] = c],
         rowLock[cli[c].group] \in {c, none},
         data[cli[c].group].edits = cli[c].snap.edits,
         data[cli[c].group].history = cli[c].snap.history,
         tx = "asserted" => Unchanged(c) /\ Deletable(c)
  PROVE  IInv'
<1> DEFINE g == cli[c].group
           p == [cli[c] EXCEPT !.tx = tx]
<1>1. g \in cli[c].todo /\ g \in Group /\ cli[c].pc # "off"
  BY DEF IInv, TypeOK, Process, TransactionsHold, TransactionHolds
<1>2. /\ p \in Process /\ p.tx = tx /\ p.group = g /\ p.pc = cli[c].pc
      /\ p.todo = cli[c].todo /\ p.snap = cli[c].snap
  BY DEF IInv, TypeOK, Process
<1>3. cli' = [cli EXCEPT ![c] = p]
  BY DEF IInv, TypeOK
<1> HIDE DEF p
<1>4. TypeOK'
  BY <1>1, <1>2, <1>3 DEF IInv, TypeOK
<1>5. cli'[c] = p /\ \A e \in Cli : e # c => cli'[e] = cli[e]
  BY <1>3 DEF IInv, TypeOK
<1>6. ASSUME NEW d \in Cli PROVE TransactionHolds(d)'
  <2>1. CASE d = c
    <3>1. tx = "asserted" => Unchanged(c)' /\ Deletable(c)'
      BY <1>2, <1>5 DEF Unchanged, Deletable, EntryOf
    <3>2. rowLock'[g] = c
      BY <1>1 DEF IInv, TypeOK
    <3> QED BY <1>1, <1>2, <1>5, <2>1, <3>1, <3>2
           DEF IInv, TransactionsHold, TransactionHolds, Holds
  <2>2. CASE d # c
    <3>1. \A h \in Group : rowLock[h] = d => rowLock'[h] = d
      BY <2>2, RepairAssumption DEF IInv, TypeOK
    <3> QED BY <1>4, <1>5, <2>2, <3>1, OthersHold
  <2> QED BY <2>1, <2>2
<1> QED BY <1>4, <1>6, DataKept DEF IInv, TransactionsHold

LEMMA LockGroupIInv ==
  ASSUME IInv, NEW c \in Cli, lockGroup(c)
  PROVE  IInv'
<1>1. CASE Conflict(c) BY <1>1, ConflictIInv
<1>2. CASE /\ data[cli[c].group].edits = cli[c].snap.edits
           /\ data[cli[c].group].history = cli[c].snap.history
           /\ rowLock' = [rowLock EXCEPT ![cli[c].group] = c]
           /\ cli' = [cli EXCEPT ![c].tx = "locked"]
           /\ UNCHANGED <<data, journal, run, holder, late>>
  BY <1>2, ProgressIInv DEF lockGroup
<1> QED BY <1>1, <1>2 DEF lockGroup

LEMMA ExecuteIInv ==
  ASSUME IInv, NEW c \in Cli, execute(c)
  PROVE  IInv'
<1>1. CASE Conflict(c) BY <1>1, ConflictIInv
<1>2. CASE LockLost(c) BY <1>2, LockLostIInv
<1>3. CASE /\ Unchanged(c) /\ Deletable(c)
           /\ cli' = [cli EXCEPT ![c].tx = "asserted"]
           /\ UNCHANGED <<data, journal, run, holder, rowLock, late>>
  <2>1. /\ cli[c].tx = "locked" /\ rowLock[cli[c].group] = c
        /\ data[cli[c].group].edits = cli[c].snap.edits
        /\ data[cli[c].group].history = cli[c].snap.history
    BY DEF execute, IInv, TransactionsHold, TransactionHolds, Holds
  <2>2. rowLock' = [rowLock EXCEPT ![cli[c].group] = c]
    BY <1>3, <2>1 DEF IInv, TypeOK
  <2> QED BY <1>3, <2>1, <2>2, ProgressIInv
<1> QED BY <1>1, <1>2, <1>3 DEF execute

\* Both commits: one group's data and entry change, and no other process has
\* that group's rows.
LEMMA CommittedHolds ==
  ASSUME IInv, TypeOK', NEW c \in Cli, Committed(c), cli[c].tx = "asserted",
         NEW x, data' = [data EXCEPT ![cli[c].group] = x],
         \A i \in DOMAIN journal : /\ i \in DOMAIN journal'
                                   /\ journal'[i].group = journal[i].group
                                   /\ journal'[i].after = journal[i].after
  PROVE  TransactionsHold'
<1> SUFFICES ASSUME NEW d \in Cli PROVE TransactionHolds(d)'
  BY DEF TransactionsHold
<1>1. cli'[c] = Settled(cli[c]) /\ \A e \in Cli : e # c => cli'[e] = cli[e]
  BY DEF IInv, TypeOK, Committed
<1>2. /\ Settled(cli[c]).tx = "none" /\ Settled(cli[c]).pc = cli[c].pc
      /\ Settled(cli[c]).todo \subseteq cli[c].todo
  BY ProcessType DEF IInv, TypeOK
<1>3. TransactionHolds(c) /\ Holds(c)
  BY DEF IInv, TransactionsHold, Holds
<1>4. CASE d = c
  <2>1. cli'[d].pc = "off" => cli'[d].todo = {}
    BY <1>1, <1>2, <1>3, <1>4 DEF TransactionHolds
  <2>2. cli'[d].pc = "rollback" =>
            \A g \in cli'[d].todo : \E i \in DOMAIN journal' : journal'[i].group = g
    BY <1>1, <1>2, <1>3, <1>4 DEF TransactionHolds
  <2> QED BY <1>1, <1>2, <1>4, <2>1, <2>2, IdleHolds
<1>5. CASE d # c
  <2>1. \A g \in Group : rowLock[g] = d => rowLock'[g] = d
    BY <1>5 DEF Committed, Unlocked
  <2>2. \A g \in Group : rowLock[g] = d => data'[g] = data[g]
    BY <1>3, <1>5 DEF TransactionHolds, IInv, TypeOK
  <2> QED BY <1>1, <1>5, <2>1, <2>2, OthersHold
<1> QED BY <1>4, <1>5

LEMMA CommitApplyIInv ==
  ASSUME IInv, NEW c \in Cli, commitApply(c)
  PROVE  IInv'
<1> DEFINE g == cli[c].group
           n == Len(journal) + 1
<1>1. /\ g \in Group
      /\ \A i \in DOMAIN journal : journal[i].group # g
      /\ journal' \in Seq(Entry)
      /\ DOMAIN journal' = DOMAIN journal \cup {n} /\ n \notin DOMAIN journal
      /\ \A i \in DOMAIN journal : journal'[i] = journal[i]
      /\ journal'[n].group = g /\ journal'[n].status = "APPLIED"
      /\ journal'[n].after.history = data[g].history + 1
  BY AppliedEntry
<1>2. data \in [Group -> Data] /\ data[g] \in Data
  BY <1>1 DEF IInv, TypeOK
<1>3. data' = [data EXCEPT ![g] = Split(data[g])] /\ Committed(c) /\ cli[c].tx = "asserted"
  BY DEF commitApply
<1>4. /\ data' \in [Group -> Data] /\ data'[g].split /\ data'[g].history = data[g].history + 1
      /\ \A h \in Group : h # g => data'[h] = data[h]
  BY <1>1, <1>2, <1>3, SplitType
<1> HIDE DEF n
<1>5. TypeOK'
  <2>1. \A i, j \in DOMAIN journal' : journal'[i].group = journal'[j].group => i = j
    BY <1>1 DEF IInv, TypeOK
  <2> QED BY <1>1, <1>3, <1>4, <2>1, CommittedType DEF IInv, TypeOK
<1>6. TransactionsHold'
  BY <1>1, <1>3, <1>5, CommittedHolds
<1>7. Journaled("APPLIED")' = Journaled("APPLIED") \cup {g}
  BY <1>1 DEF Journaled
<1>8. JournalTellsTheData'
  BY <1>4, <1>7 DEF JournalTellsTheData, IInv
<1>9. HistoryTellsTheEntry'
  <2> SUFFICES ASSUME NEW i \in DOMAIN journal'
               PROVE  LET d == data'[journal'[i].group]
                          then == journal'[i].after
                      IN  /\ d.history > 0
                          /\ journal'[i].status = "APPLIED" => d.history = then.history
                          /\ journal'[i].status = "ROLLED_BACK" => d.history > then.history
    BY DEF HistoryTellsTheEntry
  <2>1. CASE i = n
    BY <1>1, <1>2, <1>4, <2>1 DEF Data
  <2>2. CASE i \in DOMAIN journal
    <3>1. journal[i].group \in Group
      BY <2>2, EntryType DEF IInv
    <3> QED BY <1>1, <1>4, <2>2, <3>1 DEF IInv, HistoryTellsTheEntry
  <2> QED BY <1>1, <2>1, <2>2
<1> QED BY <1>5, <1>6, <1>8, <1>9 DEF IInv

LEMMA CommitRollbackIInv ==
  ASSUME IInv, NEW c \in Cli, commitRollback(c)
  PROVE  IInv'
<1> DEFINE g == cli[c].group
           k == EntryOf(g)
<1>1. /\ g \in Group
      /\ k \in DOMAIN journal /\ journal[k].group = g /\ journal[k].status = "APPLIED"
      /\ journal' \in Seq(Entry) /\ DOMAIN journal' = DOMAIN journal
      /\ \A i \in DOMAIN journal : /\ journal'[i].group = journal[i].group
                                   /\ journal'[i].after = journal[i].after
                                   /\ i # k => journal'[i].status = journal[i].status
      /\ journal'[k].status = "ROLLED_BACK"
  BY ReversedEntry
<1>2. data \in [Group -> Data] /\ data[g] \in Data
  BY <1>1 DEF IInv, TypeOK
<1>3. data' = [data EXCEPT ![g] = Rejoined(data[g])] /\ Committed(c) /\ cli[c].tx = "asserted"
  BY DEF commitRollback
<1>4. /\ data' \in [Group -> Data] /\ ~ data'[g].split /\ data'[g].history = data[g].history + 1
      /\ \A h \in Group : h # g => data'[h] = data[h]
  BY <1>1, <1>2, <1>3, RejoinedType
<1> HIDE DEF k
<1>5. \A i \in DOMAIN journal : journal[i].group = g => i = k
  BY <1>1 DEF IInv, TypeOK
<1>6. TypeOK'
  <2>1. \A i, j \in DOMAIN journal' : journal'[i].group = journal'[j].group => i = j
    BY <1>1 DEF IInv, TypeOK
  <2> QED BY <1>1, <1>3, <1>4, <2>1, CommittedType DEF IInv, TypeOK
<1>7. TransactionsHold'
  BY <1>1, <1>3, <1>6, CommittedHolds
<1>8. Journaled("APPLIED")' = Journaled("APPLIED") \ {g}
  BY <1>1, <1>5 DEF Journaled
<1>9. JournalTellsTheData'
  BY <1>4, <1>8 DEF JournalTellsTheData, IInv
<1>10. HistoryTellsTheEntry'
  <2> SUFFICES ASSUME NEW i \in DOMAIN journal
               PROVE  LET d == data'[journal'[i].group]
                          then == journal'[i].after
                      IN  /\ d.history > 0
                          /\ journal'[i].status = "APPLIED" => d.history = then.history
                          /\ journal'[i].status = "ROLLED_BACK" => d.history > then.history
    BY <1>1 DEF HistoryTellsTheEntry
  <2>1. CASE i = k
    <3>1. data[g].history = journal[k].after.history /\ data[g].history > 0
      BY <1>1 DEF IInv, HistoryTellsTheEntry
    <3>2. data[g].history \in Nat
      BY <1>2 DEF Data
    <3>3. journal'[i].group = g /\ journal'[i].status = "ROLLED_BACK"
            /\ journal'[i].after = journal[k].after
      BY <1>1, <2>1
    <3>4. data'[g].history > journal[k].after.history /\ data'[g].history > 0
      BY <1>4, <3>1, <3>2
    <3> QED BY <3>3, <3>4
  <2>2. CASE i # k
    <3>1. journal[i].group \in Group /\ journal[i].group # g
      BY <1>5, <2>2, EntryType DEF IInv
    <3> QED BY <1>1, <1>4, <2>2, <3>1 DEF IInv, HistoryTellsTheEntry
  <2> QED BY <2>1, <2>2
<1> QED BY <1>6, <1>7, <1>9, <1>10 DEF IInv

\* People change only rows no transaction holds, or a report, which no
\* transaction relies on.
LEMMA PeopleIInv ==
  ASSUME IInv, NEW g \in Group, NEW x \in Data, data' = [data EXCEPT ![g] = x],
         UNCHANGED <<journal, run, holder, cli, rowLock, late>>,
         x.split = data[g].split, x.history = data[g].history,
         rowLock[g] # none => x.edits = data[g].edits /\ x.rows = data[g].rows
  PROVE  IInv'
<1>1. TypeOK'
  BY DEF IInv, TypeOK
<1>2. data'[g] = x /\ \A h \in Group : h # g => data'[h] = data[h]
  BY DEF IInv, TypeOK
<1>3. \A h \in Group : data'[h].split = data[h].split /\ data'[h].history = data[h].history
  BY <1>2
<1>4. JournalTellsTheData'
  BY <1>3 DEF IInv, JournalTellsTheData, Journaled
<1>5. \A i \in DOMAIN journal : journal[i].group \in Group
  BY EntryType DEF IInv
<1>6. HistoryTellsTheEntry'
  BY <1>3, <1>5 DEF IInv, HistoryTellsTheEntry
<1>7. ASSUME NEW d \in Cli PROVE TransactionHolds(d)'
  <2>1. ASSUME Holds(d)
        PROVE  LET h == cli[d].group
               IN  /\ rowLock'[h] = d
                   /\ data'[h].edits = data[h].edits
                   /\ data'[h].history = data[h].history
                   /\ data'[h].rows = data[h].rows
    <3>1. cli[d].group \in Group /\ rowLock[cli[d].group] = d
      BY <2>1 DEF IInv, TypeOK, Process, TransactionsHold, TransactionHolds, Holds
    <3> QED BY <1>2, <1>3, <3>1, RepairAssumption
  <2> QED BY <1>1, <2>1, BystanderHolds
<1> QED BY <1>1, <1>4, <1>6, <1>7 DEF IInv, TransactionsHold

LEMMA StepIInv ==
  ASSUME IInv, [Next]_vars
  PROVE  IInv'
<1>1. ASSUME NEW c \in Cli, applyPlan(c) \/ rollbackRun(c) PROVE IInv'
  BY <1>1, StartsIInv
<1>2. ASSUME NEW c \in Cli, finish(c) PROVE IInv'
  BY <1>2, ExitsIInv DEF finish, StatusAfter
<1>3. ASSUME NEW c \in Cli, crash(c) PROVE IInv'
  BY <1>3, ExitsIInv DEF crash, IInv, TypeOK
<1>4. ASSUME NEW c \in Cli, begin(c) PROVE IInv'
  BY <1>4, BeginIInv
<1>5. ASSUME NEW c \in Cli, lockGroup(c) PROVE IInv'
  BY <1>5, LockGroupIInv
<1>6. ASSUME NEW c \in Cli, lockTimeout(c) PROVE IInv'
  BY <1>6, ConflictIInv DEF lockTimeout
<1>7. ASSUME NEW c \in Cli, execute(c) PROVE IInv'
  BY <1>7, ExecuteIInv
<1>8. ASSUME NEW c \in Cli, commitApply(c) PROVE IInv'
  BY <1>8, CommitApplyIInv
<1>9. ASSUME NEW c \in Cli, commitRollback(c) PROVE IInv'
  BY <1>9, CommitRollbackIInv
<1>10. CASE loseLock \/ ingestStarts \/ ingestEnds
  <2>1. TypeOK' /\ UNCHANGED <<data, journal, cli, rowLock>>
    BY <1>10 DEF loseLock, ingestStarts, ingestEnds, IInv, TypeOK
  <2>2. TransactionsHold'
    BY <2>1, BystanderHolds DEF TransactionsHold, TransactionHolds, Holds, IInv
  <2> QED BY <2>1, <2>2, DataKept DEF IInv
<1>11. ASSUME NEW g \in Group, edit(g) PROVE IInv'
  <2> DEFINE x == [data[g] EXCEPT !.edits = @ + 1]
  <2>1. data[g] \in Data /\ "created" \in Side BY DEF IInv, TypeOK, Side
  <2>2. x \in Data BY <2>1, DataType
  <2>3. x.split = data[g].split /\ x.history = data[g].history BY <2>1 DEF Data
  <2>4. data' = [data EXCEPT ![g] = x] BY <1>11, <2>1 DEF edit, IInv, TypeOK
  <2> HIDE DEF x
  <2> QED BY <1>11, <2>2, <2>3, <2>4, PeopleIInv DEF edit
<1>12. ASSUME NEW g \in Group, NEW s \in Side, insert(g, s) PROVE IInv'
  <2> DEFINE x == [data[g] EXCEPT !.rows[s] = @ + 1]
  <2>1. data[g] \in Data BY DEF IInv, TypeOK
  <2>2. x \in Data BY <2>1, DataType
  <2>3. x.split = data[g].split /\ x.history = data[g].history BY <2>1 DEF Data
  <2>4. data' = [data EXCEPT ![g] = x] BY <1>12, <2>1 DEF insert, IInv, TypeOK
  <2> HIDE DEF x
  <2> QED BY <1>12, <2>2, <2>3, <2>4, PeopleIInv DEF insert
<1>13. ASSUME NEW g \in Group, report(g) PROVE IInv'
  <2> DEFINE x == [data[g] EXCEPT !.reports = @ + 1]
  <2>1. data[g] \in Data /\ "created" \in Side BY DEF IInv, TypeOK, Side
  <2>2. x \in Data BY <2>1, DataType
  <2>3. /\ x.split = data[g].split /\ x.history = data[g].history
        /\ x.edits = data[g].edits /\ x.rows = data[g].rows
    BY <2>1 DEF Data
  <2>4. data' = [data EXCEPT ![g] = x] BY <1>13, <2>1 DEF report, IInv, TypeOK
  <2> HIDE DEF x
  <2> QED BY <1>13, <2>2, <2>3, <2>4, PeopleIInv DEF report
<1>14. CASE UNCHANGED vars
  <2>1. TypeOK' /\ UNCHANGED <<data, journal, cli, rowLock>>
    BY <1>14 DEF vars, IInv, TypeOK
  <2>2. TransactionsHold'
    BY <2>1, BystanderHolds DEF TransactionsHold, TransactionHolds, Holds, IInv
  <2> QED BY <2>1, <2>2, DataKept DEF IInv
<1> QED
  BY <1>1, <1>2, <1>3, <1>4, <1>5, <1>6, <1>7, <1>8, <1>9, <1>10, <1>11, <1>12, <1>13,
     <1>14 DEF Next

THEOREM Inductive == Spec => []IInv
<1>1. Init => IInv BY InitIInv
<1>2. IInv /\ [Next]_vars => IInv' BY StepIInv
<1> QED BY <1>1, <1>2, PTL DEF Spec

\* Every step keeps the data, the journal, the processes and the locks well
\* formed, and no group is journaled twice.
THEOREM TypeCorrect == Spec => []TypeOK
<1>1. IInv => TypeOK BY DEF IInv
<1> QED BY <1>1, Inductive, PTL

\* The journal is the checkpoint: a group is split exactly if it has an entry
\* that says APPLIED, whatever crashed, resumed or lost the lock.
THEOREM JournalIsTheCheckpoint == Spec => []JournalTellsTheData
<1>1. IInv => JournalTellsTheData BY DEF IInv
<1> QED BY <1>1, Inductive, PTL

LEMMA OneEntryEach ==
  ASSUME TypeOK, journal' = journal, NEW g \in Journaled("APPLIED")
  PROVE  g \notin Journaled("ROLLED_BACK")'
  BY DEF TypeOK, Journaled

LEMMA OnlyRollbackReverses ==
  ASSUME IInv, [Next]_vars, NEW g \in Journaled("APPLIED"), g \in Journaled("ROLLED_BACK")'
  PROVE  LET then == journal[EntryOf(g)].after
         IN  /\ data[g].edits = then.edits
             /\ data[g].rows["created"] = then.rows["created"]
<1>1. PICK i \in DOMAIN journal : journal[i].group = g /\ journal[i].status = "APPLIED"
  BY DEF Journaled
<1>2. PICK j \in DOMAIN journal' : journal'[j].group = g /\ journal'[j].status = "ROLLED_BACK"
  BY DEF Journaled
<1>3. EntryOf(g) = i
  BY <1>1, EntryIsUnique DEF IInv
<1>4. ASSUME NEW c \in Cli, commitRollback(c)
      PROVE  LET then == journal[EntryOf(g)].after
             IN  /\ data[g].edits = then.edits
                 /\ data[g].rows["created"] = then.rows["created"]
  <2> DEFINE k == EntryOf(cli[c].group)
  <2>1. /\ k \in DOMAIN journal /\ journal[k].group = cli[c].group
        /\ data[cli[c].group].edits = journal[k].after.edits
        /\ data[cli[c].group].rows["created"] = journal[k].after.rows["created"]
        /\ DOMAIN journal' = DOMAIN journal
        /\ \A h \in DOMAIN journal : /\ journal'[h].group = journal[h].group
                                     /\ h # k => journal'[h].status = journal[h].status
    BY <1>4, ReversedEntry
  <2> HIDE DEF k
  <2>2. i = j
    BY <1>1, <1>2, <2>1 DEF IInv, TypeOK
  <2>3. i = k
    BY <1>1, <1>2, <2>1, <2>2
  <2> QED BY <1>1, <1>3, <2>1, <2>3
<1>5. ASSUME NEW c \in Cli, commitApply(c) PROVE FALSE
  <2>1. j \in DOMAIN journal /\ journal'[j] = journal[j]
    BY <1>2, <1>5, AppliedEntry
  <2> QED BY <1>1, <1>2, <2>1 DEF IInv, TypeOK
<1>6. ASSUME NEW c \in Cli, begin(c) \/ lockGroup(c) \/ lockTimeout(c) \/ execute(c) PROVE FALSE
  <2>1. journal' = journal
    BY <1>6 DEF begin, lockGroup, lockTimeout, execute, Conflict, LockLost, Exits
  <2> QED BY <2>1, OneEntryEach DEF IInv
<1>7. ASSUME NEW c \in Cli, applyPlan(c) \/ rollbackRun(c) \/ finish(c) \/ crash(c) PROVE FALSE
  <2>1. journal' = journal
    BY <1>7 DEF applyPlan, rollbackRun, finish, crash, Exits
  <2> QED BY <2>1, OneEntryEach DEF IInv
<1>8. ASSUME \/ loseLock \/ ingestStarts \/ ingestEnds
             \/ \E h \in Group : edit(h) \/ report(h) \/ \E s \in Side : insert(h, s)
             \/ UNCHANGED vars
      PROVE FALSE
  <2>1. journal' = journal
    BY <1>8 DEF loseLock, ingestStarts, ingestEnds, edit, report, insert, vars
  <2> QED BY <2>1, OneEntryEach DEF IInv
<1> QED BY <1>4, <1>5, <1>6, <1>7, <1>8 DEF Next

\* A rollback reverses a group only as its repair left it, however edits,
\* crashes and other processes come between.
THEOREM RollbackIsExact == Spec => RollbackOverwritesNothing
<1>1. IInv /\ [Next]_vars =>
        [\A g \in Journaled("APPLIED") : g \in Journaled("ROLLED_BACK")' =>
            LET then == journal[EntryOf(g)].after
            IN  /\ data[g].edits = then.edits
                /\ data[g].rows["created"] = then.rows["created"]]_vars
  BY OnlyRollbackReverses
<1> QED BY <1>1, Inductive, PTL DEF Spec, RollbackOverwritesNothing

(* After the lock is lost. *)

\* A process that has committed beside the ingest has no asserted transaction
\* left to commit.
SpentAfterOne ==
    \A c \in Cli : /\ late[c] <= 1
                   /\ holder = Ingest /\ cli[c].tx = "asserted" => late[c] = 0

LEMMA ExitsSpent ==
  ASSUME TypeOK, SpentAfterOne, NEW c \in Cli, Exits(c)
  PROVE  SpentAfterOne'
  BY OffType, RepairAssumption DEF TypeOK, SpentAfterOne, Exits

LEMMA ConflictSpent ==
  ASSUME TypeOK, SpentAfterOne, NEW c \in Cli, Conflict(c)
  PROVE  SpentAfterOne'
<1>1. GaveUp(cli[c]).tx = "none"
  BY ProcessType DEF TypeOK
<1> QED BY <1>1 DEF TypeOK, SpentAfterOne, Conflict

LEMMA CommittedSpent ==
  ASSUME TypeOK, SpentAfterOne, NEW c \in Cli, Committed(c), cli[c].tx = "asserted"
  PROVE  SpentAfterOne'
<1>1. Settled(cli[c]).tx = "none"
  BY ProcessType DEF TypeOK
<1>2. cli' = [cli EXCEPT ![c] = Settled(cli[c])] /\ holder' = holder
  BY DEF Committed
<1>3. CASE holder = Ingest
  <2>1. late[c] = 0 /\ late' = [late EXCEPT ![c] = late[c] + 1]
    BY <1>3 DEF Committed, SpentAfterOne
  <2> QED BY <1>1, <1>2, <2>1 DEF TypeOK, SpentAfterOne
<1>4. CASE holder # Ingest
  BY <1>2, <1>4 DEF Committed, TypeOK, SpentAfterOne
<1> QED BY <1>3, <1>4

LEMMA StepSpent ==
  ASSUME TypeOK, SpentAfterOne, [Next]_vars
  PROVE  SpentAfterOne'
<1>1. ASSUME NEW c \in Cli, applyPlan(c) \/ rollbackRun(c) PROVE SpentAfterOne'
  BY <1>1, RepairAssumption DEF applyPlan, rollbackRun, TypeOK, SpentAfterOne
<1>2. ASSUME NEW c \in Cli, finish(c) \/ crash(c) PROVE SpentAfterOne'
  BY <1>2, ExitsSpent DEF finish, crash
<1>3. ASSUME NEW c \in Cli, begin(c) PROVE SpentAfterOne'
  <2>1. CASE LockLost(c) BY <2>1, ExitsSpent DEF LockLost
  <2>2. CASE /\ holder = c
             /\ UNCHANGED <<holder, late>>
    BY <2>2, RepairAssumption DEF SpentAfterOne
  <2> QED BY <1>3, <2>1, <2>2 DEF begin, assertHeld
<1>4. ASSUME NEW c \in Cli, lockGroup(c) PROVE SpentAfterOne'
  <2>1. CASE Conflict(c) BY <2>1, ConflictSpent
  <2>2. CASE cli' = [cli EXCEPT ![c].tx = "locked"] /\ UNCHANGED <<holder, late>>
    BY <2>2 DEF TypeOK, SpentAfterOne
  <2> QED BY <1>4, <2>1, <2>2 DEF lockGroup
<1>5. ASSUME NEW c \in Cli, lockTimeout(c) PROVE SpentAfterOne'
  BY <1>5, ConflictSpent DEF lockTimeout
<1>6. ASSUME NEW c \in Cli, execute(c) PROVE SpentAfterOne'
  <2>1. CASE Conflict(c) BY <2>1, ConflictSpent
  <2>2. CASE LockLost(c) BY <2>2, ExitsSpent DEF LockLost
  <2>3. CASE holder = c /\ UNCHANGED <<holder, late>>
    BY <2>3, RepairAssumption DEF SpentAfterOne
  <2> QED BY <1>6, <2>1, <2>2, <2>3 DEF execute, assertHeld
<1>7. ASSUME NEW c \in Cli, commitApply(c) \/ commitRollback(c) PROVE SpentAfterOne'
  BY <1>7, CommittedSpent DEF commitApply, commitRollback
<1>8. CASE loseLock \/ ingestStarts \/ ingestEnds
  BY <1>8, RepairAssumption DEF loseLock, ingestStarts, ingestEnds, TypeOK, SpentAfterOne
<1>9. CASE \/ \E h \in Group : edit(h) \/ report(h) \/ \E s \in Side : insert(h, s)
           \/ UNCHANGED vars
  BY <1>9 DEF edit, report, insert, vars, SpentAfterOne
<1> QED BY <1>1, <1>2, <1>3, <1>4, <1>5, <1>6, <1>7, <1>8, <1>9 DEF Next

\* The second assertHeld, last thing before COMMIT, bounds what a process that
\* lost the lock can still write beside an ingest: one group.
THEOREM LostLockCommitsOnce == Spec => []LostLockStops
<1>1. Init => SpentAfterOne
  BY DEF Init, SpentAfterOne
<1>2. TypeOK /\ SpentAfterOne /\ [Next]_vars => SpentAfterOne'
  BY StepSpent
<1>3. SpentAfterOne => LostLockStops
  BY DEF SpentAfterOne, LostLockStops
<1> QED BY <1>1, <1>2, <1>3, TypeCorrect, PTL DEF Spec

----------------------------------------------------------------------------
(* The run of the jobs: a part behaves as its component, whose theorems    *)
(* are then of the run.                                                    *)

LEMMA IngestBehaves == MCSpec => (part = "ingest" => Companies!SerialSpec)
<1>1. MCInit /\ part = "ingest" => Companies!Init
  BY DEF MCInit
<1>2. part = "ingest" /\ [MCNext]_allVars =>
        (part = "ingest")' /\ [Companies!SerialNext]_(Companies!vars)
  BY DEF MCNext, allVars, ingestVars, Companies!vars, Companies!dbVars
<1> QED BY <1>1, <1>2, PTL DEF MCSpec, Companies!SerialSpec

LEMMA WebBehaves == MCSpec => (part = "web" => Web!Spec)
<1>1. MCInit /\ part = "web" => Web!Init
  BY DEF MCInit
<1>2. part = "web" /\ [MCNext]_allVars => (part = "web")' /\ [Web!Next]_(Web!vars)
  BY DEF MCNext, allVars, webVars, Web!vars, Web!companyVars
<1> QED BY <1>1, <1>2, PTL DEF MCSpec, Web!Spec

LEMMA NotIngest == ~ (part = "ingest") => (MCSpec => [](~ (part = "ingest")))
<1>1. ~ (part = "ingest") /\ [MCNext]_allVars => (~ (part = "ingest"))'
  BY DEF MCNext, allVars
<1> QED BY <1>1, PTL DEF MCSpec

LEMMA NotWeb == ~ (part = "web") => (MCSpec => [](~ (part = "web")))
<1>1. ~ (part = "web") /\ [MCNext]_allVars => (~ (part = "web"))'
  BY DEF MCNext, allVars
<1> QED BY <1>1, PTL DEF MCSpec

\* In the run, two of the partner's records share a company only on a legal
\* identifier (IngestCompaniesProofs: LegalEvidenceJoins).
THEOREM RunJoinsOnEvidence == MCSpec => []JoinedOnLegalEvidence
<1>1. Companies!SerialSpec => []Companies!JoinedOnLegalEvidence
  BY PartsAssumption, Companies!LegalEvidenceJoins
<1>2. JoinedOnLegalEvidence <=> (~ (part = "ingest") \/ Companies!JoinedOnLegalEvidence)
  BY DEF JoinedOnLegalEvidence
<1> QED BY <1>1, <1>2, NotIngest, IngestBehaves, PTL

\* In the run, no run of the ingest leaves one record's rows on two companies
\* (IngestCompaniesProofs: RecordsAreWrittenWhole).
THEOREM RunKeepsRecordsWhole == MCSpec => RecordsStayWhole
<1>1. Companies!SerialSpec => Companies!RecordsStayWhole
  BY PartsAssumption, Companies!RecordsAreWrittenWhole
<1>2. Companies!NeverSplits \/ UNCHANGED Companies!vars => (part = "ingest" => Companies!NeverSplits)
  BY DEF Companies!NeverSplits, Companies!Split, Companies!vars, Companies!dbVars
<1>3. [Companies!NeverSplits]_(Companies!vars) => [part = "ingest" => Companies!NeverSplits]_allVars
  BY <1>2
<1>4. ~ (part = "ingest") => [part = "ingest" => Companies!NeverSplits]_allVars
  OBVIOUS
<1> QED BY <1>1, <1>3, <1>4, NotIngest, IngestBehaves, PTL
        DEF RecordsStayWhole, Companies!RecordsStayWhole

\* In the run, what an operator suppressed stays hidden
\* (WebsiteEnrichmentProofs: SuppressionLasts).
THEOREM RunKeepsSuppressed == MCSpec => []SuppressedStaysHidden
<1>1. Web!Spec => []Web!SuppressedStaysHidden
  BY PartsAssumption, Web!SuppressionLasts
<1>2. SuppressedStaysHidden <=> (~ (part = "web") \/ Web!SuppressedStaysHidden)
  BY DEF SuppressedStaysHidden
<1> QED BY <1>1, <1>2, NotWeb, WebBehaves, PTL

\* In the run, a technology is retired on two comparable absences
\* (WebsiteEnrichmentProofs: RetiredTwiceMissed).
THEOREM RunRetiresOnTwo == MCSpec => []RetiredOnTwoAbsences
<1>1. Web!Spec => []Web!RetiredOnTwoAbsences
  BY PartsAssumption, Web!RetiredTwiceMissed
<1>2. RetiredOnTwoAbsences <=> (~ (part = "web") \/ Web!RetiredOnTwoAbsences)
  BY DEF RetiredOnTwoAbsences
<1> QED BY <1>1, <1>2, NotWeb, WebBehaves, PTL

\* In the run, what the ingest wrote hangs off a company people can see
\* (IngestCompaniesProofs: DealsStayVisible).
THEOREM RunKeepsDealsVisible == MCSpec => []DealsAreVisible
<1>1. Companies!SerialSpec => [](Companies!TypeOK /\ Companies!DealsAreVisible)
  BY PartsAssumption, Companies!DealsStayVisible
<1>2. DealsAreVisible <=> (~ (part = "ingest") \/ Companies!DealsAreVisible)
  BY DEF DealsAreVisible
<1> QED BY <1>1, <1>2, NotIngest, IngestBehaves, PTL

\* In the run, a record that was written is written to the same company again
\* (IngestCompaniesProofs: RerunsFindTheRecord).
THEOREM RunLandsAgain == MCSpec => []RerunsLandAgain
<1>1. Companies!SerialSpec => []Companies!RerunsLandAgain
  BY PartsAssumption, Companies!RerunsFindTheRecord
<1>2. RerunsLandAgain <=> (~ (part = "ingest") \/ Companies!RerunsLandAgain)
  BY DEF RerunsLandAgain
<1> QED BY <1>1, <1>2, NotIngest, IngestBehaves, PTL

LEMMA RepairBehaves == MCSpec => (part = "repair" => Spec)
<1>1. MCInit /\ part = "repair" => Init
  BY DEF MCInit
<1>2. part = "repair" /\ [MCNext]_allVars => (part = "repair")' /\ [Next]_vars
  BY DEF MCNext, allVars
<1> QED BY <1>1, <1>2, PTL DEF MCSpec, Spec

LEMMA NotRepair == ~ (part = "repair") => (MCSpec => [](~ (part = "repair")))
<1>1. ~ (part = "repair") /\ [MCNext]_allVars => (~ (part = "repair"))'
  BY DEF MCNext, allVars
<1> QED BY <1>1, PTL DEF MCSpec

\* In the run, every part keeps its types (TypeCorrect, IngestCompaniesProofs:
\* DealsStayVisible, WebsiteEnrichmentProofs: EnrichmentTypes).
THEOREM RunKeepsTypes == MCSpec => []TypesOK
<1>1. Companies!SerialSpec => [](Companies!TypeOK /\ Companies!DealsAreVisible)
  BY PartsAssumption, Companies!DealsStayVisible
<1>2. Web!Spec => []Web!TypeOK
  BY PartsAssumption, Web!EnrichmentTypes
<1>3. TypesOK <=> /\ ~ (part = "repair") \/ TypeOK
                  /\ ~ (part = "ingest") \/ Companies!TypeOK
                  /\ ~ (part = "web") \/ Web!TypeOK
  BY DEF TypesOK
<1>4. MCSpec => [](~ (part = "repair") \/ TypeOK)
  BY TypeCorrect, NotRepair, RepairBehaves, PTL
<1>5. MCSpec => [](~ (part = "ingest") \/ Companies!TypeOK)
  BY <1>1, NotIngest, IngestBehaves, PTL
<1>6. MCSpec => [](~ (part = "web") \/ Web!TypeOK)
  BY <1>2, NotWeb, WebBehaves, PTL
<1> QED BY <1>3, <1>4, <1>5, <1>6, PTL
=============================================================================
