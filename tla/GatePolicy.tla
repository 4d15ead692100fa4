----------------------------- MODULE GatePolicy -----------------------------
(***************************************************************************)
(* The gate policy each API process serves from memory                     *)
(* (apps/api gate-policy.service.ts): loaded at boot, by every admin view  *)
(* and write, and in the background once it is older than its TTL; one     *)
(* load at a time, which reads the override tables one after another.      *)
(*                                                                         *)
(* A table's content is its version: how often it has been written.        *)
(***************************************************************************)
EXTENDS Integers, Sequences

CONSTANTS
    Process,     \* API processes, each with its GatePolicyService
    Request,     \* admin writes in progress at once
    Load,        \* loads in progress at once
    TableCount,  \* override tables, in the order load() reads them
    MaxWrites,   \* bound: writes of each table
    MaxFailures, \* bound: failed loads (the database comes back)
    MaxRestarts, \* bound: restarts of processes
    none

ASSUME GatePolicyAssumption ==
    /\ TableCount \in Nat \ {0}
    /\ MaxWrites \in Nat /\ MaxFailures \in Nat /\ MaxRestarts \in Nat

Table == 1 .. TableCount
Version == 0 .. MaxWrites
LoadRecord == [proc : Process, by : {"boot", "current", "admin"}, read : Seq(Version)]
RequestRecord == [proc : Process, table : Table, version : Version,
                  load : Load \cup {none}, joined : BOOLEAN]

ASSUME NoneAssumption == none \notin Load \cup LoadRecord \cup RequestRecord

VARIABLES
    db,          \* the override tables
    snapshot,    \* per process: the policy it serves
    fresh,       \* per process: loadedAt is within the TTL
    refreshing,  \* per process: the load in flight, as reload() sees it
    up,          \* per process: onModuleInit has returned
    load,        \* the loads
    req,         \* the writes in progress
    answered,    \* per process: the last version of each table it confirmed
    answeredOwn, \* the same, of writes that started the load they waited for
    failures, restarts

vars == <<db, snapshot, fresh, refreshing, up, load, req, answered, answeredOwn,
          failures, restarts>>

TypeOK ==
    /\ db \in [Table -> Version]
    /\ snapshot \in [Process -> [Table -> Version]]
    /\ fresh \in [Process -> BOOLEAN] /\ up \in [Process -> BOOLEAN]
    /\ refreshing \in [Process -> Load \cup {none}]
    /\ load \in [Load -> LoadRecord \cup {none}]
    /\ \A l \in Load : load[l] # none => Len(load[l].read) <= TableCount
    /\ \A p \in Process : refreshing[p] # none =>
         load[refreshing[p]] # none /\ load[refreshing[p]].proc = p
    /\ req \in [Request -> RequestRecord \cup {none}]
    /\ answered \in [Process -> [Table -> Version]]
    /\ answeredOwn \in [Process -> [Table -> Version]]
    /\ failures \in 0 .. MaxFailures /\ restarts \in 0 .. MaxRestarts

Defaults == [t \in Table |-> 0]

----------------------------------------------------------------------------
(* reload(): single-flight. *)

starts(p, l, by) ==
    /\ load[l] = none
    /\ load' = [load EXCEPT ![l] = [proc |-> p, by |-> by, read |-> <<>>]]
    /\ refreshing' = [refreshing EXCEPT ![p] = l]

\* Mutant: each caller loads for itself.
idleAlways(p) == TRUE

idle(p) == refreshing[p] = none

\* onModuleInit
boot(p, l) ==
    /\ ~ up[p] /\ idle(p)
    /\ starts(p, l, "boot")
    /\ UNCHANGED <<db, snapshot, fresh, up, req, answered, answeredOwn, failures, restarts>>

\* Mutant: the age is compared the wrong way round.
staleWithinTtl(p) == fresh[p]

\* Date.now() - loadedAt > GATE_POLICY_TTL_MS
stale(p) == ~ fresh[p]

\* current() once the TTL is over; until then it changes nothing.
current(p, l) ==
    /\ up[p] /\ stale(p) /\ idle(p)
    /\ starts(p, l, "current")
    /\ UNCHANGED <<db, snapshot, fresh, up, req, answered, answeredOwn, failures, restarts>>

\* GET /admin/visibility
view(p, l) ==
    /\ up[p] /\ idle(p)
    /\ starts(p, l, "admin")
    /\ UNCHANGED <<db, snapshot, fresh, up, req, answered, answeredOwn, failures, restarts>>

\* setSection, resetSection, setField, resetField, setWindow, resetWindow:
\* the row is written ...
write(r, p, t) ==
    /\ up[p] /\ req[r] = none
    /\ db[t] < MaxWrites
    /\ db' = [db EXCEPT ![t] = @ + 1]
    /\ req' = [req EXCEPT ![r] = [proc |-> p, table |-> t, version |-> db[t] + 1,
                                  load |-> none, joined |-> FALSE]]
    /\ UNCHANGED <<snapshot, fresh, refreshing, up, load, answered, answeredOwn,
                   failures, restarts>>

\* Mutant: a failed write's load keeps its place.
releasedOnSuccess(l) == IF Len(load[l].read) = TableCount THEN none ELSE l

\* reload().finally
released(l) == none

\* ... then adminView() starts a load or joins the one in flight.
adminView(r, l) ==
    LET p == req[r].proc
    IN  /\ req[r] # none /\ req[r].load = none
        /\ IF idle(p)
           THEN /\ starts(p, l, "admin")
                /\ req' = [req EXCEPT ![r].load = l]
           ELSE /\ l = refreshing[p]
                /\ req' = [req EXCEPT ![r].load = l, ![r].joined = TRUE]
                /\ UNCHANGED <<load, refreshing>>
        /\ UNCHANGED <<db, snapshot, fresh, up, answered, answeredOwn, failures, restarts>>

Waiting(l) == {r \in Request : req[r] # none /\ req[r].load = l}

\* load(): the tables, one after another.
readTable(l) ==
    /\ load[l] # none /\ Len(load[l].read) < TableCount
    /\ load' = [load EXCEPT ![l].read = Append(@, db[Len(@) + 1])]
    /\ UNCHANGED <<db, snapshot, fresh, refreshing, up, req, answered, answeredOwn,
                   failures, restarts>>

\* The versions answered once the writes of rs are confirmed.
Confirmed(was, p, rs) ==
    [was EXCEPT ![p] = [t \in Table |->
        LET vs == {req[r].version : r \in {q \in rs : req[q].table = t}} \cup {was[p][t]}
        IN  CHOOSE v \in vs : \A w \in vs : w <= v]]

\* The load is over; the writes of rs are confirmed, the others waiting on it
\* are answered with an error.
settles(l, rs) ==
    LET p == load[l].proc
    IN  /\ refreshing' = [refreshing EXCEPT ![p] = released(l)]
        /\ up' = [up EXCEPT ![p] = TRUE]
        /\ load' = [load EXCEPT ![l] = none]
        /\ req' = [r \in Request |-> IF r \in Waiting(l) THEN none ELSE req[r]]
        /\ answered' = Confirmed(answered, p, rs)
        /\ answeredOwn' = Confirmed(answeredOwn, p, {r \in rs : ~ req[r].joined})

\* Every table is read.
loaded(l) ==
    LET p == load[l].proc
    IN  /\ load[l] # none /\ Len(load[l].read) = TableCount
        /\ snapshot' = [snapshot EXCEPT ![p] = load[l].read]
        /\ fresh' = [fresh EXCEPT ![p] = TRUE]
        /\ settles(l, Waiting(l))
        /\ UNCHANGED <<db, failures, restarts>>

\* Mutant: a write whose reload failed is confirmed all the same.
confirmedAnyway(l) == Waiting(l)

\* A failed reload rejects adminView().
confirmedDespite(l) == {}

\* A query fails: the snapshot stays, and a load that current() started backs
\* off to the next TTL.
failed(l) ==
    LET p == load[l].proc
    IN  /\ load[l] # none
        /\ failures < MaxFailures
        /\ failures' = failures + 1
        /\ fresh' = [fresh EXCEPT ![p] = @ \/ load[l].by = "current"]
        /\ settles(l, confirmedDespite(l))
        /\ UNCHANGED <<db, snapshot, restarts>>

\* GATE_POLICY_TTL_MS passes.
expire(p) ==
    /\ fresh[p]
    /\ fresh' = [fresh EXCEPT ![p] = FALSE]
    /\ UNCHANGED <<db, snapshot, refreshing, up, load, req, answered, answeredOwn,
                   failures, restarts>>

\* The process stops and starts again: its memory and requests are gone.
restart(p) ==
    /\ up[p] /\ restarts < MaxRestarts
    /\ snapshot' = [snapshot EXCEPT ![p] = Defaults]
    /\ fresh' = [fresh EXCEPT ![p] = FALSE]
    /\ refreshing' = [refreshing EXCEPT ![p] = none]
    /\ up' = [up EXCEPT ![p] = FALSE]
    /\ load' = [l \in Load |-> IF load[l] # none /\ load[l].proc = p THEN none ELSE load[l]]
    /\ req' = [r \in Request |-> IF req[r] # none /\ req[r].proc = p THEN none ELSE req[r]]
    /\ answered' = [answered EXCEPT ![p] = Defaults]
    /\ answeredOwn' = [answeredOwn EXCEPT ![p] = Defaults]
    /\ restarts' = restarts + 1
    /\ UNCHANGED <<db, failures>>

Init ==
    /\ db = Defaults
    /\ snapshot = [p \in Process |-> Defaults]
    /\ fresh = [p \in Process |-> FALSE]
    /\ refreshing = [p \in Process |-> none]
    /\ up = [p \in Process |-> FALSE]
    /\ load = [l \in Load |-> none]
    /\ req = [r \in Request |-> none]
    /\ answered = [p \in Process |-> Defaults]
    /\ answeredOwn = [p \in Process |-> Defaults]
    /\ failures = 0 /\ restarts = 0

Next ==
    \/ \E p \in Process : expire(p) \/ restart(p)
    \/ \E p \in Process, l \in Load : boot(p, l) \/ current(p, l) \/ view(p, l)
    \/ \E r \in Request, p \in Process, t \in Table : write(r, p, t)
    \/ \E r \in Request, l \in Load : adminView(r, l)
    \/ \E l \in Load : readTable(l) \/ loaded(l) \/ failed(l)

Spec == Init /\ [][Next]_vars

\* Processes boot, visitors keep coming, the clock runs and queries return.
FairSpec ==
    /\ Spec
    /\ \A p \in Process :
         /\ WF_vars(\E l \in Load : boot(p, l))
         /\ WF_vars(\E l \in Load : current(p, l))
         /\ WF_vars(expire(p))
    /\ \A l \in Load : WF_vars(readTable(l) \/ loaded(l))

----------------------------------------------------------------------------
(* Properties. *)

\* While a process runs, the policy it serves never goes back to an older
\* one, however loads, writes and failures interleave ("Load the
\* overrides now (single-flight)").
NeverOlder ==
    [][\A p \in Process : (up[p] /\ up'[p]) =>
         \A t \in Table : snapshot'[p][t] >= snapshot[p][t]]_vars

\* A confirmed write that started the load it waited for is in the policy its
\* process serves ("reloaded on every write").
OwnReloadIsServed ==
    \A p \in Process, t \in Table : snapshot[p][t] >= answeredOwn[p][t]

\* Every write reaches every process, whichever took it and whatever failed:
\* there is a time at which all serve it ("the TTL only bounds staleness
\* across processes").
WritesSpread ==
    \A t \in Table, n \in 1 .. MaxWrites :
        (db[t] >= n) ~> (\A p \in Process : snapshot[p][t] >= n)

\* Any confirmed write is in the policy its process serves (the comment of
\* GATE_POLICY_TTL_MS: "Every write reloads at once").
ConfirmedIsServed ==
    \A p \in Process, t \in Table : snapshot[p][t] >= answered[p][t]
=============================================================================
