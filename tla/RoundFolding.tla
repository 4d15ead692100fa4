---------------------------- MODULE RoundFolding ----------------------------
(***************************************************************************)
(* The rounds of one company that a record of the partner is written to:   *)
(* IngestService.upsert from companyRounds to the bindings, run after run  *)
(* (apps/jobs ingest.service.ts, round-dedup.ts).  A deal that another     *)
(* source or a person already has on the company is folded into that       *)
(* round, a rung, instead of becoming a row of its own.                    *)
(*                                                                         *)
(* Runs of the sources exclude each other (the ingest lock); people        *)
(* contribute rounds, and moderators decide on them, meanwhile.            *)
(***************************************************************************)
EXTENDS Integers, FiniteSets

CONSTANTS
    DealCount,   \* the partner's deals, in the record's order
    RungCount,   \* rounds of other sources and of people
    Contributed, \* those of people
    Facts,       \* what may be said of a round: date, amount (0: undisclosed), grant
    Window,      \* DEDUP_WINDOW_DAYS
    MaxChanges   \* bound: publications, filings and decisions

Deal == 1 .. DealCount
Rung == 1 .. RungCount
RoundFacts == [date : Nat, amount : Nat, grant : BOOLEAN]

FoldingAssumption ==
    /\ DealCount \in Nat /\ RungCount \in Nat /\ Window \in Nat /\ MaxChanges \in Nat
    /\ Contributed \subseteq Rung
    /\ Facts # {} /\ Facts \subseteq RoundFacts

VARIABLES
    deal,    \* what the partner's publication says of each deal
    own,     \* the deals that are rows of the partner's
    rung,    \* the rows of others
    filed,   \* history: a rung as its own source or contributor wrote it last
    binding, \* IngestRoundBinding: the rung a deal was folded into, or OWN
    link,    \* how the record reaches the company at its next run
    run,     \* the partner's run
    changes

vars == <<deal, own, rung, filed, binding, link, run, changes>>

Unbound == -1
OwnRow == 0
NoName == 0 \* a rung's own name, not a deal's
NoFacts == CHOOSE f \in Facts : TRUE \* of what is not there
Column == {"name", "date", "amount"}
IdleRun == [pc |-> "idle", todo |-> {}, plan |-> {}, strong |-> FALSE]

TypeOK ==
    /\ deal \in [Deal -> [in : BOOLEAN, facts : Facts]]
    /\ own \in SUBSET Deal
    /\ rung \in [Rung -> [exists : BOOLEAN, approved : BOOLEAN, name : {NoName} \cup Deal,
                          facts : RoundFacts, marks : SUBSET Column]]
    /\ filed \in [Rung -> Facts]
    /\ binding \in [Deal -> {Unbound, OwnRow} \cup Rung]
    /\ link \in {"strong", "binding", "own", "held"}
    /\ run \in [pc : {"idle", "writing", "binding"}, todo : SUBSET Deal,
                plan : SUBSET (Deal \X Rung), strong : BOOLEAN]
    /\ changes \in 0 .. MaxChanges

----------------------------------------------------------------------------
(* Near duplicates (round-dedup.ts). *)

Apart(a, b) == IF a < b THEN b - a ELSE a - b

\* sameKindClass, DEDUP_WINDOW_DAYS, amountsCompatible (a quarter of the
\* larger; 0 is undisclosed).
CanPair(d, x) ==
    LET a == deal[d].facts.amount
        b == rung[x].facts.amount
    IN  /\ deal[d].facts.grant = rung[x].facts.grant
        /\ Apart(deal[d].facts.date, rung[x].facts.date) <= Window
        /\ \/ a = 0 \/ b = 0
           \/ 4 * Apart(a, b) <= IF a < b THEN b ELSE a

Days(p) == Apart(deal[p[1]].facts.date, rung[p[2]].facts.date)
Gap(p) == LET a == deal[p[1]].facts.amount
              b == rung[p[2]].facts.amount
          IN  IF a > 0 /\ b > 0 THEN Apart(a, b) ELSE 0

\* The order of pairs.sort.
Closer(p, q) ==
    \/ Days(p) < Days(q)
    \/ Days(p) = Days(q) /\ Gap(p) < Gap(q)
    \/ Days(p) = Days(q) /\ Gap(p) = Gap(q) /\ p[1] < q[1]
    \/ Days(p) = Days(q) /\ Gap(p) = Gap(q) /\ p[1] = q[1] /\ p[2] < q[2]
Closest(pairs) == CHOOSE p \in pairs : \A q \in pairs \ {p} : Closer(p, q)

\* Closest pair first, and each deal and rung once.
pairNearDuplicates(deals, rungs) ==
    LET pairs == {p \in deals \X rungs : CanPair(p[1], p[2])}
        taken[left \in SUBSET pairs] ==
            IF left = {} THEN {}
            ELSE LET p == Closest(left)
                 IN  {p} \cup taken[{q \in left : q[1] # p[1] /\ q[2] # p[2]}]
    IN  taken[pairs]

----------------------------------------------------------------------------
(* What a run sees when it comes to the record. *)

Reported == {d \in Deal : deal[d].in}

\* companyRounds: only a record on another source's company reads them.
Others == IF link \in {"strong", "binding"}
          THEN {x \in Rung : rung[x].exists /\ rung[x].approved} ELSE {}

\* Mutant: only bindings tell what was placed before.
unboundOnly == {d \in Reported : binding[d] = Unbound}

\* Neither bound nor already a row of the partner's.
fresh == {d \in Reported : binding[d] = Unbound /\ d \notin own}

\* Folded earlier, into a rung that is still there; or not there any more.
BoundDup == {p \in Reported \X Others : binding[p[1]] = p[2]}
SkipDeal == {d \in Reported : binding[d] \in Rung \ Others}

upsert ==
    /\ run.pc = "idle" /\ link # "held"
    /\ run' = [pc |-> "writing", todo |-> Reported \ SkipDeal, strong |-> link = "strong",
               plan |-> BoundDup \cup pairNearDuplicates(fresh, Others)]
    /\ UNCHANGED <<deal, own, rung, filed, binding, link, changes>>

\* matched is a statement or a strong inference, and the rung is a source's.
corrects(x) == run.strong /\ x \notin Contributed

\* correctRound: name and date, but of a grant, and an undisclosed amount;
\* the columns that moved become the partner's.
Corrected(row, d) ==
    LET grant == row.facts.grant
        facts == [row.facts EXCEPT !.date = IF grant THEN @ ELSE deal[d].facts.date,
                                   !.amount = IF @ = 0 THEN deal[d].facts.amount ELSE @]
    IN  [row EXCEPT !.name = IF grant THEN @ ELSE d,
                    !.facts = facts,
                    !.marks = @ \cup (IF grant THEN {} ELSE {"name"})
                                \cup {f \in {"date", "amount"} : facts[f] # row.facts[f]}]

foldDeal(d, x) ==
    /\ rung' = IF corrects(x) THEN [rung EXCEPT ![x] = Corrected(@, d)] ELSE rung
    /\ UNCHANGED own
writeOwn(d) ==
    /\ own' = own \cup {d}
    /\ UNCHANGED rung

\* The deals in the record's order, each in its own transaction.
writeDeal ==
    /\ run.pc = "writing"
    /\ \E d \in run.todo :
          /\ \A e \in run.todo : d <= e
          /\ run' = [run EXCEPT !.todo = @ \ {d}]
          /\ \/ \E x \in Rung : <<d, x>> \in run.plan /\ foldDeal(d, x)
             \/ (\A x \in Rung : <<d, x>> \notin run.plan) /\ writeOwn(d)
    /\ UNCHANGED <<deal, filed, binding, link, changes>>

\* writeRoundBindings: what was bound stays bound.
writeRoundBindings ==
    /\ run.pc = "writing" /\ run.todo = {}
    /\ binding' = [d \in Deal |->
                     IF d \notin Reported \/ binding[d] # Unbound THEN binding[d]
                     ELSE IF \E x \in Rung : <<d, x>> \in run.plan
                          THEN CHOOSE x \in Rung : <<d, x>> \in run.plan
                          ELSE OwnRow]
    /\ run' = [run EXCEPT !.pc = "binding"]
    /\ UNCHANGED <<deal, own, rung, filed, link, changes>>

\* writeBinding of the company: from then on the match is a repeated decision.
writeBinding ==
    /\ run.pc = "binding"
    /\ link' = IF run.strong THEN "binding" ELSE link
    /\ run' = IdleRun
    /\ UNCHANGED <<deal, own, rung, filed, binding, changes>>

\* The record fails or the process dies.  Its id is on the company by then,
\* unconfirmed: the next run holds the record (unbound-record-alias).
breakOff ==
    /\ run.pc # "idle"
    /\ link' = IF run.strong THEN "held" ELSE link
    /\ run' = IdleRun
    /\ UNCHANGED <<deal, own, rung, filed, binding, changes>>

\* The company repair certifies that the record is of the company: its
\* identifier, domain or filing says so.
certify ==
    /\ run.pc = "idle" /\ link = "held"
    /\ link' = "binding"
    /\ UNCHANGED <<deal, own, rung, filed, binding, run, changes>>

----------------------------------------------------------------------------
(* Between the partner's runs, and beside them. *)

Changing == changes < MaxChanges /\ changes' = changes + 1

report(d, facts) ==
    /\ Changing /\ run.pc = "idle"
    /\ deal' = [deal EXCEPT ![d] = [in |-> TRUE, facts |-> facts]]
    /\ UNCHANGED <<own, rung, filed, binding, link, run>>

\* Another source writes its own round: all facts but the name, and then
\* syncPartnerFields unmarks them, unless the process dies in between.
file(x, facts) ==
    /\ Changing /\ run.pc = "idle" /\ x \notin Contributed
    /\ \E unmarked \in {{}, {"date", "amount"}} :
          rung' = [rung EXCEPT ![x] = [@ EXCEPT !.exists = TRUE, !.approved = TRUE,
                                                !.facts = facts, !.marks = rung[x].marks \ unmarked]]
    /\ filed' = [filed EXCEPT ![x] = facts]
    /\ UNCHANGED <<deal, own, binding, link, run>>

\* A moderator approves or retracts a contributed round.
moderate(x) ==
    /\ Changing /\ x \in Contributed /\ rung[x].exists
    /\ rung' = [rung EXCEPT ![x].approved = ~ @]
    /\ UNCHANGED <<deal, own, filed, binding, link, run>>

Init ==
    /\ deal \in [Deal -> [in : BOOLEAN, facts : Facts]]
    /\ \A d \in Deal : ~ deal[d].in => deal[d].facts = NoFacts
    /\ own = {}
    /\ filed \in [Rung -> Facts]
    /\ \E there \in SUBSET Rung :
          /\ \A x \in Rung \ there : filed[x] = NoFacts
          /\ rung = [x \in Rung |-> [exists |-> x \in there, approved |-> x \in there \ Contributed,
                                  name |-> NoName, facts |-> filed[x], marks |-> {}]]
    /\ binding = [d \in Deal |-> Unbound]
    /\ link \in {"strong", "own"}
    /\ run = IdleRun /\ changes = 0

Next ==
    \/ upsert \/ writeDeal \/ writeRoundBindings \/ writeBinding \/ breakOff \/ certify
    \/ \E d \in Deal, f \in Facts : report(d, f)
    \/ \E x \in Rung : (\E f \in Facts : file(x, f)) \/ moderate(x)

Spec == Init /\ [][Next]_vars

----------------------------------------------------------------------------
(* Properties. *)

\* Every pairing is one to one, and what it leaves out is no closer than what
\* it takes on either side (pairNearDuplicates: "Greedy on closeness across
\* ALL pairs", "each existing round with at most one incoming one").
PairsAreNearest ==
    LET taken == pairNearDuplicates(fresh, Others)
    IN  /\ \A p, q \in taken : p[1] = q[1] \/ p[2] = q[2] => p = q
        /\ \A p \in fresh \X Others :
             CanPair(p[1], p[2]) =>
                \E q \in taken : (q[1] = p[1] \/ q[2] = p[2]) /\ ~ Closer(p, q)

\* What a rung says beyond what its own source wrote is marked as the
\* partner's, and a contribution says what its contributor wrote, whatever
\* runs, publications and failures come between (correctRound: "A human
\* contribution is never modified").
CorrectionsAreMarked ==
    \A x \in Rung :
        /\ \A f \in {"date", "amount"} :
             rung[x].facts[f] # filed[x][f] => f \in rung[x].marks
        /\ rung[x].name # NoName => "name" \in rung[x].marks
        /\ x \in Contributed => rung[x].marks = {}

\* A deal is one rung, not two: what became a row of the partner's is never
\* folded into another round as well, though a run may break off before it
\* records where its deals went.
DealsShowOnce == \A d \in Deal : binding[d] \in Rung => d \notin own

\* Where the partner's deals are shown, and what it says of others' rounds.
FoldingIsSound == PairsAreNearest /\ CorrectionsAreMarked /\ DealsShowOnce
=============================================================================
