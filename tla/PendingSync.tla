---------------------------- MODULE PendingSync -----------------------------
(***************************************************************************)
(* The job that turns pending lawsuits of the portfolio databases into     *)
(* rows of management_demands_online (demandsPendingSync.service.ts, tick  *)
(* and runSync). Ticks are started by a timer, by the start of the process *)
(* and by every start of the bot, and nothing keeps two from overlapping.  *)
(*                                                                         *)
(* A step is the code between two awaits.                                  *)
(***************************************************************************)
EXTENDS Integers, FiniteSets

CONSTANTS
    Assignments,   \* lawsuit_court_assignments, each with its lawsuit
    Bases,         \* portfolio databases, the keys of data_bases.bases
    BaseOf,        \* the base each assignment lives in
    InCity,        \* assignments whose city_id is in portfolio_city_config
    WithAmount,    \* those whose type_quantity has an amount_type
    DownBases,     \* bases whose queries always fail
    Ticks,         \* ticks that may be in progress at once
    Faults         \* subset of {"crash", "basefail", "delete"}

ASSUME SyncAssumption ==
    /\ BaseOf \in [Assignments -> Bases]
    /\ InCity \subseteq Assignments
    /\ WithAmount \subseteq Assignments
    /\ DownBases \subseteq Bases
    /\ IsFiniteSet(Ticks)
    /\ Faults \subseteq {"crash", "basefail", "delete"}

PC == {"idle", "conditions", "record", "configs", "fetch", "check", "amount", "create"}
InBase == {"check", "amount", "create"}

VARIABLES
    running,     \* BotControlService.running, and so currentDataBasesId # null
    open,        \* what checkRuntimeConditions would answer
    configured,  \* the portfolio is active and has cities configured
    pending,     \* lawsuits in status Pendiente and not deleted
    unstable,    \* the process may die and statements may fail
    rows,        \* rows of management_demands_online of each assignment
    pc,          \* control state of each tick
    bases,       \* bases the tick has still to visit
    todo,        \* rows of the base's query the tick has still to process
    cur          \* the row it works on: a singleton, or {}

env  == <<running, open, configured, pending, unstable>>
vars == <<running, open, configured, pending, unstable, rows, pc, bases, todo, cur>>

Goto(t, p) == pc' = [pc EXCEPT ![t] = p]

\* The tick ends.
Leave(t) ==
    /\ Goto(t, "idle")
    /\ bases' = [bases EXCEPT ![t] = {}]
    /\ todo' = [todo EXCEPT ![t] = {}]
    /\ cur' = [cur EXCEPT ![t] = {}]

Init ==
    /\ running \in BOOLEAN
    /\ open \in BOOLEAN
    /\ configured \in BOOLEAN
    /\ pending \in SUBSET Assignments
    /\ unstable = TRUE
    /\ rows = [a \in Assignments |-> 0]
    /\ pc = [t \in Ticks |-> "idle"]
    /\ bases = [t \in Ticks |-> {}]
    /\ todo = [t \in Ticks |-> {}]
    /\ cur = [t \in Ticks |-> {}]

----------------------------------------------------------------------------
\* tick finds the bot running and awaits the runtime conditions.
Fire(t) ==
    /\ pc[t] = "idle"
    /\ running
    /\ Goto(t, "conditions")
    /\ UNCHANGED <<env, rows, bases, todo, cur>>

\* Outside the conditions the tick ends; so does runSync when the bot was
\* stopped meanwhile and there is no current data_bases id.
Conditions(t) ==
    /\ pc[t] = "conditions"
    /\ Goto(t, IF open /\ running THEN "record" ELSE "idle")
    /\ UNCHANGED <<env, rows, bases, todo, cur>>

\* The data_bases record, with the state of its portfolio.
Record(t) ==
    /\ pc[t] = "record"
    /\ Goto(t, IF configured THEN "configs" ELSE "idle")
    /\ UNCHANGED <<env, rows, bases, todo, cur>>

\* The configured cities; then its bases are visited one after the other.
CityConfigs(t) ==
    /\ pc[t] = "configs"
    /\ IF configured
         THEN Goto(t, "fetch") /\ bases' = [bases EXCEPT ![t] = Bases]
         ELSE Goto(t, "idle") /\ UNCHANGED bases
    /\ UNCHANGED <<env, rows, todo, cur>>

\* The query of one base: pending lawsuits joined with their assignments in
\* the configured cities.
Fetch(t, b) ==
    /\ pc[t] = "fetch"
    /\ b \in bases[t] \ DownBases
    /\ bases' = [bases EXCEPT ![t] = @ \ {b}]
    /\ todo' = [todo EXCEPT ![t] = {a \in pending \cap InCity : BaseOf[a] = b}]
    /\ Goto(t, "check")
    /\ UNCHANGED <<env, rows, cur>>

\* Mutant: the query's error is caught around the loop over the bases.
FetchFailsAll(t, b) ==
    /\ pc[t] = "fetch"
    /\ b \in bases[t]
    /\ b \in DownBases \/ ("basefail" \in Faults /\ unstable)
    /\ Leave(t)
    /\ UNCHANGED <<env, rows>>

\* The query fails: the base is skipped, and the next one is visited.
FetchFails(t, b) ==
    /\ pc[t] = "fetch"
    /\ b \in bases[t]
    /\ b \in DownBases \/ ("basefail" \in Faults /\ unstable)
    /\ bases' = [bases EXCEPT ![t] = @ \ {b}]
    /\ UNCHANGED <<env, rows, pc, todo, cur>>

\* No base is left.
Done(t) ==
    /\ pc[t] = "fetch"
    /\ bases[t] = {}
    /\ Leave(t)
    /\ UNCHANGED <<env, rows>>

\* Mutant: the table is not searched for the assignment.
CheckNothing(t) ==
    /\ pc[t] = "check"
    /\ \E a \in todo[t] :
          /\ todo' = [todo EXCEPT ![t] = @ \ {a}]
          /\ cur' = [cur EXCEPT ![t] = {a}]
    /\ Goto(t, "amount")
    /\ UNCHANGED <<env, rows, bases>>

\* findByLawsuitCourtAssignmentsIdAndBase: an assignment with a row is skipped.
CheckExisting(t) ==
    /\ pc[t] = "check"
    /\ \E a \in todo[t] :
          /\ todo' = [todo EXCEPT ![t] = @ \ {a}]
          /\ IF rows[a] > 0
               THEN UNCHANGED <<pc, cur>>
               ELSE Goto(t, "amount") /\ cur' = [cur EXCEPT ![t] = {a}]
    /\ UNCHANGED <<env, rows, bases>>

\* The rows of this base are processed.
NextBase(t) ==
    /\ pc[t] = "check"
    /\ todo[t] = {}
    /\ Goto(t, "fetch")
    /\ UNCHANGED <<env, rows, bases, todo, cur>>

\* amount_type findByDuplicate: without a match the row is skipped.
LookUpAmount(t) ==
    /\ pc[t] = "amount"
    /\ IF cur[t] \subseteq WithAmount
         THEN Goto(t, "create") /\ UNCHANGED cur
         ELSE Goto(t, "check") /\ cur' = [cur EXCEPT ![t] = {}]
    /\ UNCHANGED <<env, rows, bases, todo>>

\* The row is inserted as Abierta; the table has no unique key on it.
Create(t) ==
    /\ pc[t] = "create"
    /\ rows' = [a \in Assignments |-> IF a \in cur[t] THEN rows[a] + 1 ELSE rows[a]]
    /\ cur' = [cur EXCEPT ![t] = {}]
    /\ Goto(t, "check")
    /\ UNCHANGED <<env, bases, todo>>

\* Any of these statements fails: the rest of the base is skipped.
BaseFails(t) ==
    /\ "basefail" \in Faults /\ unstable
    /\ pc[t] \in InBase
    /\ todo' = [todo EXCEPT ![t] = {}]
    /\ cur' = [cur EXCEPT ![t] = {}]
    /\ Goto(t, "fetch")
    /\ UNCHANGED <<env, rows, bases>>

\* The process dies and starts again: its ticks are gone.
Crash ==
    /\ "crash" \in Faults /\ unstable
    /\ pc' = [t \in Ticks |-> "idle"]
    /\ bases' = [t \in Ticks |-> {}]
    /\ todo' = [t \in Ticks |-> {}]
    /\ cur' = [t \in Ticks |-> {}]
    /\ UNCHANGED <<env, rows>>

\* DELETE management_demands_online/:id.
Delete(a) ==
    /\ "delete" \in Faults
    /\ rows[a] > 0
    /\ rows' = [rows EXCEPT ![a] = @ - 1]
    /\ UNCHANGED <<env, pc, bases, todo, cur>>

\* The bot is started and stopped, its hours and configuration change, and
\* lawsuits become pending and are filed; failures cease.
Environment ==
    /\ \/ running' = ~running /\ UNCHANGED <<open, configured, pending, unstable>>
       \/ open' = ~open /\ UNCHANGED <<running, configured, pending, unstable>>
       \/ configured' = ~configured /\ UNCHANGED <<running, open, pending, unstable>>
       \/ unstable /\ unstable' = FALSE /\ UNCHANGED <<running, open, configured, pending>>
       \/ \E a \in Assignments :
             /\ pending' = IF a \in pending THEN pending \ {a} ELSE pending \cup {a}
             /\ UNCHANGED <<running, open, configured, unstable>>
    /\ UNCHANGED <<rows, pc, bases, todo, cur>>

Visit(t) == \E b \in Bases : Fetch(t, b) \/ FetchFails(t, b)
Step(t)  == \/ Conditions(t) \/ Record(t) \/ CityConfigs(t) \/ Visit(t) \/ Done(t)
            \/ CheckExisting(t) \/ NextBase(t) \/ LookUpAmount(t) \/ Create(t)
            \/ BaseFails(t)

Next ==
    \/ \E t \in Ticks : Fire(t) \/ Step(t)
    \/ \E a \in Assignments : Delete(a)
    \/ Crash
    \/ Environment

Spec == Init /\ [][Next]_vars

\* The timer keeps firing (an id of Ticks is free again once its tick ended),
\* and every statement of a tick returns.
FairSpec == Spec /\ \A t \in Ticks : WF_vars(Fire(t)) /\ WF_vars(Step(t))

----------------------------------------------------------------------------
TypeOK ==
    /\ running \in BOOLEAN /\ open \in BOOLEAN /\ configured \in BOOLEAN
    /\ unstable \in BOOLEAN
    /\ pending \in SUBSET Assignments
    /\ rows \in [Assignments -> Nat]
    /\ pc \in [Ticks -> PC]
    /\ bases \in [Ticks -> SUBSET Bases]
    /\ todo \in [Ticks -> SUBSET Assignments]
    /\ cur \in [Ticks -> SUBSET Assignments]
    /\ \A t \in Ticks : pc[t] \in {"amount", "create"} <=> cur[t] # {}

\* The ticks that found no row of a and have not inserted one yet.
Creators(a) == {t \in Ticks : a \in cur[t]}

\* The README's condition 4: no second row of an assignment in its base. It
\* holds while ticks do not overlap.
NoDuplicates == \A a \in Assignments : rows[a] <= 1

\* Overlapping ticks make at most one row of an assignment each, however often
\* they run: later ticks find a row and skip the assignment.
DuplicatesBounded ==
    \A a \in Assignments : rows[a] + Cardinality(Creators(a)) <= Cardinality(Ticks)

\* The most steps a tick may still make: for each base left to visit as many as if
\* every assignment were pending in it, three for each row left to process, and
\* those it makes wherever it is.
PerBase == 3 * Cardinality(Assignments) + 2

OfItself(p) ==
    CASE p = "conditions" -> Cardinality(Bases) * PerBase + 4
      [] p = "record"     -> Cardinality(Bases) * PerBase + 3
      [] p = "configs"    -> Cardinality(Bases) * PerBase + 2
      [] p = "fetch"      -> 1
      [] p = "check"      -> 2
      [] p = "amount"     -> 4
      [] p = "create"     -> 3
      [] OTHER            -> 0

TickRank(t) ==
    Cardinality(bases[t]) * PerBase + 3 * Cardinality(todo[t]) + OfItself(pc[t])

\* A tick ends: each of its steps brings it nearer, and neither other ticks nor
\* the lawsuits that become pending meanwhile make it any longer.
TickEnds ==
    /\ [](\A t \in Ticks : TickRank(t) \in 0..(Cardinality(Bases) * PerBase + 4))
    /\ [][\A t \in Ticks : pc[t] # "idle" =>
             IF Step(t) THEN TickRank(t)' < TickRank(t) ELSE TickRank(t)' <= TickRank(t)]_vars

\* A tick that has read a pending lawsuit lets go of it only when the table shows a
\* row of it, it has no amount type, or the tick's base or its process fails.
NoneIsDropped ==
    [][\A t \in Ticks :
          ~BaseFails(t) /\ ~Crash =>
             \A a \in (todo[t] \cup cur[t]) \ (todo[t] \cup cur[t])' :
                rows[a] > 0 \/ rows'[a] > 0 \/ a \notin WithAmount]_vars

\* Once the bot stays started, in hours and configured, and failures cease, every
\* pending lawsuit that qualifies gets its row, although ticks overlap, rows are
\* deleted and other bases stay down.
PendingGetsRow ==
    <>[](running /\ open /\ configured /\ ~unstable) =>
       \A a \in InCity \cap WithAmount :
          BaseOf[a] \notin DownBases => (a \in pending ~> rows[a] > 0 \/ a \notin pending)
=============================================================================
