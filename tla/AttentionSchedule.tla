-------------------------- MODULE AttentionSchedule --------------------------
(***************************************************************************)
(* The attention schedules (table attention_schedule, its service and its  *)
(* repository) and the decision read from them: may the bot of a portfolio *)
(* work now, and if not, why (BotControlService.checkRuntimeConditions and *)
(* getStandbyReason).                                                      *)
(*                                                                         *)
(* Times are minutes. The text of a time matters once: a request carries   *)
(* "08:00" and the TIME column gives back "08:00:00". HTTP calls           *)
(* interleave at every await; a step is the code between two of them.      *)
(***************************************************************************)
EXTENDS Integers, FiniteSets

CONSTANTS
    Portfolios,  \* ids of portfolio_type
    Days,        \* days of the week
    DaySets,     \* values of the SET column days, none of them empty
    LastMinute,  \* the last minute of the day
    Ids,         \* ids of attention_schedule: AUTO_INCREMENT, never used twice
    Callers,     \* HTTP calls of attentionSchedule in progress at once
    NoRow        \* an id without a row

Minutes == 0..LastMinute

Times == [start : Minutes, startRecess : Minutes, endRecess : Minutes, end : Minutes]

Schedules == [portfolio : Portfolios, days : DaySets,
              times : Times, active : BOOLEAN]

ASSUME ScheduleAssumption ==
    /\ LastMinute \in Nat
    /\ DaySets \subseteq (SUBSET Days) \ {{}}
    /\ Ids \subseteq Nat \ {0}
    /\ NoRow \notin Schedules

VARIABLES
    table,   \* attention_schedule
    lastId,  \* AUTO_INCREMENT
    at,      \* where each call is
    id,      \* the id in its URL
    req      \* the row its body describes

vars == <<table, lastId, at, id, req>>

Goto(c, p) == at' = [at EXCEPT ![c] = p]

\* The call is answered.
Return(c) ==
    /\ Goto(c, "idle")
    /\ id' = [id EXCEPT ![c] = 0]
    /\ req' = [req EXCEPT ![c] = NoRow]

Init ==
    /\ table = [i \in Ids |-> NoRow]
    /\ lastId = 0
    /\ at = [c \in Callers |-> "idle"]
    /\ id = [c \in Callers |-> 0]
    /\ req = [c \in Callers |-> NoRow]

----------------------------------------------------------------------------
Present == {i \in Ids : table[i] # NoRow}

Ordered(t) ==
    /\ t.start < t.startRecess
    /\ t.startRecess < t.endRecess
    /\ t.endRecess < t.end

\* The bodies whose times are not refused.
Bodies == {r \in Schedules : Ordered(r.times)}

\* A time as the request writes it and as the column gives it back.
RequestText(m) == <<m, "HH:mm">>
ColumnText(m)  == <<m, "HH:mm:ss">>

\* The service's search for a duplicate: equality of the four texts.
FoundDuplicate(r, i) ==
    \E j \in Present \ {i} :
       /\ table[j].portfolio = r.portfolio
       /\ \A f \in DOMAIN r.times :
             ColumnText(table[j].times[f]) = RequestText(r.times[f])

\* UQ_attention_schedule (portfolio_type_id, start_time, end_time).
KeyTaken(r, i) ==
    \E j \in Present \ {i} :
       /\ table[j].portfolio = r.portfolio
       /\ table[j].times.start = r.times.start
       /\ table[j].times.end = r.times.end

\* POST: a body with times out of order, or found to be a duplicate, is
\* refused and changes nothing.
CreateCheck(c) ==
    /\ at[c] = "idle"
    /\ \E r \in Bodies :
          /\ ~FoundDuplicate(r, 0)
          /\ req' = [req EXCEPT ![c] = r]
    /\ Goto(c, "insert")
    /\ UNCHANGED <<table, lastId, id>>

\* The INSERT; ER_DUP_ENTRY is answered 409. (A failed INSERT also uses up an
\* id, which nothing here tells apart.)
CreateInsert(c) ==
    /\ at[c] = "insert"
    /\ IF KeyTaken(req[c], 0)
         THEN UNCHANGED <<table, lastId>>
         ELSE /\ lastId + 1 \in Ids
              /\ lastId' = lastId + 1
              /\ table' = [table EXCEPT ![lastId + 1] = req[c]]
    /\ Return(c)

\* hasChanges, apart from the detail and the responsible of the row.
HasChanges(r, o) ==
    \/ r.portfolio # o.portfolio
    \/ r.days # o.days
    \/ r.times.start # o.times.start
    \/ r.times.end # o.times.end
    \/ r.active # o.active

\* PUT: the row must exist, the times be in order, and the body differ from the
\* row found, in its columns here or (reworded) in its detail or responsible.
\* The search for a duplicate, which awaits in between, finds none.
UpdateRead(c) ==
    /\ at[c] = "idle"
    /\ \E i \in Present, r \in Bodies, reworded \in BOOLEAN :
          /\ ~FoundDuplicate(r, i)
          /\ HasChanges(r, table[i]) \/ reworded
          /\ id' = [id EXCEPT ![c] = i]
          /\ req' = [req EXCEPT ![c] = r]
    /\ Goto(c, "save")
    /\ UNCHANGED <<table, lastId>>

\* repo.save of the whole row: an UPDATE, or an INSERT with this id when the
\* row has gone meanwhile. A duplicate key is answered 500.
UpdateSave(c) ==
    /\ at[c] = "save"
    /\ IF KeyTaken(req[c], id[c])
         THEN UNCHANGED table
         ELSE table' = [table EXCEPT ![id[c]] = req[c]]
    /\ Return(c)
    /\ UNCHANGED lastId

\* DELETE: the row must exist when it is looked for...
DeleteRead(c) ==
    /\ at[c] = "idle"
    /\ \E i \in Present : id' = [id EXCEPT ![c] = i]
    /\ Goto(c, "delete")
    /\ UNCHANGED <<table, lastId, req>>

\* ... and is deleted, or was already.
DeleteRow(c) ==
    /\ at[c] = "delete"
    /\ table' = [table EXCEPT ![id[c]] = NoRow]
    /\ Return(c)
    /\ UNCHANGED lastId

Next ==
    \E c \in Callers :
       \/ CreateCheck(c)
       \/ CreateInsert(c)
       \/ UpdateRead(c)
       \/ UpdateSave(c)
       \/ DeleteRead(c)
       \/ DeleteRow(c)

Spec == Init /\ [][Next]_vars

----------------------------------------------------------------------------
(* The decision (checkRuntimeConditions). *)

\* The schedules it looks at: those of the portfolio in state "active".
Active(p) == {i \in Present : table[i].portfolio = p /\ table[i].active}

\* Mutant: the recess ends after its last minute.
OpenLate(s, d, m) ==
    /\ d \in s.days
    /\ \/ s.times.start <= m /\ m < s.times.startRecess
       \/ s.times.endRecess < m /\ m <= s.times.end

\* inMorning || inAfternoon.
Open(s, d, m) ==
    /\ d \in s.days
    /\ \/ s.times.start <= m /\ m < s.times.startRecess
       \/ s.times.endRecess <= m /\ m <= s.times.end

\* Mutant: a schedule is looked up whatever its days.
StandbyAnyDay(p, d, m) ==
    IF Active(p) = {} THEN "days"
    ELSE IF \E i \in Active(p) :
               table[i].times.startRecess <= m /\ m < table[i].times.endRecess
           THEN "recess"
           ELSE "hours"

\* getStandbyReason.
Standby(p, d, m) ==
    IF ~\E i \in Active(p) : d \in table[i].days
      THEN "days"
      ELSE IF \E i \in Active(p) :
                 table[i].times.startRecess <= m /\ m < table[i].times.endRecess
             THEN "recess"
             ELSE "hours"

Configuration == {"absent", "inactive", "active"}
Holiday == {"none", "working", "closed", "unknown"}  \* "unknown": the query failed

\* Why the bot of portfolio p may not work on day d at minute m ("none" when it
\* may), its data_bases row and today's holiday being as given.
Refusal(db, holiday, p, d, m) ==
    IF db # "active" THEN "configuration"
    ELSE IF holiday = "closed" THEN "holiday"
    ELSE IF \E i \in Active(p) : Open(table[i], d, m) THEN "none"
    ELSE Standby(p, d, m)

----------------------------------------------------------------------------
(* Properties. *)

\* Types; a call that is going to save or delete knows the row it means, and
\* no row has an id not yet given out.
TypeOK ==
    /\ table \in [Ids -> Schedules \cup {NoRow}]
    /\ lastId \in Nat
    /\ at \in [Callers -> {"idle", "insert", "save", "delete"}]
    /\ id \in [Callers -> Ids \cup {0}]
    /\ req \in [Callers -> Schedules \cup {NoRow}]
    /\ \A c \in Callers :
          /\ at[c] \in {"insert", "save"} => req[c] # NoRow
          /\ at[c] \in {"save", "delete"} => id[c] \in Ids /\ id[c] <= lastId
    /\ \A i \in Ids : i > lastId => table[i] = NoRow

\* The hours a schedule promises: from its start to its end, both included,
\* except its recess.
InHours(s, d, m) ==
    /\ d \in s.days
    /\ m \in s.times.start..s.times.end
    /\ m \notin s.times.startRecess..(s.times.endRecess - 1)

\* At every minute of every day, the bot may work exactly when its
\* configuration is active, today is not known to be a holiday off, and some
\* active schedule of its portfolio promises attention. It relies on the order
\* of the times that create and update enforce: with a recess reaching outside
\* its hours, the morning and afternoon tests would not add up to the promise.
WorksExactlyInHours ==
    \A p \in Portfolios, d \in Days, m \in Minutes :
       LET promised == \E i \in Active(p) : InHours(table[i], d, m)
       IN  \A db \in Configuration, h \in Holiday :
              Refusal(db, h, p, d, m) = "none" <=> db = "active" /\ h # "closed" /\ promised

\* When the bot says it is out of days, no active schedule includes today; when
\* it says out of hours, some does, and for each of those it is before the
\* start or after the end.
StandbyReasonIsTrue ==
    \A p \in Portfolios, d \in Days, m \in Minutes :
       LET today == {i \in Active(p) : d \in table[i].days}
           why == Refusal("active", "none", p, d, m)
       IN  /\ why = "days" => today = {}
           /\ why = "hours" =>
                 /\ today # {}
                 /\ \A i \in today : m < table[i].times.start \/ m > table[i].times.end

\* No two schedules of a portfolio have the same start and end, whoever writes
\* them at the same time, although the service's own search finds none of the
\* duplicates.
OneSchedulePerHours ==
    \A i, j \in Present :
       i # j => \/ table[i].portfolio # table[j].portfolio
                \/ table[i].times.start # table[j].times.start
                \/ table[i].times.end # table[j].times.end
=============================================================================
