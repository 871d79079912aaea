----------------------- MODULE AttentionScheduleProofs -----------------------
(***************************************************************************)
(* What holds of the attention schedules for any number of portfolios,     *)
(* days, rows and HTTP calls, and any length of the day.                   *)
(***************************************************************************)
EXTENDS PortalHours, TLAPS

\* Every row has its times in order, and so does every row about to be written.
RowsOrdered ==
    /\ \A i \in Present : Ordered(table[i].times)
    /\ \A c \in Callers : at[c] \in {"insert", "save"} => Ordered(req[c].times)

IInv == TypeOK /\ RowsOrdered /\ OneSchedulePerHours

\* The invariant holds at the start: there is no row and no call.
LEMMA InvInit == Init => IInv
<1> USE ScheduleAssumption
<1>1. Init => TypeOK
  BY DEF Init, TypeOK
<1>2. Init => RowsOrdered /\ OneSchedulePerHours
  BY DEF Init, RowsOrdered, OneSchedulePerHours, Present
<1> QED BY <1>1, <1>2 DEF IInv

\* A row with the key of no other one is written at index i: keys stay unique.
LEMMA WriteKeepsKeys ==
    ASSUME IInv, NEW i \in Ids, NEW r \in Schedules,
           ~KeyTaken(r, i), table' = [table EXCEPT ![i] = r]
    PROVE  OneSchedulePerHours'
<1>1. table \in [Ids -> Schedules \cup {NoRow}]
  BY DEF IInv, TypeOK
<1>2. \A j \in Ids \ {i} : table'[j] = table[j]
  BY <1>1
<1>3. table'[i] = r
  BY <1>1
<1>4. \A j \in Present' \ {i} : j \in Present \ {i}
  BY <1>2 DEF Present
<1> SUFFICES ASSUME NEW j \in Present', NEW k \in Present', j # k
             PROVE  \/ table'[j].portfolio # table'[k].portfolio
                    \/ table'[j].times.start # table'[k].times.start
                    \/ table'[j].times.end # table'[k].times.end
  BY DEF OneSchedulePerHours
<1>5. CASE j = i
  BY <1>2, <1>3, <1>4, <1>5 DEF KeyTaken, Present
<1>6. CASE k = i
  BY <1>2, <1>3, <1>4, <1>6 DEF KeyTaken, Present
<1>7. CASE j # i /\ k # i
  BY <1>2, <1>4, <1>7 DEF IInv, OneSchedulePerHours, Present
<1> QED BY <1>5, <1>6, <1>7

\* Writing an ordered row, or deleting one, keeps every row in order.
LEMMA WriteKeepsOrder ==
    ASSUME IInv, NEW i \in Ids, NEW r \in Schedules \cup {NoRow},
           r # NoRow => Ordered(r.times), table' = [table EXCEPT ![i] = r]
    PROVE  \A j \in Present' : Ordered(table'[j].times)
<1>1. table \in [Ids -> Schedules \cup {NoRow}]
  BY DEF IInv, TypeOK
<1>2. \A j \in Ids : table'[j] = IF j = i THEN r ELSE table[j]
  BY <1>1
<1>3. \A j \in Present' : j # i => j \in Present
  BY <1>2 DEF Present
<1>4. \A j \in Present : Ordered(table[j].times)
  BY DEF IInv, RowsOrdered
<1> QED BY <1>2, <1>3, <1>4 DEF Present

\* Every step preserves the invariant.
LEMMA InvNext == IInv /\ [Next]_vars => IInv'
<1> SUFFICES ASSUME IInv, [Next]_vars PROVE IInv'
  OBVIOUS
<1> USE ScheduleAssumption
<1>0. TypeOK /\ RowsOrdered /\ OneSchedulePerHours
  BY DEF IInv
<1>1. CASE UNCHANGED vars
  BY <1>0, <1>1 DEF vars, IInv, TypeOK, RowsOrdered, OneSchedulePerHours, Present
<1>2. ASSUME NEW c \in Callers, CreateCheck(c) PROVE IInv'
  <2>1. TypeOK'
    BY <1>0, <1>2 DEF CreateCheck, Bodies, Goto, TypeOK
  <2>2. RowsOrdered'
    BY <1>0, <1>2 DEF CreateCheck, Bodies, Goto, TypeOK, RowsOrdered, Present
  <2>3. OneSchedulePerHours'
    BY <1>0, <1>2 DEF CreateCheck, Bodies, OneSchedulePerHours, Present
  <2> QED BY <2>1, <2>2, <2>3 DEF IInv
<1>3. ASSUME NEW c \in Callers, CreateInsert(c) PROVE IInv'
  <2>0. req[c] \in Schedules /\ Ordered(req[c].times)
    BY <1>0, <1>3 DEF CreateInsert, TypeOK, RowsOrdered
  <2>1. TypeOK'
    <3>1. CASE KeyTaken(req[c], 0)
      BY <1>0, <1>3, <3>1 DEF CreateInsert, Return, Goto, TypeOK
    <3>2. CASE ~KeyTaken(req[c], 0)
      <4>1. /\ lastId + 1 \in Ids
            /\ lastId' = lastId + 1
            /\ table' = [table EXCEPT ![lastId + 1] = req[c]]
            /\ Return(c)
        BY <1>3, <3>2 DEF CreateInsert
      <4>2. table' \in [Ids -> Schedules \cup {NoRow}]
        BY <1>0, <2>0, <4>1 DEF TypeOK
      <4>3. \A i \in Ids : i > lastId' => table'[i] = NoRow
        BY <1>0, <4>1 DEF TypeOK
      <4>4. at' \in [Callers -> {"idle", "insert", "save", "delete"}]
        BY <1>0, <4>1 DEF TypeOK, Return, Goto
      <4>5. id' \in [Callers -> Ids \cup {0}] /\ req' \in [Callers -> Schedules \cup {NoRow}]
        BY <1>0, <4>1 DEF TypeOK, Return
      <4>6. \A d \in Callers :
              /\ at'[d] \in {"insert", "save"} => req'[d] # NoRow
              /\ at'[d] \in {"save", "delete"} => id'[d] \in Ids /\ id'[d] <= lastId'
        <5>1. /\ at' = [at EXCEPT ![c] = "idle"]
              /\ id' = [id EXCEPT ![c] = 0]
              /\ req' = [req EXCEPT ![c] = NoRow]
          BY <4>1 DEF Return, Goto
        <5>2. \A d \in Callers \ {c} : at'[d] = at[d] /\ id'[d] = id[d] /\ req'[d] = req[d]
          BY <1>0, <5>1 DEF TypeOK
        <5>3. at'[c] = "idle"
          BY <1>0, <5>1 DEF TypeOK
        <5>4. \A k \in Ids : k <= lastId => k <= lastId'
          <6>1. lastId \in Nat /\ lastId' = lastId + 1
            BY <1>0, <4>1 DEF TypeOK
          <6>2. Ids \subseteq Nat
            OBVIOUS
          <6> QED BY <6>1, <6>2
        <5>5. ASSUME NEW d \in Callers, d # c
              PROVE  /\ at'[d] \in {"insert", "save"} => req'[d] # NoRow
                     /\ at'[d] \in {"save", "delete"} => id'[d] \in Ids /\ id'[d] <= lastId'
          <6>1. at'[d] = at[d] /\ id'[d] = id[d] /\ req'[d] = req[d]
            BY <5>2, <5>5
          <6>2. /\ at[d] \in {"insert", "save"} => req[d] # NoRow
                /\ at[d] \in {"save", "delete"} => id[d] \in Ids /\ id[d] <= lastId
            BY <1>0 DEF TypeOK
          <6> QED BY <5>4, <6>1, <6>2
        <5> QED BY <5>3, <5>5
      <4> QED BY <1>0, <4>1, <4>2, <4>3, <4>4, <4>5, <4>6 DEF TypeOK
    <3> QED BY <3>1, <3>2
  <2>2. RowsOrdered' /\ OneSchedulePerHours'
    <3>1. \A d \in Callers : at'[d] \in {"insert", "save"} => Ordered(req'[d].times)
      BY <1>0, <1>3 DEF CreateInsert, Return, Goto, TypeOK, RowsOrdered
    <3>2. CASE KeyTaken(req[c], 0)
      BY <1>0, <1>3, <3>1, <3>2 DEF CreateInsert, RowsOrdered, OneSchedulePerHours, Present
    <3>3. CASE ~KeyTaken(req[c], 0)
      <4>1. lastId + 1 \in Ids /\ table' = [table EXCEPT ![lastId + 1] = req[c]]
        BY <1>3, <3>3 DEF CreateInsert
      <4>2. 0 \notin Ids
        OBVIOUS
      <4>3. ~KeyTaken(req[c], lastId + 1)
        BY <3>3, <4>2 DEF KeyTaken, Present
      <4> QED BY <2>0, <3>1, <4>1, <4>3, WriteKeepsKeys, WriteKeepsOrder DEF RowsOrdered
    <3> QED BY <3>2, <3>3
  <2> QED BY <2>1, <2>2 DEF IInv
<1>4. ASSUME NEW c \in Callers, UpdateRead(c) PROVE IInv'
  <2>1. TypeOK'
    BY <1>0, <1>4 DEF UpdateRead, Bodies, Goto, TypeOK, Present
  <2>2. RowsOrdered'
    BY <1>0, <1>4 DEF UpdateRead, Bodies, Goto, TypeOK, RowsOrdered, Present
  <2>3. OneSchedulePerHours'
    BY <1>0, <1>4 DEF UpdateRead, Bodies, OneSchedulePerHours, Present
  <2> QED BY <2>1, <2>2, <2>3 DEF IInv
<1>5. ASSUME NEW c \in Callers, UpdateSave(c) PROVE IInv'
  <2>0. req[c] \in Schedules /\ Ordered(req[c].times) /\ id[c] \in Ids
    BY <1>0, <1>5 DEF UpdateSave, TypeOK, RowsOrdered
  <2>1. \A d \in Callers : at'[d] \in {"insert", "save"} => Ordered(req'[d].times)
    BY <1>0, <1>5 DEF UpdateSave, Return, Goto, TypeOK, RowsOrdered
  <2>2. CASE KeyTaken(req[c], id[c])
    <3>1. TypeOK'
      BY <1>0, <1>5, <2>2 DEF UpdateSave, Return, Goto, TypeOK
    <3> QED BY <1>0, <1>5, <2>1, <2>2, <3>1
         DEF UpdateSave, IInv, RowsOrdered, OneSchedulePerHours, Present
  <2>3. CASE ~KeyTaken(req[c], id[c])
    <3>1. table' = [table EXCEPT ![id[c]] = req[c]]
      BY <1>5, <2>3 DEF UpdateSave
    <3>2. id[c] <= lastId
      BY <1>0, <1>5 DEF UpdateSave, TypeOK
    <3>3. TypeOK'
      BY <1>0, <1>5, <2>0, <3>1, <3>2 DEF UpdateSave, Return, Goto, TypeOK
    <3> QED BY <2>0, <2>1, <2>3, <3>1, <3>3, WriteKeepsKeys, WriteKeepsOrder
         DEF IInv, RowsOrdered
  <2> QED BY <2>2, <2>3
<1>6. ASSUME NEW c \in Callers, DeleteRead(c) PROVE IInv'
  <2>1. TypeOK'
    BY <1>0, <1>6 DEF DeleteRead, Goto, TypeOK, Present
  <2>2. RowsOrdered'
    BY <1>0, <1>6 DEF DeleteRead, Goto, TypeOK, RowsOrdered, Present
  <2>3. OneSchedulePerHours'
    BY <1>0, <1>6 DEF DeleteRead, OneSchedulePerHours, Present
  <2> QED BY <2>1, <2>2, <2>3 DEF IInv
<1>7. ASSUME NEW c \in Callers, DeleteRow(c) PROVE IInv'
  <2>0. id[c] \in Ids /\ table' = [table EXCEPT ![id[c]] = NoRow]
    BY <1>0, <1>7 DEF DeleteRow, TypeOK
  <2>1. TypeOK'
    BY <1>0, <1>7, <2>0 DEF DeleteRow, Return, Goto, TypeOK
  <2>2. \A d \in Callers : at'[d] \in {"insert", "save"} => Ordered(req'[d].times)
    BY <1>0, <1>7 DEF DeleteRow, Return, Goto, TypeOK, RowsOrdered
  <2>3. RowsOrdered'
    BY <2>0, <2>2, WriteKeepsOrder DEF RowsOrdered
  <2>4. \A i \in Present' : i \in Present /\ table'[i] = table[i]
    BY <1>0, <2>0 DEF Present, TypeOK
  <2>5. OneSchedulePerHours'
    BY <1>0, <2>4 DEF OneSchedulePerHours
  <2> QED BY <2>1, <2>3, <2>5 DEF IInv
<1> QED BY <1>1, <1>2, <1>3, <1>4, <1>5, <1>6, <1>7 DEF Next

\* The types hold, and every stored schedule has its times in order.
THEOREM SchedulesInvariant == Spec => []IInv
<1>1. Init => IInv
  BY InvInit
<1>2. IInv /\ [Next]_vars => IInv'
  BY InvNext
<1> QED BY <1>1, <1>2, PTL DEF Spec

\* Concurrent callers leave every stored schedule well typed.
THEOREM SchedulesTypeCorrect == Spec => []TypeOK
<1> QED BY SchedulesInvariant, PTL DEF IInv

\* With the times in order, the morning and afternoon tests together are the
\* promise of the schedule.
LEMMA OpenIsInHours ==
    ASSUME NEW s \in Schedules, Ordered(s.times), NEW d \in Days, NEW m \in Minutes
    PROVE  Open(s, d, m) <=> InHours(s, d, m)
<1>1. /\ s.times.start \in Int
      /\ s.times.startRecess \in Int
      /\ s.times.endRecess \in Int
      /\ s.times.end \in Int
      /\ m \in Int
  BY ScheduleAssumption DEF Schedules, Times, Minutes
<1> QED BY <1>1 DEF Open, InHours, Ordered

\* At every minute of every day the bot works exactly in the promised hours.
THEOREM WorksInHours == Spec => []WorksExactlyInHours
<1>1. IInv => WorksExactlyInHours
  <2> SUFFICES ASSUME IInv, NEW p \in Portfolios, NEW d \in Days, NEW m \in Minutes,
                      NEW db \in Configuration, NEW h \in Holiday
               PROVE  Refusal(db, h, p, d, m) = "none" <=>
                         /\ db = "active"
                         /\ h # "closed"
                         /\ \E i \in Active(p) : InHours(table[i], d, m)
    BY DEF WorksExactlyInHours
  <2>1. \A i \in Active(p) : table[i] \in Schedules /\ Ordered(table[i].times)
    BY DEF IInv, TypeOK, RowsOrdered, Active, Present
  <2>2. \A i \in Active(p) : Open(table[i], d, m) <=> InHours(table[i], d, m)
    BY <2>1, OpenIsInHours
  <2>3. Standby(p, d, m) # "none"
    BY DEF Standby
  <2> QED BY <2>2, <2>3 DEF Refusal
<1> QED BY <1>1, SchedulesInvariant, PTL

\* The reasons "out of days" and "out of hours" are true when they are given.
THEOREM ReasonsHold == Spec => []StandbyReasonIsTrue
<1>1. IInv => StandbyReasonIsTrue
  <2> SUFFICES ASSUME IInv, NEW p \in Portfolios, NEW d \in Days, NEW m \in Minutes
               PROVE  /\ Refusal("active", "none", p, d, m) = "days" =>
                            {i \in Active(p) : d \in table[i].days} = {}
                      /\ Refusal("active", "none", p, d, m) = "hours" =>
                            /\ {i \in Active(p) : d \in table[i].days} # {}
                            /\ \A i \in {j \in Active(p) : d \in table[j].days} :
                                  m < table[i].times.start \/ m > table[i].times.end
    BY DEF StandbyReasonIsTrue
  <2>1. \A i \in Active(p) : /\ table[i].times.start \in Int
                             /\ table[i].times.startRecess \in Int
                             /\ table[i].times.endRecess \in Int
                             /\ table[i].times.end \in Int
    BY ScheduleAssumption DEF IInv, TypeOK, Active, Present, Schedules, Times, Minutes
  <2>2. m \in Int
    BY ScheduleAssumption DEF Minutes
  <2>3. ASSUME Refusal("active", "none", p, d, m) = "days"
        PROVE  {i \in Active(p) : d \in table[i].days} = {}
    BY <2>3 DEF Refusal, Standby
  <2>4. ASSUME Refusal("active", "none", p, d, m) = "hours"
        PROVE  /\ {i \in Active(p) : d \in table[i].days} # {}
               /\ \A i \in {j \in Active(p) : d \in table[j].days} :
                     m < table[i].times.start \/ m > table[i].times.end
    <3>1. /\ ~\E i \in Active(p) : Open(table[i], d, m)
          /\ Standby(p, d, m) = "hours"
      BY <2>4 DEF Refusal
    <3>2. /\ \E i \in Active(p) : d \in table[i].days
          /\ ~\E i \in Active(p) :
                table[i].times.startRecess <= m /\ m < table[i].times.endRecess
      BY <3>1 DEF Standby
    <3> QED BY <2>1, <2>2, <3>1, <3>2 DEF Open
  <2> QED BY <2>3, <2>4
<1> QED BY <1>1, SchedulesInvariant, PTL

\* The detail read back passes over a row exactly outside the hours the portal
\* promised, and over none that came without hours.
LEMMA SkipsOutsideHours ==
    ASSUME NEW times \in Messages, NEW m \in Minutes
    PROVE  ~Skipped(times, m) <=> (Len(times) >= 2 => m \in Attends(times))
<1>1. /\ times \in Seq(Minutes) /\ m \in Int /\ Len(times) \in Nat
      /\ \A x \in Minutes : x \in Int
  BY ScheduleAssumption, MessagesAssumption DEF Minutes
<1>2. \A k \in 1..Len(times) : times[k] \in Int
  <2>1. \A k \in 1..Len(times) : times[k] \in Minutes
    BY <1>1
  <2> QED BY <1>1, <2>1
<1>3. CASE Len(times) < 2
  <2>1. Horario(times) = {} BY <1>1, <1>3 DEF Horario
  <2> QED BY <1>1, <1>3, <2>1 DEF Skipped
<1>4. CASE Len(times) >= 2
  <2> DEFINE a == times[1]
             b == times[2]
  <2>1. a \in Int /\ b \in Int
    BY <1>1, <1>2, <1>4, 1 \in 1..Len(times), 2 \in 1..Len(times)
  <2>2. Horario(times) = {[from |-> a, to |-> b]}
    BY <1>4 DEF Horario
  <2>3. (\A h \in Horario(times) : ~(m < h.from \/ m > h.to)) <=> a <= m /\ m <= b
    BY <1>1, <2>1, <2>2
  <2>4. CASE Len(times) < 4
    <3>1. Receso(times) = {} BY <1>1, <2>4 DEF Receso
    <3>2. m \in Attends(times) <=> a <= m /\ m <= b
      BY <1>1, <2>1, <2>4 DEF Attends
    <3> QED BY <1>4, <2>2, <2>3, <3>1, <3>2 DEF Skipped, Allowed
  <2>5. CASE Len(times) >= 4
    <3> DEFINE c == times[3]
               e == times[4]
    <3>1. c \in Int /\ e \in Int
      BY <1>1, <1>2, <2>5, 3 \in 1..Len(times), 4 \in 1..Len(times)
    <3>2. Receso(times) = {[from |-> c, to |-> e]}
      BY <2>5 DEF Receso
    <3>3. (\A r \in Receso(times) : ~(m >= r.from /\ m < r.to)) <=> ~(c <= m /\ m < e)
      BY <1>1, <3>1, <3>2
    <3>4. m \in Attends(times) <=> a <= m /\ m <= b /\ ~(c <= m /\ m < e)
      BY <1>1, <2>1, <2>5, <3>1 DEF Attends
    <3> QED BY <1>4, <2>2, <2>3, <3>3, <3>4 DEF Skipped, Allowed
  <2> QED BY <1>1, <2>4, <2>5
<1> QED BY <1>1, <1>3, <1>4

\* A row restricted to hours gets its turn exactly when the hours of the bot and
\* those the portal promised have a minute in common.
THEOREM RowsGetTheirTurn == Spec => []RestrictedRowGetsItsTurn
<1>1. WorksExactlyInHours => RestrictedRowGetsItsTurn
  <2> SUFFICES ASSUME WorksExactlyInHours, NEW p \in Portfolios, NEW d \in Days,
                      NEW times \in Messages, Len(times) >= 2
               PROVE  (\E m \in Minutes : Takes(p, d, m, times)) <=>
                         \E m \in {n \in Minutes : \E i \in Active(p) : InHours(table[i], d, n)} :
                            m \in Attends(times)
    BY DEF RestrictedRowGetsItsTurn
  <2>1. \A m \in Minutes : Refusal("active", "none", p, d, m) = "none" <=>
                               \E i \in Active(p) : InHours(table[i], d, m)
    BY DEF WorksExactlyInHours, Configuration, Holiday
  <2> QED BY <2>1, SkipsOutsideHours DEF Takes
<1> QED BY <1>1, WorksInHours, PTL

\* No two schedules of a portfolio share their hours.
THEOREM HoursAreUnique == Spec => []OneSchedulePerHours
<1> QED BY SchedulesInvariant, PTL DEF IInv
=============================================================================
