------------------------- MODULE PendingSyncProofs --------------------------
(***************************************************************************)
(* For any number of overlapping ticks, each adds at most one row of an    *)
(* assignment; with one tick at a time there are no duplicates.            *)
(***************************************************************************)
EXTENDS PendingSync, FiniteSetTheorems, TLAPS

\* Every step keeps the types, and a tick has a current row exactly between
\* finding no row of it and inserting one.
THEOREM SyncTypeCorrect == Spec => []TypeOK
<1>1. Init => TypeOK
  BY DEF Init, TypeOK, PC
<1>2. TypeOK /\ [Next]_vars => TypeOK'
  <2> SUFFICES ASSUME TypeOK, [Next]_vars PROVE TypeOK'
    OBVIOUS
  <2>1. ASSUME NEW t \in Ticks, Fire(t) PROVE TypeOK'
    BY <2>1 DEF Fire, Goto, TypeOK, PC, env
  <2>2. ASSUME NEW t \in Ticks, Conditions(t) \/ Record(t) PROVE TypeOK'
    BY <2>2 DEF Conditions, Record, Goto, TypeOK, PC, env
  <2>3. ASSUME NEW t \in Ticks, CityConfigs(t) PROVE TypeOK'
    BY <2>3 DEF CityConfigs, Goto, TypeOK, PC, env
  <2>4. ASSUME NEW t \in Ticks, NEW b \in Bases, Fetch(t, b) \/ FetchFails(t, b) PROVE TypeOK'
    <3>1. CASE Fetch(t, b)
      BY <3>1 DEF Fetch, Goto, TypeOK, PC, env
    <3>2. CASE FetchFails(t, b)
      BY <3>2 DEF FetchFails, TypeOK, env
    <3> QED BY <2>4, <3>1, <3>2
  <2>5. ASSUME NEW t \in Ticks, Done(t) PROVE TypeOK'
    BY <2>5 DEF Done, Leave, Goto, TypeOK, PC, env
  <2>6. ASSUME NEW t \in Ticks, CheckExisting(t) PROVE TypeOK'
    <3>1. PICK a \in todo[t] :
             /\ todo' = [todo EXCEPT ![t] = @ \ {a}]
             /\ IF rows[a] > 0
                  THEN UNCHANGED <<pc, cur>>
                  ELSE Goto(t, "amount") /\ cur' = [cur EXCEPT ![t] = {a}]
      BY <2>6 DEF CheckExisting
    <3>2. a \in Assignments
      BY <3>1 DEF TypeOK
    <3>3. CASE rows[a] > 0
      BY <2>6, <3>1, <3>3 DEF CheckExisting, TypeOK, env
    <3>4. CASE ~(rows[a] > 0)
      BY <2>6, <3>1, <3>2, <3>4 DEF CheckExisting, Goto, TypeOK, PC, env
    <3> QED BY <3>3, <3>4
  <2>7. ASSUME NEW t \in Ticks, NextBase(t) PROVE TypeOK'
    BY <2>7 DEF NextBase, Goto, TypeOK, PC, env
  <2>8. ASSUME NEW t \in Ticks, LookUpAmount(t) PROVE TypeOK'
    BY <2>8 DEF LookUpAmount, Goto, TypeOK, PC, env
  <2>9. ASSUME NEW t \in Ticks, Create(t) PROVE TypeOK'
    BY <2>9 DEF Create, Goto, TypeOK, PC, env
  <2>10. ASSUME NEW t \in Ticks, BaseFails(t) PROVE TypeOK'
    BY <2>10 DEF BaseFails, Goto, TypeOK, PC, InBase, env
  <2>11. ASSUME NEW a \in Assignments, Delete(a) PROVE TypeOK'
    BY <2>11 DEF Delete, TypeOK, env
  <2>12. CASE Crash
    BY <2>12 DEF Crash, TypeOK, PC, env
  <2>13. CASE Environment
    BY <2>13 DEF Environment, TypeOK
  <2>14. CASE UNCHANGED vars
    BY <2>14 DEF vars, TypeOK
  <2> QED BY <2>1, <2>2, <2>3, <2>4, <2>5, <2>6, <2>7, <2>8, <2>9, <2>10, <2>11,
             <2>12, <2>13, <2>14 DEF Next, Step, Visit
<1> QED BY <1>1, <1>2, PTL DEF Spec

\* A step that gives no assignment a new creator or row keeps the bound.
LEMMA Shrinks ==
    ASSUME NEW a \in Assignments, TypeOK, TypeOK', rows'[a] <= rows[a],
           Creators(a)' \subseteq Creators(a),
           rows[a] + Cardinality(Creators(a)) <= Cardinality(Ticks)
    PROVE  rows'[a] + Cardinality(Creators(a)') <= Cardinality(Ticks)
<1>1. IsFiniteSet(Creators(a))
  BY SyncAssumption, FS_Subset DEF Creators
<1>2. IsFiniteSet(Creators(a)') /\ Cardinality(Creators(a)') <= Cardinality(Creators(a))
  BY <1>1, FS_Subset
<1>3. /\ Cardinality(Creators(a)) \in Nat /\ Cardinality(Creators(a)') \in Nat
      /\ Cardinality(Ticks) \in Nat
  BY <1>1, <1>2, SyncAssumption, FS_CardinalityType
<1>4. rows[a] \in Nat /\ rows'[a] \in Nat
  BY DEF TypeOK
<1> QED BY <1>2, <1>3, <1>4

\* The bound for one assignment is inductive. A tick becomes a creator only
\* when there is no row, and stops being one when it adds its own.
LEMMA BoundStep ==
    ASSUME NEW a \in Assignments, TypeOK, TypeOK', [Next]_vars,
           rows[a] + Cardinality(Creators(a)) <= Cardinality(Ticks)
    PROVE  rows'[a] + Cardinality(Creators(a)') <= Cardinality(Ticks)
<1>1. IsFiniteSet(Ticks) /\ Cardinality(Ticks) \in Nat
  BY SyncAssumption, FS_CardinalityType
<1>2. IsFiniteSet(Creators(a)) /\ Cardinality(Creators(a)) \in Nat
  BY <1>1, FS_Subset, FS_CardinalityType DEF Creators
<1>3. ASSUME NEW t \in Ticks, CheckExisting(t)
      PROVE  rows'[a] + Cardinality(Creators(a)') <= Cardinality(Ticks)
  <2>1. pc[t] = "check" /\ cur[t] = {} /\ rows' = rows
    BY <1>3 DEF CheckExisting, TypeOK
  <2>2. PICK e \in todo[t] :
           IF rows[e] > 0
             THEN UNCHANGED <<pc, cur>>
             ELSE Goto(t, "amount") /\ cur' = [cur EXCEPT ![t] = {e}]
    BY <1>3 DEF CheckExisting
  <2>3. CASE rows[e] > 0 \/ e # a
    <3>1. Creators(a)' \subseteq Creators(a)
      BY <2>1, <2>2, <2>3 DEF Creators, TypeOK
    <3> QED BY <2>1, <3>1, Shrinks DEF TypeOK
  <2>4. CASE ~(rows[e] > 0) /\ e = a
    <3>1. rows[a] = 0
      BY <2>4 DEF TypeOK
    <3>2. Creators(a)' \subseteq Ticks
      BY DEF Creators
    <3>3. Cardinality(Creators(a)') \in Nat /\ Cardinality(Creators(a)') <= Cardinality(Ticks)
      BY <1>1, <3>2, FS_Subset, FS_CardinalityType
    <3> QED BY <1>1, <2>1, <3>1, <3>3
  <2> QED BY <2>3, <2>4
<1>4. ASSUME NEW t \in Ticks, Create(t)
      PROVE  rows'[a] + Cardinality(Creators(a)') <= Cardinality(Ticks)
  <2>1. CASE a \notin cur[t]
    <3>1. rows'[a] = rows[a] /\ Creators(a)' \subseteq Creators(a)
      BY <1>4, <2>1 DEF Create, Creators, TypeOK
    <3> QED BY <3>1, Shrinks DEF TypeOK
  <2>2. CASE a \in cur[t]
    <3>1. rows'[a] = rows[a] + 1
      BY <1>4, <2>2 DEF Create
    <3>2. Creators(a)' = Creators(a) \ {t} /\ t \in Creators(a)
      BY <1>4, <2>2 DEF Create, Creators, TypeOK
    <3>3. Cardinality(Creators(a)') = Cardinality(Creators(a)) - 1
      BY <1>2, <3>2, FS_RemoveElement
    <3>4. rows[a] \in Nat
      BY DEF TypeOK
    <3> QED BY <1>1, <1>2, <3>1, <3>3, <3>4
  <2> QED BY <2>1, <2>2
<1>5. ASSUME rows'[a] <= rows[a], Creators(a)' \subseteq Creators(a)
      PROVE  rows'[a] + Cardinality(Creators(a)') <= Cardinality(Ticks)
  BY <1>5, Shrinks
<1>6. rows[a] <= rows[a] /\ rows[a] - 1 <= rows[a]
  BY DEF TypeOK
<1>7. ASSUME NEW t \in Ticks,
             \/ Fire(t) \/ Conditions(t) \/ Record(t) \/ CityConfigs(t) \/ Visit(t) \/ Done(t)
             \/ NextBase(t) \/ LookUpAmount(t) \/ BaseFails(t)
      PROVE  rows' = rows /\ Creators(a)' \subseteq Creators(a)
  BY <1>7 DEF Fire, Conditions, Record, CityConfigs, Visit, Fetch, FetchFails, Done, Leave,
              NextBase, LookUpAmount, BaseFails, Creators, TypeOK, env
<1>8. ASSUME NEW e \in Assignments, Delete(e)
      PROVE  rows'[a] <= rows[a] /\ Creators(a)' \subseteq Creators(a)
  BY <1>6, <1>8 DEF Delete, Creators, TypeOK
<1>9. CASE Crash \/ Environment \/ UNCHANGED vars
  BY <1>5, <1>6, <1>9 DEF Crash, Environment, vars, Creators, env
<1> QED
  <2>1. ASSUME NEW t \in Ticks, Fire(t) \/ Step(t)
        PROVE  rows'[a] + Cardinality(Creators(a)') <= Cardinality(Ticks)
    BY <1>3, <1>4, <1>5, <1>6, <1>7, <2>1 DEF Step
  <2>2. ASSUME NEW e \in Assignments, Delete(e)
        PROVE  rows'[a] + Cardinality(Creators(a)') <= Cardinality(Ticks)
    BY <1>5, <1>8, <2>2
  <2> QED BY <1>9, <2>1, <2>2 DEF Next

\* However many ticks overlap, an assignment gets at most one row for each.
THEOREM OneRowPerTick == Spec => []DuplicatesBounded
<1>1. Init => DuplicatesBounded
  <2> SUFFICES ASSUME Init, NEW a \in Assignments
               PROVE  rows[a] + Cardinality(Creators(a)) <= Cardinality(Ticks)
    BY DEF DuplicatesBounded
  <2>1. Creators(a) = {} /\ rows[a] = 0
    BY DEF Init, Creators
  <2>2. Cardinality(Ticks) \in Nat /\ Cardinality({}) = 0
    BY SyncAssumption, FS_CardinalityType, FS_EmptySet
  <2> QED BY <2>1, <2>2
<1>2. TypeOK /\ TypeOK' /\ DuplicatesBounded /\ [Next]_vars => DuplicatesBounded'
  BY BoundStep DEF DuplicatesBounded
<1> QED BY <1>1, <1>2, SyncTypeCorrect, PTL DEF Spec

\* When ticks come one at a time they insert no assignment twice: of the rows the
\* sync itself inserts, overlap alone makes duplicates. (Rows that an operator posts,
\* or that a session inserts again, are none of its own and not of this module.)
THEOREM NoOverlapNoDuplicates ==
    ASSUME Cardinality(Ticks) = 1 PROVE Spec => []NoDuplicates
<1>1. TypeOK /\ DuplicatesBounded => NoDuplicates
  <2> SUFFICES ASSUME TypeOK, DuplicatesBounded, NEW a \in Assignments PROVE rows[a] <= 1
    BY DEF NoDuplicates
  <2>1. Cardinality(Creators(a)) \in Nat
    BY SyncAssumption, FS_Subset, FS_CardinalityType DEF Creators
  <2>2. rows[a] \in Nat
    BY DEF TypeOK
  <2> QED BY <2>1, <2>2 DEF DuplicatesBounded
<1> QED BY <1>1, SyncTypeCorrect, OneRowPerTick, PTL

----------------------------------------------------------------------------
\* Before a tick visits a base, and between two bases, it has no rows to process;
\* within a base that base is behind it. It works on one row at a time.
TickInv ==
    \A t \in Ticks :
       /\ pc[t] \in {"idle", "conditions", "record", "configs"} => bases[t] = {}
       /\ pc[t] \notin InBase => todo[t] = {}
       /\ pc[t] \in InBase => bases[t] # Bases
       /\ \A a, e \in cur[t] : a = e

\* A step of a tick leaves the other ticks alone.
LEMMA OthersStay ==
    ASSUME TypeOK, NEW t \in Ticks, NEW u \in Ticks, u # t, Fire(u) \/ Step(u)
    PROVE  pc'[t] = pc[t] /\ bases'[t] = bases[t] /\ todo'[t] = todo[t] /\ cur'[t] = cur[t]
<1> USE DEF TypeOK, Goto, Leave, env
<1>1. CASE Fire(u) BY <1>1 DEF Fire
<1>2. CASE Conditions(u) \/ Record(u) BY <1>2 DEF Conditions, Record
<1>3. CASE CityConfigs(u) BY <1>3 DEF CityConfigs
<1>4. CASE Visit(u) BY <1>4 DEF Visit, Fetch, FetchFails
<1>5. CASE Done(u) BY <1>5 DEF Done
<1>6. CASE CheckExisting(u) BY <1>6 DEF CheckExisting
<1>7. CASE NextBase(u) \/ LookUpAmount(u) BY <1>7 DEF NextBase, LookUpAmount
<1>8. CASE Create(u) \/ BaseFails(u) BY <1>8 DEF Create, BaseFails
<1> QED BY <1>1, <1>2, <1>3, <1>4, <1>5, <1>6, <1>7, <1>8 DEF Step

\* A step of the tick itself keeps what it has where it is.
LEMMA TickInvOwn ==
    ASSUME TypeOK, TickInv, NEW t \in Ticks, Fire(t) \/ Step(t)
    PROVE  /\ pc'[t] \in {"idle", "conditions", "record", "configs"} => bases'[t] = {}
           /\ pc'[t] \notin InBase => todo'[t] = {}
           /\ pc'[t] \in InBase => bases'[t] # Bases
           /\ \A a, e \in cur'[t] : a = e
<1> USE DEF TypeOK, TickInv, Goto, Leave, env, InBase
<1>1. CASE Fire(t) BY <1>1 DEF Fire
<1>2. CASE Conditions(t) \/ Record(t) BY <1>2 DEF Conditions, Record
<1>3. CASE CityConfigs(t) BY <1>3 DEF CityConfigs
<1>4. CASE Visit(t) BY <1>4 DEF Visit, Fetch, FetchFails
<1>5. CASE Done(t) BY <1>5 DEF Done
<1>6. CASE CheckExisting(t) BY <1>6 DEF CheckExisting
<1>7. CASE NextBase(t) \/ LookUpAmount(t) BY <1>7 DEF NextBase, LookUpAmount
<1>8. CASE Create(t) \/ BaseFails(t) BY <1>8 DEF Create, BaseFails
<1> QED BY <1>1, <1>2, <1>3, <1>4, <1>5, <1>6, <1>7, <1>8 DEF Step

LEMMA TickInvariant == Spec => []TickInv
<1>1. Init => TickInv
  BY DEF Init, TickInv, InBase
<1>2. TypeOK /\ TickInv /\ [Next]_vars => TickInv'
  <2> SUFFICES ASSUME TypeOK, TickInv, [Next]_vars PROVE TickInv'
    OBVIOUS
  <2>1. ASSUME NEW u \in Ticks, Fire(u) \/ Step(u) PROVE TickInv'
    BY <2>1, OthersStay, TickInvOwn DEF TickInv
  <2>2. CASE Crash BY <2>2 DEF Crash, TickInv, InBase
  <2>3. CASE Environment \/ (\E a \in Assignments : Delete(a)) \/ UNCHANGED vars
    BY <2>3 DEF Environment, Delete, vars, env, TickInv
  <2> QED BY <2>1, <2>2, <2>3 DEF Next
<1> QED BY <1>1, <1>2, SyncTypeCorrect, PTL DEF Spec

\* A tick never has more bases or rows before it than there are.
LEMMA Sizes ==
    ASSUME IsFiniteSet(Bases), IsFiniteSet(Assignments), TypeOK, NEW t \in Ticks
    PROVE  /\ Cardinality(Bases) \in Nat /\ Cardinality(Assignments) \in Nat
           /\ Cardinality(bases[t]) \in 0..Cardinality(Bases) /\ IsFiniteSet(bases[t])
           /\ Cardinality(todo[t]) \in 0..Cardinality(Assignments) /\ IsFiniteSet(todo[t])
<1>1. bases[t] \subseteq Bases /\ todo[t] \subseteq Assignments
  BY DEF TypeOK
<1>2. /\ IsFiniteSet(bases[t]) /\ Cardinality(bases[t]) <= Cardinality(Bases)
      /\ IsFiniteSet(todo[t]) /\ Cardinality(todo[t]) <= Cardinality(Assignments)
  BY <1>1, FS_Subset
<1>3. /\ Cardinality(Bases) \in Nat /\ Cardinality(Assignments) \in Nat
      /\ Cardinality(bases[t]) \in Nat /\ Cardinality(todo[t]) \in Nat
  BY <1>2, FS_CardinalityType
<1> QED BY <1>2, <1>3

\* One base fewer to visit saves all its steps.
LEMMA Fewer ==
    ASSUME NEW n \in Nat, NEW b \in 0..n, NEW k \in Nat
    PROVE  /\ b * k \in Nat /\ b * k <= n * k
           /\ b > 0 => (b - 1) * k = b * k - k
<1>1. b * k \in Nat /\ n * k \in Nat /\ (n - b) * k \in Nat
  BY SMT
<1>2. n * k = b * k + (n - b) * k
  BY SMT
<1> QED BY <1>1, <1>2, SMT

\* How many steps a tick makes of itself, wherever it is.
LEMMA OwnSteps ==
    /\ OfItself("idle") = 0
    /\ OfItself("conditions") = Cardinality(Bases) * PerBase + 4
    /\ OfItself("record") = Cardinality(Bases) * PerBase + 3
    /\ OfItself("configs") = Cardinality(Bases) * PerBase + 2
    /\ OfItself("fetch") = 1 /\ OfItself("check") = 2
    /\ OfItself("amount") = 4 /\ OfItself("create") = 3
<1> DEFINE total == Cardinality(Bases) * PerBase
<1> HIDE DEF total
<1>1. /\ OfItself("idle") = 0           /\ OfItself("conditions") = total + 4
      /\ OfItself("record") = total + 3 /\ OfItself("configs") = total + 2
      /\ OfItself("fetch") = 1          /\ OfItself("check") = 2
      /\ OfItself("amount") = 4         /\ OfItself("create") = 3
  BY DEF OfItself, total
<1> QED BY <1>1 DEF total

\* They are few within a base, and none once the tick is idle.
LEMMA OfItselfIs ==
    ASSUME NEW p \in PC, Cardinality(Bases) * PerBase \in Nat
    PROVE  /\ OfItself(p) \in Nat
           /\ OfItself(p) = 0 <=> p = "idle"
           /\ p \in InBase \cup {"fetch"} => OfItself(p) \in 1..4
           /\ p \in {"idle", "conditions", "record", "configs"} =>
                 OfItself(p) <= Cardinality(Bases) * PerBase + 4
<1> DEFINE total == Cardinality(Bases) * PerBase
<1> HIDE DEF total
<1>1. /\ OfItself("idle") = 0           /\ OfItself("conditions") = total + 4
      /\ OfItself("record") = total + 3 /\ OfItself("configs") = total + 2
      /\ OfItself("fetch") = 1          /\ OfItself("check") = 2
      /\ OfItself("amount") = 4         /\ OfItself("create") = 3
  BY OwnSteps DEF total
<1>2. total \in Nat
  BY DEF total
<1>3. /\ OfItself(p) \in Nat
      /\ OfItself(p) = 0 <=> p = "idle"
      /\ p \in InBase \cup {"fetch"} => OfItself(p) \in 1..4
      /\ p \in {"idle", "conditions", "record", "configs"} => OfItself(p) <= total + 4
  BY <1>1, <1>2 DEF PC, InBase
<1> QED BY <1>3 DEF total

\* The rank of a tick, part by part.
LEMMA RankIs ==
    ASSUME IsFiniteSet(Bases), IsFiniteSet(Assignments), TypeOK, TickInv, NEW t \in Ticks
    PROVE  /\ PerBase = 3 * Cardinality(Assignments) + 2 /\ PerBase \in Nat
           /\ Cardinality(Bases) * PerBase \in Nat
           /\ Cardinality(bases[t]) * PerBase \in Nat
           /\ TickRank(t) \in 0..(Cardinality(Bases) * PerBase + 4)
           /\ TickRank(t) = 0 <=> pc[t] = "idle"
<1> DEFINE n == Cardinality(Assignments)
           m == Cardinality(Bases)
           b == Cardinality(bases[t])
           r == Cardinality(todo[t])
           total == m * PerBase
           ahead == b * PerBase
           own == OfItself(pc[t])
<1>1. n \in Nat /\ m \in Nat /\ b \in 0..m /\ r \in 0..n
  BY Sizes
<1>2. PerBase = 3 * n + 2 /\ PerBase \in Nat
  BY <1>1 DEF PerBase
<1>3. total \in Nat /\ ahead \in Nat /\ ahead <= total
  BY <1>1, <1>2, Fewer
<1>4. pc[t] \in InBase => b < m
  <2> SUFFICES ASSUME bases[t] # Bases PROVE b # m
    BY <1>1 DEF TickInv
  <2>1. bases[t] \in SUBSET Bases
    BY DEF TypeOK
  <2> QED BY <2>1, FS_Subset
<1>5. pc[t] \in InBase => ahead + PerBase <= total
  <2> SUFFICES ASSUME b < m PROVE ahead + PerBase <= total
    BY <1>4
  <2>1. b + 1 \in 0..m /\ b + 1 > 0 /\ (b + 1) - 1 = b
    BY <1>1
  <2>2. (b + 1) * PerBase <= total /\ ((b + 1) - 1) * PerBase = (b + 1) * PerBase - PerBase
        /\ (b + 1) * PerBase \in Nat
    BY <1>1, <1>2, <2>1, Fewer
  <2> QED BY <1>2, <1>3, <2>1, <2>2
<1>6. /\ pc[t] \in {"idle", "conditions", "record", "configs"} => b = 0 /\ ahead = 0
      /\ pc[t] \notin InBase => r = 0
  <2>1. (pc[t] \in {"idle", "conditions", "record", "configs"} => b = 0) /\ (pc[t] \notin InBase => r = 0)
    BY FS_EmptySet DEF TickInv
  <2>2. 0 * PerBase = 0
    BY <1>2
  <2> QED BY <2>1, <2>2
<1>7. TickRank(t) = ahead + 3 * r + own
  BY DEF TickRank
<1>8. /\ own \in Nat
      /\ own = 0 <=> pc[t] = "idle"
      /\ pc[t] \in InBase \cup {"fetch"} => own \in 1..4
      /\ pc[t] \in {"idle", "conditions", "record", "configs"} => own <= total + 4
  <2>1. pc[t] \in PC
    BY DEF TypeOK
  <2> QED BY <1>3, <2>1, OfItselfIs
<1>9. pc[t] \in {"idle", "conditions", "record", "configs"} \/ pc[t] = "fetch" \/ pc[t] \in InBase
  BY DEF TypeOK, PC, InBase
<1>10. /\ TickRank(t) \in 0..(total + 4)
       /\ TickRank(t) = 0 <=> pc[t] = "idle"
  <2> HIDE DEF n, m, b, r, total, ahead, own
  <2>1. TickRank(t) \in Nat
    BY <1>1, <1>3, <1>7, <1>8
  <2>2. pc[t] \in InBase => "fetch" # pc[t] /\ pc[t] # "idle"
    BY DEF InBase
  <2>3. CASE pc[t] \in InBase
    BY <1>1, <1>2, <1>3, <1>5, <1>7, <1>8, <2>1, <2>2, <2>3
  <2>4. CASE pc[t] \notin InBase
    BY <1>1, <1>3, <1>6, <1>7, <1>8, <1>9, <2>1, <2>4
  <2> QED BY <2>3, <2>4
<1> QED BY <1>2, <1>3, <1>10

\* What is counted of a tick, in one invariant to have it before and after a step.
Counted ==
    \A t \in Ticks :
       /\ Cardinality(bases[t]) \in 0..Cardinality(Bases)
       /\ Cardinality(todo[t]) \in 0..Cardinality(Assignments)
       /\ Cardinality(bases[t]) * PerBase \in Nat
       /\ TickRank(t) \in 0..(Cardinality(Bases) * PerBase + 4)
       /\ TickRank(t) = 0 <=> pc[t] = "idle"

LEMMA CountedAlways ==
    ASSUME IsFiniteSet(Bases), IsFiniteSet(Assignments), TypeOK, TickInv
    PROVE  Counted
  BY RankIs, Sizes DEF Counted

\* Each step of a tick brings it nearer its end.
LEMMA TickFalls ==
    ASSUME IsFiniteSet(Bases), IsFiniteSet(Assignments), TypeOK, TypeOK', TickInv, Counted, Counted',
           NEW t \in Ticks, Step(t)
    PROVE  TickRank(t)' < TickRank(t)
<1> DEFINE n == Cardinality(Assignments)
           total == Cardinality(Bases) * PerBase
           b == Cardinality(bases[t])
           r == Cardinality(todo[t])
           ahead == b * PerBase
           aheadNext == Cardinality(bases'[t]) * PerBase
           rNext == Cardinality(todo'[t])
<1>1. /\ n \in Nat /\ b \in 0..Cardinality(Bases) /\ r \in 0..n /\ rNext \in 0..n
      /\ Cardinality(Bases) \in Nat /\ IsFiniteSet(bases[t]) /\ IsFiniteSet(todo[t])
  <2>1. rNext \in 0..n
    BY DEF Counted
  <2> QED BY <2>1, Sizes
<1>2. /\ PerBase = 3 * n + 2 /\ PerBase \in Nat /\ total \in Nat
      /\ ahead \in Nat /\ aheadNext \in Nat
      /\ TickRank(t) \in Nat /\ TickRank(t)' \in Nat
      /\ TickRank(t) = 0 <=> pc[t] = "idle"
      /\ TickRank(t)' = 0 <=> pc'[t] = "idle"
  <2>1. PerBase = 3 * n + 2 /\ PerBase \in Nat /\ total \in Nat /\ PerBase' = PerBase
    BY RankIs DEF PerBase
  <2>2. ahead \in Nat /\ TickRank(t) \in 0..(total + 4) /\ (TickRank(t) = 0 <=> pc[t] = "idle")
    BY DEF Counted
  <2>3. /\ aheadNext \in Nat /\ TickRank(t)' \in 0..(total + 4)
        /\ TickRank(t)' = 0 <=> pc'[t] = "idle"
    BY <2>1 DEF Counted
  <2> HIDE DEF ahead, aheadNext, total
  <2> QED BY <2>1, <2>2, <2>3
<1>3. /\ TickRank(t) = ahead + 3 * r + OfItself(pc[t])
      /\ TickRank(t)' = aheadNext + 3 * rNext + OfItself(pc'[t])
  BY DEF TickRank, PerBase, OfItself
<1>4. pc[t] # "idle"
  BY DEF Step, Conditions, Record, CityConfigs, Visit, Fetch, FetchFails, Done, CheckExisting,
         NextBase, LookUpAmount, Create, BaseFails, InBase
<1>5. CASE pc'[t] = "idle"
  BY <1>2, <1>4, <1>5
<1>6. ASSUME NEW p \in PC, Goto(t, p) PROVE pc'[t] = p
  BY <1>6 DEF Goto, TypeOK
<1>7. {"record", "configs", "fetch", "check", "amount", "create", "idle"} \subseteq PC
  BY DEF PC
<1>8. OfItself("record") < OfItself("conditions") /\ OfItself("configs") < OfItself("record")
  BY <1>2, OwnSteps
<1>9. ASSUME pc'[t] # "idle", bases'[t] = bases[t], todo'[t] = todo[t],
             OfItself(pc'[t]) < OfItself(pc[t]), OfItself(pc'[t]) \in Nat, OfItself(pc[t]) \in Nat
      PROVE  TickRank(t)' < TickRank(t)
  <2>1. aheadNext = ahead /\ rNext = r
    BY <1>9
  <2> HIDE DEF ahead, aheadNext, r, rNext
  <2> QED BY <1>1, <1>2, <1>3, <1>9, <2>1
<1>10. /\ OfItself(pc'[t]) \in Nat /\ OfItself(pc[t]) \in Nat
  <2>1. pc[t] \in PC /\ pc'[t] \in PC
    BY DEF TypeOK
  <2> QED BY <1>2, <2>1, OfItselfIs
<1>11. ASSUME NEW x \in bases[t], bases'[t] = bases[t] \ {x}
       PROVE  aheadNext = ahead - PerBase
  <2>1. Cardinality(bases'[t]) = b - 1 /\ b > 0
    <3>1. Cardinality(bases'[t]) = b - 1
      BY <1>1, <1>11, FS_RemoveElement
    <3>2. b # 0
      BY <1>1, FS_EmptySet
    <3> QED BY <1>1, <3>1, <3>2
  <2> QED BY <1>1, <1>2, <2>1, Fewer
<1> SUFFICES ASSUME pc'[t] # "idle" PROVE TickRank(t)' < TickRank(t)
  BY <1>5
<1>12. CASE Conditions(t) \/ Record(t)
  <2>1. /\ \/ pc[t] = "conditions" /\ pc'[t] = "record"
           \/ pc[t] = "record" /\ pc'[t] = "configs"
        /\ bases' = bases /\ todo' = todo
    BY <1>6, <1>7, <1>12 DEF Conditions, Record
  <2> QED BY <1>8, <1>9, <1>10, <2>1
<1>13. CASE CityConfigs(t)
  <2>1. pc[t] = "configs" /\ pc'[t] = "fetch" /\ bases'[t] = Bases /\ todo' = todo
    BY <1>6, <1>7, <1>13 DEF CityConfigs, TypeOK
  <2>2. aheadNext = total /\ rNext = r
    BY <2>1
  <2>3. OfItself(pc[t]) = total + 2 /\ OfItself(pc'[t]) = 1
    BY <2>1, OwnSteps
  <2> HIDE DEF ahead, aheadNext, r, rNext, total
  <2> QED BY <1>1, <1>2, <1>3, <2>2, <2>3
<1>14. CASE Visit(t)
  <2> PICK x \in Bases : Fetch(t, x) \/ FetchFails(t, x)
    BY <1>14 DEF Visit
  <2>1. x \in bases[t] /\ bases'[t] = bases[t] \ {x} /\ pc[t] = "fetch"
    BY DEF Fetch, FetchFails, TypeOK
  <2>2. aheadNext = ahead - PerBase
    BY <1>11, <2>1
  <2>3. CASE Fetch(t, x)
    <3>1. pc'[t] = "check"
      BY <1>6, <1>7, <2>3 DEF Fetch
    <3>2. OfItself(pc[t]) = 1 /\ OfItself(pc'[t]) = 2
      BY <2>1, <3>1, OwnSteps
    <3> HIDE DEF ahead, aheadNext, r, rNext, n
    <3> QED BY <1>1, <1>2, <1>3, <2>2, <3>2
  <2>4. CASE FetchFails(t, x)
    <3>1. pc' = pc /\ rNext = r
      BY <2>4 DEF FetchFails
    <3> HIDE DEF ahead, aheadNext, r, rNext, n
    <3> QED BY <1>1, <1>2, <1>3, <1>10, <2>2, <3>1
  <2> QED BY <2>3, <2>4
<1>15. CASE Done(t)
  BY <1>6, <1>7, <1>15 DEF Done, Leave
<1>16. CASE CheckExisting(t)
  <2>1. PICK a \in todo[t] :
           /\ todo' = [todo EXCEPT ![t] = @ \ {a}]
           /\ IF rows[a] > 0 THEN UNCHANGED <<pc, cur>> ELSE Goto(t, "amount")
    BY <1>16 DEF CheckExisting
  <2>2. pc[t] = "check" /\ pc'[t] \in {"check", "amount"} /\ aheadNext = ahead
    BY <1>6, <1>7, <1>16, <2>1 DEF CheckExisting
  <2>3. todo'[t] = todo[t] \ {a}
    BY <2>1 DEF TypeOK
  <2>4. rNext = r - 1
    BY <1>1, <2>3, FS_RemoveElement
  <2>5. OfItself(pc[t]) = 2 /\ OfItself(pc'[t]) \in {2, 4}
    BY <2>2, OwnSteps
  <2> HIDE DEF ahead, aheadNext, r, rNext
  <2> QED BY <1>1, <1>2, <1>3, <2>2, <2>4, <2>5
<1>17. CASE NextBase(t)
  <2>1. pc[t] = "check" /\ pc'[t] = "fetch" /\ bases' = bases /\ todo' = todo
    BY <1>6, <1>7, <1>17 DEF NextBase
  <2> QED BY <1>9, <1>10, <2>1, OwnSteps
<1>18. CASE LookUpAmount(t)
  <2>1. pc[t] = "amount" /\ pc'[t] \in {"create", "check"} /\ bases' = bases /\ todo' = todo
    BY <1>6, <1>7, <1>18 DEF LookUpAmount
  <2> QED BY <1>9, <1>10, <2>1, OwnSteps
<1>19. CASE Create(t)
  <2>1. pc[t] = "create" /\ pc'[t] = "check" /\ bases' = bases /\ todo' = todo
    BY <1>6, <1>7, <1>19 DEF Create
  <2> QED BY <1>9, <1>10, <2>1, OwnSteps
<1>20. CASE BaseFails(t)
  <2>1. pc[t] \in InBase /\ pc'[t] = "fetch" /\ aheadNext = ahead /\ todo'[t] = {}
    BY <1>6, <1>7, <1>20 DEF BaseFails, TypeOK
  <2>2. rNext = 0
    BY <2>1, FS_EmptySet
  <2>3. OfItself(pc[t]) \in {2, 3, 4} /\ OfItself(pc'[t]) = 1
    BY <2>1, OwnSteps DEF InBase
  <2> HIDE DEF ahead, aheadNext, r, rNext
  <2> QED BY <1>1, <1>2, <1>3, <2>1, <2>2, <2>3
<1> QED BY <1>12, <1>13, <1>14, <1>15, <1>16, <1>17, <1>18, <1>19, <1>20 DEF Step

\* Whatever else happens, a tick that is not idle ends after a bounded number of
\* its steps: other ticks, deletions and lawsuits that become pending while it
\* runs leave it no more to do.
THEOREM EveryTickEnds ==
    ASSUME IsFiniteSet(Bases), IsFiniteSet(Assignments) PROVE Spec => TickEnds
<1> DEFINE Bounded == \A t \in Ticks : TickRank(t) \in 0..(Cardinality(Bases) * PerBase + 4)
           Nearer == \A t \in Ticks : pc[t] # "idle" =>
                        IF Step(t) THEN TickRank(t)' < TickRank(t) ELSE TickRank(t)' <= TickRank(t)
<1>1. Counted => Bounded
  BY DEF Counted
<1>4. TypeOK /\ TickInv => Counted
  BY CountedAlways
<1>2. TypeOK /\ TypeOK' /\ TickInv /\ Counted /\ Counted' /\ [Next]_vars => [Nearer]_vars
  <2> SUFFICES ASSUME TypeOK, TypeOK', TickInv, Counted, Counted', Next, NEW t \in Ticks,
                      pc[t] # "idle", ~Step(t)
               PROVE  TickRank(t)' <= TickRank(t)
    BY TickFalls
  <2>1. TickRank(t) \in Nat /\ TickRank(t)' \in Nat /\ (TickRank(t)' = 0 <=> pc'[t] = "idle")
    <3>1. /\ TickRank(t) \in 0..(Cardinality(Bases) * PerBase + 4)
          /\ TickRank(t)' \in 0..(Cardinality(Bases) * PerBase + 4)'
          /\ TickRank(t)' = 0 <=> pc'[t] = "idle"
      BY DEF Counted
    <3> QED BY <3>1
  <2>2. ASSUME pc'[t] = pc[t], bases'[t] = bases[t], todo'[t] = todo[t]
        PROVE  TickRank(t)' <= TickRank(t)
    <3>1. TickRank(t)' = TickRank(t)
      BY <2>2 DEF TickRank, PerBase, OfItself
    <3> QED BY <2>1, <3>1
  <2>3. ASSUME NEW u \in Ticks, Fire(u) \/ Step(u) PROVE TickRank(t)' <= TickRank(t)
    <3>1. u # t
      BY <2>3 DEF Fire
    <3> QED BY <2>2, <2>3, <3>1, OthersStay
  <2>4. CASE Crash
    <3>1. pc'[t] = "idle"
      BY <2>4 DEF Crash
    <3> QED BY <2>1, <3>1
  <2>5. CASE Environment \/ \E a \in Assignments : Delete(a)
    BY <2>2, <2>5 DEF Environment, Delete
  <2> QED BY <2>3, <2>4, <2>5 DEF Next
<1>3. []Bounded /\ [][Nearer]_vars => TickEnds
  BY DEF TickEnds
<1> HIDE DEF Bounded, Nearer
<1> QED BY <1>1, <1>2, <1>3, <1>4, SyncTypeCorrect, TickInvariant, PTL DEF Spec

\* A tick lets go of a lawsuit it has read only when the table shows a row of it,
\* or it has no amount type, or a statement or the process fails.
THEOREM TickDropsNothing == Spec => NoneIsDropped
<1> DEFINE Kept == \A t \in Ticks : ~BaseFails(t) /\ ~Crash =>
                      \A a \in (todo[t] \cup cur[t]) \ (todo[t] \cup cur[t])' :
                         rows[a] > 0 \/ rows'[a] > 0 \/ a \notin WithAmount
<1>1. TypeOK /\ TickInv /\ [Next]_vars => [Kept]_vars
  <2> SUFFICES ASSUME TypeOK, TickInv, Next, NEW t \in Ticks, ~BaseFails(t), ~Crash,
                      NEW a \in (todo[t] \cup cur[t]) \ (todo[t] \cup cur[t])'
               PROVE  rows[a] > 0 \/ rows'[a] > 0 \/ a \notin WithAmount
    OBVIOUS
  <2>1. ASSUME NEW u \in Ticks, Fire(u) \/ Step(u) PROVE u = t
    <3> SUFFICES ASSUME u # t PROVE FALSE
      OBVIOUS
    <3> QED BY <2>1, OthersStay
  <2>2. \E u \in Ticks : Fire(u) \/ Step(u)
    BY DEF Next, Delete, Environment
  <2>3. Fire(t) \/ Step(t)
    BY <2>1, <2>2
  <2> USE DEF TypeOK, TickInv, Goto, Leave, env, InBase
  <2>4. CASE Fire(t) \/ Conditions(t) \/ Record(t) \/ CityConfigs(t) \/ NextBase(t)
    BY <2>4 DEF Fire, Conditions, Record, CityConfigs, NextBase
  <2>5. CASE Visit(t) \/ Done(t)
    BY <2>5 DEF Visit, Fetch, FetchFails, Done
  <2>6. CASE CheckExisting(t)
    BY <2>6 DEF CheckExisting
  <2>7. CASE LookUpAmount(t)
    BY <2>7 DEF LookUpAmount
  <2>8. CASE Create(t)
    <3>1. a \in cur[t] /\ a \in Assignments
      BY <2>8 DEF Create
    <3> QED BY <2>8, <3>1 DEF Create
  <2> QED BY <2>3, <2>4, <2>5, <2>6, <2>7, <2>8 DEF Step
<1>2. [][Kept]_vars => NoneIsDropped
  BY DEF NoneIsDropped
<1> HIDE DEF Kept
<1> QED BY <1>1, <1>2, SyncTypeCorrect, TickInvariant, PTL DEF Spec
=============================================================================
