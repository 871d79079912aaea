-------------------------- MODULE DemandQueueProofs --------------------------
(***************************************************************************)
(* Proofs about DemandQueue for every set of demands and workers, every    *)
(* number of slots and candidates, and every choice of operators' calls    *)
(* and failures.                                                           *)
(***************************************************************************)
EXTENDS DemandQueueLease, FiniteSetTheorems, TLAPS

\* The parts of TypeOK that hold of the row table, of a worker, and of history.
TableType == /\ row \in [Demands -> RowVal]
             /\ before \in SUBSET (Demands \X Demands)
             /\ fresh \in SUBSET Demands
             /\ ext \in [Demands -> 0..3]
WorkerType == /\ pc \in [Workers -> PC]
              /\ item \in [Workers -> Demands \cup {NoDemand}]
              /\ snap \in [Workers -> RowVal]
              /\ excl \in [Workers -> SUBSET Demands]
              /\ outcome \in [Workers -> Outcomes]
              /\ currentRunning \in Int
              /\ \A w \in Workers : pc[w] \in Holding \cup {"cand"} => item[w] \in Demands

\* Moving a row in the order, and writing it, leave the table well typed.
LEMMA PlaceType ==
    ASSUME NEW d \in Demands, NEW E \in SUBSET Demands, TypeOK, Place(d, E)
    PROVE  before' \in SUBSET (Demands \X Demands)
BY DEF Place, TypeOK

LEMMA TouchType ==
    ASSUME NEW d \in Demands, TypeOK, Touch(d)
    PROVE  before' \in SUBSET (Demands \X Demands) /\ fresh' \in SUBSET Demands
<1>1. PICK E \in SUBSET (Demands \ {d}) : Place(d, E)
  BY DEF Touch
<1>2. before' \in SUBSET (Demands \X Demands)
  BY <1>1, PlaceType
<1>3. fresh' \in SUBSET Demands
  BY DEF Touch, TypeOK
<1> QED BY <1>2, <1>3

LEMMA SaveType ==
    ASSUME NEW d \in Demands, NEW s \in Statuses, NEW n \in Notes,
           TypeOK, Save(d, s, n)
    PROVE  /\ row' \in [Demands -> RowVal]
           /\ before' \in SUBSET (Demands \X Demands)
           /\ fresh' \in SUBSET Demands
<1>1. [status |-> s, note |-> n] \in RowVal
  BY DEF RowVal
<1>2. row' \in [Demands -> RowVal]
  BY <1>1 DEF Save, Values, TypeOK
<1>3. before' \in SUBSET (Demands \X Demands) /\ fresh' \in SUBSET Demands
  BY TouchType DEF Save
<1> QED BY <1>2, <1>3

\* Leaving runOnce leaves the worker well typed.
LEMMA LeaveType ==
    ASSUME NEW w \in Workers, TypeOK, Leave(w)
    PROVE  WorkerType'
<1>1. BlankRow \in RowVal
  BY DEF BlankRow, RowVal, Notes
<1>2. "loop" \in PC /\ "none" \in Outcomes /\ "loop" \notin Holding \cup {"cand"}
  BY DEF PC, Outside, Outcomes, Holding, Session, Settling, Syncing
<1> QED BY <1>1, <1>2 DEF Leave, Goto, TypeOK, WorkerType

\* Going to another control state keeps the worker well typed when a demand is
\* at hand or none is needed.
LEMMA GotoType ==
    ASSUME NEW w \in Workers, NEW p \in PC, TypeOK, Goto(w, p),
           p \in Holding \cup {"cand"} => item[w] \in Demands,
           UNCHANGED item
    PROVE  /\ pc' \in [Workers -> PC]
           /\ item' \in [Workers -> Demands \cup {NoDemand}]
           /\ \A v \in Workers : pc'[v] \in Holding \cup {"cand"} => item'[v] \in Demands
BY DEF Goto, TypeOK

\* Ending a session keeps the worker well typed.
LEMMA EndType ==
    ASSUME NEW w \in Workers, NEW r \in Outcomes, TypeOK, End(w, r),
           item[w] \in Demands, UNCHANGED item
    PROVE  /\ pc' \in [Workers -> PC]
           /\ item' \in [Workers -> Demands \cup {NoDemand}]
           /\ \A v \in Workers : pc'[v] \in Holding \cup {"cand"} => item'[v] \in Demands
           /\ outcome' \in [Workers -> Outcomes]
<1>1. {"report", "failed"} \subseteq PC
  BY DEF PC, Holding, Settling
<1>2. Goto(w, IF r \in Returned THEN "report" ELSE "failed")
  BY DEF End
<1>3. outcome' \in [Workers -> Outcomes]
  BY DEF End, TypeOK
<1> QED BY <1>1, <1>2, <1>3, GotoType

\* Nothing a step of the worker loop does before a demand is taken breaks a type.
LEMMA ChooseType == ASSUME TypeOK, NEW w \in Workers, Choose(w) PROVE TypeOK'
<1>1. CASE Wake(w)
  <2>1. "woken" \in PC /\ "woken" \notin Holding \cup {"cand"}
    BY DEF PC, Outside, Holding, Session, Settling, Syncing
  <2> QED BY <1>1, <2>1, GotoType DEF Wake, TypeOK, env, history
<1>2. CASE Gate(w)
  <2>1. {"checking", "loop"} \subseteq PC \ (Holding \cup {"cand"})
    BY DEF PC, Outside, Choosing, Holding, Session, Settling, Syncing
  <2>2. \E p \in {"checking", "loop"} : Goto(w, p)
    BY <1>2 DEF Gate
  <2>3. currentRunning' \in Int
    BY <1>2 DEF Gate, TypeOK
  <2> QED BY <1>2, <2>1, <2>2, <2>3, GotoType DEF Gate, TypeOK, env, history
<1>3. CASE Check(w)
  <2>1. CASE open
    <3>1. "scan" \in PC /\ "scan" \notin Holding \cup {"cand"}
      BY DEF PC, Choosing, Holding, Session, Settling, Syncing
    <3> QED BY <1>3, <2>1, <3>1, GotoType DEF Check, TypeOK, env, history
  <2>2. CASE ~open
    BY <1>3, <2>2, LeaveType DEF Check, TypeOK, WorkerType, env, history
  <2> QED BY <2>1, <2>2
<1>4. CASE Skip(w)
  BY <1>4 DEF Skip, TypeOK, env, history
<1>5. CASE Pick(w)
  <2>1. "cand" \in PC
    BY DEF PC, Choosing
  <2> QED BY <1>5, <2>1 DEF Pick, Goto, TypeOK, env, history
<1>6. CASE GiveUp(w)
  BY <1>6, LeaveType DEF GiveUp, TypeOK, WorkerType, env, history
<1>7. CASE Claim(w)
  <2>1. item[w] \in Demands
    BY <1>7 DEF Claim, TypeOK
  <2>2. CASE IsPending(item[w])
    <3>1. "taken" \in PC /\ "En proceso" \in Statuses /\ "plain" \in Notes
      BY DEF PC, Holding, Session, Statuses, Notes
    <3>2. Goto(w, "taken") /\ Save(item[w], "En proceso", "plain") /\ UNCHANGED <<item, excl>>
          /\ orphaned' \in SUBSET Demands
      BY <1>7, <2>2 DEF Claim, TypeOK
    <3> QED BY <1>7, <2>1, <3>1, <3>2, GotoType, SaveType DEF Claim, TypeOK, env
  <2>3. CASE ~IsPending(item[w])
    <3>1. "scan" \in PC /\ "scan" \notin Holding \cup {"cand"}
      BY DEF PC, Choosing, Holding, Session, Settling, Syncing
    <3> QED BY <1>7, <2>1, <2>3, <3>1 DEF Claim, Goto, TypeOK, env, history
  <2> QED BY <2>2, <2>3
<1>8. CASE ChoosingFails(w)
  <2>1. Leave(w) /\ UNCHANGED <<env, ext, filings, overridden>>
    BY <1>8 DEF ChoosingFails
  <2>2. CASE UNCHANGED <<row, before, fresh, orphaned>>
    BY <2>1, <2>2, LeaveType DEF TypeOK, WorkerType, env
  <2>3. CASE /\ pc[w] = "cand"
             /\ Save(item[w], "En proceso", "plain")
             /\ orphaned' = orphaned \cup {item[w]}
    <3>1. item[w] \in Demands /\ "En proceso" \in Statuses /\ "plain" \in Notes
      BY <2>3 DEF TypeOK, Statuses, Notes
    <3>2. orphaned' \in SUBSET Demands
      BY <2>3, <3>1 DEF TypeOK
    <3> QED BY <2>1, <2>3, <3>1, <3>2, LeaveType, SaveType DEF TypeOK, WorkerType, env
  <2> QED BY <1>8, <2>2, <2>3 DEF ChoosingFails
<1> QED BY <1>1, <1>2, <1>3, <1>4, <1>5, <1>6, <1>7, <1>8 DEF Choose

\* Nor does a worker that leaves its demand behind.
LEMMA AbandonType ==
    ASSUME TypeOK, NEW w \in Workers, item[w] \in Demands, Abandon(w) PROVE TypeOK'
<1>1. orphaned' \in SUBSET Demands
  BY DEF Abandon, TypeOK
<1> QED BY <1>1, LeaveType DEF Abandon, TypeOK, WorkerType, env

\* Nor does a step of the portal session.
LEMMA PortalType == ASSUME TypeOK, NEW w \in Workers, InPortal(w) PROVE TypeOK'
<1>1. item[w] \in Demands
  BY DEF TypeOK, InPortal, NoPdfService, NoPdfServiceFails, EarlyEnd, ReadForPath, SavePath,
         SavingFails, LateEnd, FileAtPortal, AfterFiling, Holding, Session
<1>2. CASE NoPdfService(w)
  <2>1. "Novedad" \in Statuses /\ "plain" \in Notes
    BY DEF Statuses, Pending, Notes
  <2>2. filings' \in [Demands -> 0..2]
    BY <1>1, <1>2 DEF NoPdfService, TypeOK
  <2>3. Save(item[w], "Novedad", "plain") /\ Leave(w)
    BY <1>2 DEF NoPdfService
  <2> QED BY <1>1, <1>2, <2>1, <2>2, <2>3, SaveType, LeaveType
          DEF NoPdfService, TypeOK, WorkerType, env
<1>3. CASE EarlyEnd(w)
  BY <1>1, <1>3, EndType DEF EarlyEnd, TypeOK, env, history
<1>4. CASE ReadForPath(w)
  <2>1. CASE Exists(item[w])
    <3>1. "saving" \in PC
      BY DEF PC, Holding, Session
    <3>2. Goto(w, "saving") /\ UNCHANGED <<item, outcome>> /\ snap' \in [Workers -> RowVal]
      BY <1>1, <1>4, <2>1 DEF ReadForPath, TypeOK
    <3> QED BY <1>1, <1>4, <3>1, <3>2, GotoType DEF ReadForPath, TypeOK, env, history
  <2>2. CASE ~Exists(item[w])
    <3>1. "novedad" \in Outcomes
      BY DEF Outcomes, Returned
    <3>2. End(w, "novedad") /\ UNCHANGED <<item, snap>>
      BY <1>4, <2>2 DEF ReadForPath
    <3> QED BY <1>1, <1>4, <3>1, <3>2, EndType DEF ReadForPath, TypeOK, env, history
  <2> QED BY <2>1, <2>2
<1>5. CASE SavePath(w)
  <2>1. BlankRow \in RowVal /\ "attached" \in PC
    BY DEF BlankRow, RowVal, Notes, PC, Holding, Session
  <2>2. snap' \in [Workers -> RowVal]
    BY <1>5, <2>1 DEF SavePath, TypeOK
  <2>3. row' \in [Demands -> RowVal] /\ before' \in SUBSET (Demands \X Demands)
        /\ fresh' \in SUBSET Demands
    <3>1. [status |-> snap[w].status, note |-> snap[w].note] \in RowVal
      BY DEF TypeOK, RowVal
    <3>2. row' \in [Demands -> RowVal] /\ fresh' \in SUBSET Demands
      BY <1>1, <1>5, <3>1 DEF SavePath, Values, TypeOK
    <3>3. PICK E \in SUBSET (Demands \ {item[w]}) : Place(item[w], E)
      BY <1>5 DEF SavePath
    <3> QED BY <1>1, <3>2, <3>3, PlaceType
  <2> QED BY <1>1, <1>5, <2>1, <2>2, <2>3, GotoType DEF SavePath, TypeOK, env, history
<1>6. CASE LateEnd(w)
  <2>1. {"novedad", "error", "registered"} \subseteq Outcomes
    BY DEF Outcomes, Returned, Thrown
  <2>2. \E r \in Outcomes : End(w, r)
    BY <1>6, <2>1 DEF LateEnd
  <2> QED BY <1>1, <1>6, <2>2, EndType DEF LateEnd, TypeOK, env, history
<1>7. CASE FileAtPortal(w)
  <2>1. "submitted" \in PC
    BY DEF PC, Holding, Session
  <2>2. filings' \in [Demands -> 0..2]
    BY <1>1, <1>7 DEF FileAtPortal, TypeOK
  <2> QED BY <1>1, <1>7, <2>1, <2>2, GotoType DEF FileAtPortal, TypeOK, env
<1>8. CASE AfterFiling(w)
  <2>1. {"novedad", "error", "registered"} \subseteq Outcomes
    BY DEF Outcomes, Returned, Thrown
  <2> QED BY <1>1, <1>8, <2>1, EndType DEF AfterFiling, TypeOK, env, history
<1>9. CASE NoPdfServiceFails(w)
  BY <1>1, <1>9, AbandonType DEF NoPdfServiceFails
<1>10. CASE SavingFails(w)
  <2>1. {"novedad", "error"} \subseteq Outcomes /\ BlankRow \in RowVal
    BY DEF Outcomes, Returned, Thrown, BlankRow, RowVal, Notes
  <2>2. snap' \in [Workers -> RowVal]
    BY <1>10, <2>1 DEF SavingFails, TypeOK
  <2> QED BY <1>1, <1>10, <2>1, <2>2, EndType DEF SavingFails, TypeOK, env, history
<1> QED BY <1>2, <1>3, <1>4, <1>5, <1>6, <1>7, <1>8, <1>9, <1>10 DEF InPortal

\* An external update either goes on to the next one or is the last.
LEMMA SyncStepEnds ==
    ASSUME NEW w \in Workers, SyncStep(w)
    PROVE  \/ /\ ext' = [ext EXCEPT ![item[w]] = 3] /\ Leave(w)
           \/ /\ \E p \in {"ext2", "ext3"} : Goto(w, p)
              /\ UNCHANGED <<item, snap, excl, outcome, currentRunning>>
<1>1. PICK i \in {1, 2, 3} :
         /\ ext' = [ext EXCEPT ![item[w]] = i]
         /\ IF i = 3
              THEN Leave(w)
              ELSE /\ Goto(w, IF i = 1 THEN "ext2" ELSE "ext3")
                   /\ UNCHANGED <<item, snap, excl, outcome, currentRunning>>
  BY Zenon DEF SyncStep
<1>2. CASE i = 3
  BY <1>1, <1>2
<1>3. CASE i # 3
  BY <1>1, <1>3
<1> QED BY <1>2, <1>3

LEMMA SyncStepExt ==
    ASSUME NEW w \in Workers, SyncStep(w)
    PROVE  \E i \in {1, 2, 3} : ext' = [ext EXCEPT ![item[w]] = i]
BY Zenon DEF SyncStep

\* See SyncStepEnds.
LEMMA SyncStepNext ==
    ASSUME NEW w \in Workers, SyncStep(w)
    PROVE  \/ Leave(w)
           \/ pc[w] = "ext1" /\ Goto(w, "ext2")
           \/ pc[w] = "ext2" /\ Goto(w, "ext3")
<1>1. PICK i \in (CASE pc[w] = "ext1" -> {1, 3} [] pc[w] = "ext2" -> {2} [] OTHER -> {3}) :
         IF i = 3 THEN Leave(w) ELSE Goto(w, IF i = 1 THEN "ext2" ELSE "ext3")
  BY DEF SyncStep
<1>2. CASE pc[w] = "ext1"
  BY <1>1, <1>2
<1>3. CASE pc[w] = "ext2"
  BY <1>1, <1>3
<1>4. CASE pc[w] \notin {"ext1", "ext2"}
  BY <1>1, <1>4
<1> QED BY <1>2, <1>3, <1>4

\* Nor does a step that writes the outcome back.
LEMMA SettleType == ASSUME TypeOK, NEW w \in Workers, Settle(w) PROVE TypeOK'
<1>1. item[w] \in Demands
  BY DEF TypeOK, Settle, Refresh, Finish, WriteFails, SyncStep, SyncFails, ReadAfterError,
         SaveNovedad, CatchFails, Holding, Settling, Syncing
<1>2. "error" \in Outcomes
  BY DEF Outcomes, Thrown
<1>3. "plain" \in Notes /\ {"Novedad", "En proceso", "Registrada"} \subseteq Statuses
  BY DEF Notes, Statuses, Pending
<1>4. CASE Refresh(w)
  <2>1. "writing" \in PC
    BY DEF PC, Holding, Settling
  <2>2. CASE Goto(w, "writing") /\ UNCHANGED outcome
    BY <1>1, <1>4, <2>1, <2>2, GotoType DEF Refresh, TypeOK, env, history
  <2>3. CASE End(w, "error")
    BY <1>1, <1>2, <1>4, <2>3, EndType DEF Refresh, TypeOK, env, history
  <2> QED BY <1>4, <2>2, <2>3 DEF Refresh
<1>5. CASE Finish(w)
  <2>1. CASE outcome[w] = "registered"
    <3>1. "ext1" \in PC
      BY DEF PC, Holding, Settling, Syncing
    <3>2. ext' \in [Demands -> 0..3]
      BY <1>1, <1>5, <2>1 DEF Finish, TypeOK
    <3>3. Save(item[w], "Registrada", "plain") /\ Goto(w, "ext1")
          /\ UNCHANGED <<item, snap, excl, outcome, currentRunning, history>>
      BY <1>5, <2>1 DEF Finish
    <3> QED BY <1>1, <1>3, <1>5, <3>1, <3>2, <3>3, SaveType, GotoType
            DEF Finish, TypeOK, env, history
  <2>2. CASE outcome[w] = "parked"
    <3>1. Save(item[w], "En proceso", "plain") /\ Leave(w)
          /\ orphaned' = orphaned \cup {item[w]} /\ UNCHANGED <<ext, filings, overridden>>
      BY <1>5, <2>2 DEF Finish
    <3>2. orphaned' \in SUBSET Demands
      BY <1>1, <3>1 DEF TypeOK
    <3> QED BY <1>1, <1>3, <1>5, <3>1, <3>2, SaveType, LeaveType
            DEF Finish, TypeOK, WorkerType, env
  <2>3. CASE outcome[w] \notin {"registered", "parked"}
    <3>1. Save(item[w], "Novedad", "plain") /\ Leave(w)
          /\ filings' = [filings EXCEPT ![item[w]] = 0]
          /\ UNCHANGED <<ext, orphaned, overridden>>
      BY <1>5, <2>3 DEF Finish
    <3>2. filings' \in [Demands -> 0..2]
      BY <1>1, <3>1 DEF TypeOK
    <3> QED BY <1>1, <1>3, <1>5, <3>1, <3>2, SaveType, LeaveType
            DEF Finish, TypeOK, WorkerType, env
  <2> QED BY <2>1, <2>2, <2>3
<1>6. CASE SyncStep(w)
  <2>1. {"ext2", "ext3"} \subseteq PC
    BY DEF PC, Holding, Settling, Syncing
  <2>2. ext' \in [Demands -> 0..3]
    BY <1>1, <1>6, SyncStepExt DEF TypeOK
  <2>3. CASE Leave(w)
    BY <1>6, <2>2, <2>3, LeaveType DEF SyncStep, TypeOK, WorkerType, env, history
  <2>4. CASE /\ \E p \in {"ext2", "ext3"} : Goto(w, p)
             /\ UNCHANGED <<item, snap, excl, outcome, currentRunning>>
    BY <1>1, <1>6, <2>1, <2>2, <2>4, GotoType DEF SyncStep, TypeOK, env, history
  <2> QED BY <1>6, <2>3, <2>4, SyncStepEnds
<1>7. CASE SyncFails(w)
  BY <1>1, <1>2, <1>7, EndType DEF SyncFails, TypeOK, env, history
<1>8. CASE ReadAfterError(w)
  <2>1. "failing" \in PC
    BY DEF PC, Holding, Settling
  <2>2. CASE Leave(w)
    BY <1>8, <2>2, LeaveType DEF ReadAfterError, TypeOK, WorkerType, env, history
  <2>3. CASE Goto(w, "failing") /\ UNCHANGED <<item, snap, excl, outcome, currentRunning>>
    BY <1>1, <1>8, <2>1, <2>3, GotoType DEF ReadAfterError, TypeOK, env, history
  <2> QED BY <1>8, <2>2, <2>3 DEF ReadAfterError
<1>9. CASE SaveNovedad(w)
  <2>1. PICK n \in Notes : Save(item[w], "Novedad", n)
    BY <1>3, <1>9 DEF SaveNovedad
  <2>2. filings' \in [Demands -> 0..2]
    BY <1>1, <1>9 DEF SaveNovedad, TypeOK
  <2>3. Leave(w)
    BY <1>9 DEF SaveNovedad
  <2> QED BY <1>1, <1>3, <1>9, <2>1, <2>2, <2>3, SaveType, LeaveType
          DEF SaveNovedad, TypeOK, WorkerType, env
<1>10. CASE WriteFails(w)
  BY <1>1, <1>2, <1>10, EndType DEF WriteFails, TypeOK, env, history
<1>11. CASE CatchFails(w)
  BY <1>1, <1>11, AbandonType DEF CatchFails
<1> QED BY <1>4, <1>5, <1>6, <1>7, <1>8, <1>9, <1>10, <1>11 DEF Settle

\* Nor does anything else: a new row, an operator's call, a crash, the clock.
LEMMA OtherType ==
    ASSUME TypeOK,
           \/ \E d \in Demands :
                 \/ Arrive(d) \/ OperatorPost(d) \/ PutFinds(d) \/ OperatorPut(d)
                 \/ OperatorDelete(d) \/ Age(d)
           \/ Crash \/ Environment
    PROVE  TypeOK'
<1>1. ASSUME NEW d \in Demands, Arrive(d) PROVE TypeOK'
  <2>1. "Abierta" \in Statuses /\ "plain" \in Notes
    BY DEF Statuses, Pending, Notes
  <2>2. Save(d, "Abierta", "plain")
    BY <1>1 DEF Arrive
  <2> QED BY <1>1, <2>1, <2>2, SaveType DEF Arrive, TypeOK, env, history
<1>2. ASSUME NEW d \in Demands, OperatorPut(d) PROVE TypeOK'
  <2>1. PICK s \in Statuses :
           /\ Values(d, s, "plain")
           /\ Touch(d) \/ UNCHANGED <<before, fresh>>
           /\ filings' = [filings EXCEPT ![d] = IF s \in Pending THEN 0 ELSE @]
    BY <1>2 DEF OperatorPut
  <2>2. overridden' \in SUBSET Demands /\ filings' \in [Demands -> 0..2]
    <3>1. overridden' = overridden \/ overridden' = overridden \cup {d}
      BY <1>2 DEF OperatorPut
    <3> QED BY <2>1, <3>1 DEF TypeOK
  <2>3. row' \in [Demands -> RowVal]
    <3>1. [status |-> s, note |-> "plain"] \in RowVal
      BY DEF RowVal, Notes
    <3> QED BY <2>1, <3>1 DEF Values, TypeOK
  <2>4. before' \in SUBSET (Demands \X Demands) /\ fresh' \in SUBSET Demands
    BY <2>1, TouchType DEF TypeOK
  <2>5. editing' \in SUBSET Demands
    BY <1>2 DEF OperatorPut, TypeOK
  <2> QED BY <1>2, <2>2, <2>3, <2>4, <2>5 DEF OperatorPut, TypeOK
<1>3. ASSUME NEW d \in Demands, OperatorDelete(d) PROVE TypeOK'
  <2>1. row' \in [Demands -> RowVal]
    BY <1>3 DEF OperatorDelete, TypeOK, RowVal
  <2> QED BY <1>3, <2>1 DEF OperatorDelete, TypeOK, env, history
<1>4. CASE Crash
  <2>1. BlankRow \in RowVal
    BY DEF BlankRow, RowVal, Notes
  <2>2. "loop" \in PC /\ "none" \in Outcomes /\ "loop" \notin Holding \cup {"cand"}
    BY DEF PC, Outside, Outcomes, Holding, Session, Settling, Syncing
  <2>3. orphaned' \in SUBSET Demands
    BY <1>4 DEF Crash, TypeOK
  <2> QED BY <1>4, <2>1, <2>2, <2>3 DEF Crash, TypeOK, env
<1>5. CASE Environment
  BY <1>5 DEF Environment, TypeOK, history
<1>6. ASSUME NEW d \in Demands, OperatorPost(d) PROVE TypeOK'
  <2>1. PICK s \in Statuses : Save(d, s, "plain")
    BY <1>6 DEF OperatorPost
  <2>2. overridden' = overridden \/ overridden' = overridden \cup {d}
    BY <1>6 DEF OperatorPost
  <2>3. overridden' \in SUBSET Demands
    BY <2>2 DEF TypeOK
  <2>4. "plain" \in Notes
    BY DEF Notes
  <2> QED BY <1>6, <2>1, <2>3, <2>4, SaveType DEF OperatorPost, TypeOK, env
<1>7. ASSUME NEW d \in Demands, PutFinds(d) \/ Age(d) PROVE TypeOK'
  BY <1>7 DEF PutFinds, Age, TypeOK, env, history
<1> QED BY <1>1, <1>2, <1>3, <1>4, <1>5, <1>6, <1>7

\* Every variable of the queue keeps its type: in particular a worker past the
\* claim always has a demand, so no step of a session works on "no row".
THEOREM TypeCorrect == Spec => []TypeOK
<1>1. Init => TypeOK
  <2>1. BlankRow \in RowVal /\ [status |-> "Abierta", note |-> "plain"] \in RowVal
    BY DEF BlankRow, RowVal, Notes, Statuses, Pending
  <2>2. "loop" \in PC /\ "none" \in Outcomes /\ "loop" \notin Holding \cup {"cand"}
    BY DEF PC, Outside, Outcomes, Holding, Session, Settling, Syncing
  <2> QED BY <2>1, <2>2 DEF Init, TypeOK
<1>2. TypeOK /\ [Next]_vars => TypeOK'
  <2> SUFFICES ASSUME TypeOK, [Next]_vars PROVE TypeOK'
    OBVIOUS
  <2>1. ASSUME NEW w \in Workers, Worker(w) PROVE TypeOK'
    BY <2>1, ChooseType, PortalType, SettleType DEF Worker
  <2>2. CASE UNCHANGED vars
    BY <2>2 DEF vars, TypeOK
  <2> QED BY <2>1, <2>2, OtherType DEF Next
<1> QED BY <1>1, <1>2, PTL DEF Spec

----------------------------------------------------------------------------
(* The inductive invariant.                                                 *)

\* A demand whose row and filings a step leaves alone, and that no worker
\* starts to hold or holds differently after it, keeps its invariant.
LEMMA Frame ==
    ASSUME NEW d \in Demands, DemandInv(d),
           row'[d] = row[d], filings'[d] = filings[d], overridden \subseteq overridden',
           \A v \in Workers : Holds(v, d)' =>
              Holds(v, d) /\ pc'[v] = pc[v] /\ outcome'[v] = outcome[v] /\ snap'[v] = snap[v]
    PROVE  DemandInv(d)'
BY DEF DemandInv, HolderInv

\* What a step of worker w leaves alone: the other workers, and every row but
\* that of its own demand.
StepFrame(w) ==
    /\ \A v \in Workers \ {w} :
          /\ pc'[v] = pc[v] /\ item'[v] = item[v]
          /\ outcome'[v] = outcome[v] /\ snap'[v] = snap[v]
    /\ \A d \in Demands \ {item[w]} : row'[d] = row[d] /\ filings'[d] = filings[d]
    /\ overridden' = overridden
    /\ item'[w] \in {item[w], NoDemand} \/ pc'[w] \notin Holding

LEMMA ChooseFrame == ASSUME TypeOK, NEW w \in Workers, Choose(w) PROVE StepFrame(w)
<1>1. "cand" \notin Holding
  BY DEF Holding, Session, Settling, Syncing
<1> QED BY <1>1 DEF Choose, Wake, Gate, Check, Skip, Pick, GiveUp, Claim, StepFrame, Goto,
                    Leave, Save, Values, ChoosingFails, TypeOK, env, history

LEMMA PortalFrame == ASSUME TypeOK, NEW w \in Workers, InPortal(w) PROVE StepFrame(w)
BY DEF InPortal, NoPdfService, NoPdfServiceFails, Abandon, EarlyEnd, ReadForPath, SavePath,
       SavingFails, LateEnd, FileAtPortal, AfterFiling, StepFrame, Goto, End, Leave, Save,
       Values, TypeOK, env, history

LEMMA SettleFrame == ASSUME TypeOK, NEW w \in Workers, Settle(w) PROVE StepFrame(w)
<1>1. CASE Finish(w)
  <2>1. CASE outcome[w] = "registered"
    BY <1>1, <2>1 DEF Finish, StepFrame, Goto, Save, Values, TypeOK, env, history
  <2>2. CASE outcome[w] = "parked"
    BY <1>1, <2>2 DEF Finish, StepFrame, Goto, Leave, Save, Values, TypeOK, env
  <2>3. CASE outcome[w] \notin {"registered", "parked"}
    BY <1>1, <2>3 DEF Finish, StepFrame, Goto, Leave, Save, Values, TypeOK, env
  <2> QED BY <2>1, <2>2, <2>3
<1>2. CASE SyncStep(w)
  <2>1. \E q \in PC : pc' = [pc EXCEPT ![w] = q]
    BY <1>2 DEF SyncStep, Goto, Leave, PC, Outside, Holding, Settling, Syncing
  <2>2. item'[w] \in {item[w], NoDemand}
        /\ \A v \in Workers \ {w} : item'[v] = item[v] /\ outcome'[v] = outcome[v]
                                    /\ snap'[v] = snap[v]
    BY <1>2 DEF SyncStep, Leave, TypeOK
  <2> QED BY <1>2, <2>1, <2>2 DEF SyncStep, StepFrame, TypeOK, history
<1>3. CASE Refresh(w) \/ WriteFails(w) \/ SyncFails(w) \/ ReadAfterError(w) \/ SaveNovedad(w)
           \/ CatchFails(w)
  BY <1>3 DEF Refresh, WriteFails, SyncFails, ReadAfterError, SaveNovedad, CatchFails, Abandon,
              StepFrame, Goto, End, Leave, Save, Values, TypeOK, env, history
<1> QED BY <1>1, <1>2, <1>3 DEF Settle

\* So a demand that is not the worker's own keeps its invariant.
LEMMA OthersKept ==
    ASSUME TypeOK, NEW w \in Workers, StepFrame(w), NEW d \in Demands, d # item[w],
           DemandInv(d)
    PROVE  DemandInv(d)'
<1>1. \A v \in Workers : Holds(v, d)' => v # w /\ Holds(v, d)
  BY QueueAssumption DEF StepFrame, Holds
<1> QED BY <1>1, Frame DEF StepFrame

\* markInProcess changes the row it takes.
LEMMA ClaimChanges ==
    ASSUME TypeOK, NEW d \in Demands, IsPending(d), Save(d, "En proceso", "plain")
    PROVE  row' # row
<1>1. row'[d].status = "En proceso"
  BY DEF Save, Values, TypeOK
<1>2. row[d].status # "En proceso"
  BY DEF IsPending, Pending
<1> QED BY <1>1, <1>2

\* A step of choosing that writes no row takes no demand: the worker was not and is
\* not in a session, and a claim that takes one changes its row.
LEMMA ChooseIdle ==
    ASSUME TypeOK, NEW w \in Workers, Choose(w), row' = row
    PROVE  /\ pc[w] \notin Holding /\ pc'[w] \notin Holding
           /\ UNCHANGED <<ext, filings, overridden>> /\ orphaned' = orphaned
<1>1. {"loop", "woken", "checking", "scan", "cand"} \cap Holding = {}
  BY DEF Holding, Session, Settling, Syncing
<1>2. item[w] \in Demands /\ IsPending(item[w]) => ~Save(item[w], "En proceso", "plain")
  BY ClaimChanges
<1>3. pc[w] \in Outside \cup Choosing
  BY DEF Choose, Wake, Gate, Check, Skip, MayLook, Pick, GiveUp, Claim, ChoosingFails,
         Outside, Choosing
<1>4. CASE Wake(w) \/ Gate(w) \/ Check(w) \/ GiveUp(w)
  <2>1. pc'[w] \in {"woken", "checking", "scan", "loop"}
    BY <1>4 DEF Wake, Gate, Check, GiveUp, Goto, Leave, TypeOK
  <2> QED BY <1>1, <1>3, <1>4, <2>1 DEF Wake, Gate, Check, GiveUp, history, Outside, Choosing
<1>5. CASE Skip(w) \/ Pick(w)
  BY <1>1, <1>3, <1>5 DEF Skip, Pick, MayLook, Goto, TypeOK, history, Outside, Choosing
<1>6. CASE Claim(w)
  <2>1. ~IsPending(item[w])
    BY <1>2, <1>6 DEF Claim, TypeOK
  <2> QED BY <1>1, <1>3, <1>6, <2>1 DEF Claim, Goto, TypeOK, Outside, Choosing
<1>7. CASE ChoosingFails(w)
  <2>1. UNCHANGED <<row, before, fresh, orphaned>>
    BY <1>2, <1>7 DEF ChoosingFails, TypeOK
  <2>2. pc'[w] = "loop" /\ UNCHANGED <<ext, filings, overridden>>
    BY <1>7 DEF ChoosingFails, Leave, Goto, TypeOK
  <2> QED BY <1>1, <1>3, <2>1, <2>2 DEF Outside, Choosing
<1> QED BY <1>4, <1>5, <1>6, <1>7 DEF Choose

\* One that writes a row is markInProcess, whose worker goes on with the demand or,
\* when the answer is lost, leaves it behind in process.
LEMMA ChooseWrites ==
    ASSUME TypeOK, NEW w \in Workers, Choose(w), row' # row
    PROVE  /\ pc[w] = "cand" /\ item[w] \in Demands /\ IsPending(item[w])
           /\ Save(item[w], "En proceso", "plain")
           /\ \/ /\ pc'[w] = "taken" /\ item'[w] = item[w]
                 /\ orphaned' = orphaned \ {item[w]}
              \/ /\ pc'[w] = "loop"
                 /\ orphaned' = orphaned \cup {item[w]}
           /\ UNCHANGED <<ext, filings, overridden>>
<1>1. Claim(w) \/ ChoosingFails(w)
  BY DEF Choose, Wake, Gate, Check, Skip, Pick, GiveUp
<1>2. CASE Claim(w)
  <2>1. IsPending(item[w])
    BY <1>2 DEF Claim
  <2> QED BY <1>2, <2>1 DEF Claim, Goto, TypeOK
<1>3. CASE ChoosingFails(w)
  BY <1>3 DEF ChoosingFails, Leave, Goto, TypeOK
<1> QED BY <1>1, <1>2, <1>3

\* Before the claim nothing is held; the claim itself finds no other holder,
\* because the row of a held demand is never pending.
LEMMA ChooseInv ==
    ASSUME TypeOK, NEW w \in Workers, Choose(w), NEW d \in Demands, DemandInv(d)
    PROVE  DemandInv(d)'
<1>1. StepFrame(w)
  BY ChooseFrame
<1>2. CASE d # item[w]
  BY <1>1, <1>2, OthersKept
<1>3. CASE d = item[w]
  <2>1. CASE row' = row
    <3>1. pc'[w] \notin Holding /\ filings' = filings
      BY <1>3, <2>1, ChooseIdle
    <3>2. \A v \in Workers : Holds(v, d)' => v # w /\ Holds(v, d)
      BY <1>1, <3>1 DEF Holds, StepFrame
    <3> QED BY <1>1, <2>1, <3>1, <3>2, Frame DEF StepFrame
  <2>2. CASE row' # row
    <3>1. /\ pc[w] = "cand" /\ IsPending(d)
          /\ Save(d, "En proceso", "plain")
          /\ pc'[w] \in {"taken", "loop"}
          /\ filings' = filings /\ overridden' = overridden
      BY <1>3, <2>2, ChooseWrites
    <3>2. row'[d].status = "En proceso"
      BY <3>1 DEF Save, Values, TypeOK
    <3>3. d \notin overridden => filings[d] = 0 /\ \A v \in Workers : ~Holds(v, d)
      BY <3>1 DEF DemandInv, HolderInv, IsPending, Pending
    <3>4. d \notin overridden => \A v \in Workers : Holds(v, d)' => v = w
      BY <1>1, <3>3 DEF Holds, StepFrame
    <3>5. d \notin overridden /\ Holds(w, d)' => HolderInv(w, d)'
      <4>1. "loop" \notin Holding
        BY DEF Holding, Session, Settling, Syncing
      <4> QED BY <3>1, <3>2, <3>3, <4>1 DEF HolderInv, Holds
    <3>6. row'[d].status \notin Pending \cup {"none", "Registrada"}
      BY <3>2 DEF Pending
    <3>7. d \notin overridden => filings'[d] = 0
      BY <3>1, <3>3
    <3> QED BY <3>1, <3>4, <3>5, <3>6, <3>7 DEF DemandInv
  <2> QED BY <2>1, <2>2
<1> QED BY <1>2, <1>3

\* A worker inside its session is the only holder of its demand; its step
\* leaves it the only one, or none.
LEMMA OnlyHolder ==
    ASSUME TypeOK, NEW w \in Workers, StepFrame(w), pc[w] \in Holding,
           NEW d \in Demands, d = item[w], d \notin overridden, DemandInv(d)
    PROVE  /\ HolderInv(w, d)
           /\ \A v \in Workers : Holds(v, d)' => v = w
           /\ item'[w] # d \/ pc'[w] \notin Holding => \A v \in Workers : ~Holds(v, d)'
<1>1. Holds(w, d)
  BY DEF Holds
<1>2. HolderInv(w, d) /\ \A v \in Workers : Holds(v, d) => v = w
  BY <1>1 DEF DemandInv
<1>3. \A v \in Workers : v # w => (Holds(v, d)' <=> Holds(v, d))
  BY DEF Holds, StepFrame
<1>4. \A v \in Workers : Holds(v, d)' => v = w
  BY <1>2, <1>3
<1>5. item'[w] # d \/ pc'[w] \notin Holding => ~Holds(w, d)'
  BY DEF Holds
<1> QED BY <1>2, <1>4, <1>5

LEMMA PortalInv ==
    ASSUME TypeOK, NEW w \in Workers, InPortal(w), NEW d \in Demands, DemandInv(d)
    PROVE  DemandInv(d)'
<1>1. StepFrame(w)
  BY PortalFrame
<1>2. CASE d # item[w] \/ d \in overridden
  BY <1>1, <1>2, OthersKept DEF DemandInv, StepFrame
<1>3. CASE d = item[w] /\ d \notin overridden
  <2>1. pc[w] \in Holding
    BY DEF InPortal, NoPdfService, NoPdfServiceFails, EarlyEnd, ReadForPath, SavePath,
           SavingFails, LateEnd, FileAtPortal, AfterFiling, Holding, Session
  <2>2. /\ HolderInv(w, d)
        /\ \A v \in Workers : Holds(v, d)' => v = w
        /\ item'[w] # d \/ pc'[w] \notin Holding => \A v \in Workers : ~Holds(v, d)'
    BY <1>1, <1>3, <2>1, OnlyHolder, Zenon
  <2>3. SUFFICES /\ Holds(w, d)' => HolderInv(w, d)'
                 /\ filings'[d] <= 1
                 /\ row'[d].status \in Pending \cup {"none"} => filings'[d] = 0
                 /\ row'[d].status = "Registrada" /\ ~Simulated => filings'[d] >= 1
    BY <2>2 DEF DemandInv
  <2>4. /\ filings[d] <= 1
        /\ row[d].status \in Pending \cup {"none"} => filings[d] = 0
        /\ row[d].status = "Registrada" /\ ~Simulated => filings[d] >= 1
    BY <1>3 DEF DemandInv
  <2>5. CASE NoPdfService(w)
    <3>1. row'[d].status = "Novedad" /\ filings'[d] = 0 /\ pc'[w] = "loop"
      BY <1>3, <2>5 DEF NoPdfService, Save, Values, Leave, Goto, TypeOK
    <3> QED BY <3>1 DEF Holds, Holding, Session, Settling, Syncing
  <2>6. CASE EarlyEnd(w)
    <3>1. /\ row' = row /\ filings' = filings /\ UNCHANGED snap
          /\ pc'[w] \in {"report", "failed"} /\ outcome'[w] # "registered"
      BY <2>6 DEF EarlyEnd, End, Goto, TypeOK, history
    <3>2. pc[w] = "taken"
      BY <2>6 DEF EarlyEnd
    <3> QED BY <2>2, <2>4, <3>1, <3>2 DEF HolderInv, Session
  <2>7. CASE ReadForPath(w)
    <3>1. pc[w] = "taken" /\ row' = row /\ filings' = filings
      BY <2>7 DEF ReadForPath, history
    <3>2. CASE Exists(d)
      <4>1. pc'[w] = "saving" /\ snap'[w] = row[d]
        BY <1>3, <2>7, <3>2 DEF ReadForPath, Goto, TypeOK
      <4>2. row[d].status = "En proceso"
        BY <2>2, <3>1, <3>2 DEF HolderInv, Session, Exists, Statuses, Pending
      <4> QED BY <2>2, <2>4, <3>1, <4>1, <4>2 DEF HolderInv
    <3>3. CASE ~Exists(d)
      <4>1. pc'[w] = "report" /\ outcome'[w] = "novedad"
        BY <1>3, <2>7, <3>3 DEF ReadForPath, End, Goto, TypeOK, Returned
      <4> QED BY <2>2, <2>4, <3>1, <4>1 DEF HolderInv, Session
    <3> QED BY <3>2, <3>3
  <2>8. CASE SavePath(w)
    <3>1. row'[d].status = snap[w].status /\ filings' = filings /\ pc'[w] = "attached"
      BY <1>3, <2>8 DEF SavePath, Save, Values, Goto, TypeOK, history
    <3>2. snap[w].status = "En proceso" /\ filings[d] = 0
      BY <2>2, <2>8 DEF SavePath, HolderInv
    <3> QED BY <2>4, <3>1, <3>2 DEF HolderInv, Pending, Session
  <2>9. CASE LateEnd(w)
    <3>1. /\ row' = row /\ filings' = filings
          /\ pc'[w] \in {"report", "failed"} /\ (outcome'[w] = "registered" => Simulated)
      BY <2>9 DEF LateEnd, End, Goto, TypeOK, history
    <3>2. pc[w] = "attached"
      BY <2>9 DEF LateEnd
    <3> QED BY <2>2, <2>4, <3>1, <3>2 DEF HolderInv, Session
  <2>10. CASE FileAtPortal(w)
    <3>1. pc[w] = "attached" /\ filings[d] = 0
      BY <2>2, <2>10 DEF FileAtPortal, HolderInv
    <3>2. row'[d] = row[d] /\ filings'[d] = 1 /\ pc'[w] = "submitted"
      BY <1>3, <2>10, <3>1 DEF FileAtPortal, Goto, TypeOK
    <3>3. row[d].status \in {"En proceso", "deleted"}
      BY <2>2, <3>1 DEF HolderInv, Session
    <3>4. /\ row'[d].status \in {"En proceso", "deleted"}
          /\ filings'[d] >= 1 /\ filings'[d] <= 1
      <4>1. row'[d].status \in {"En proceso", "deleted"}
        BY <3>2, <3>3, Zenon
      <4>2. filings'[d] \in Int /\ filings'[d] >= 1 /\ filings'[d] <= 1
        BY <3>2
      <4> QED BY <4>1, <4>2
    <3>5. HolderInv(w, d)'
      BY <3>2, <3>4 DEF HolderInv
    <3> QED BY <3>4, <3>5 DEF Pending
  <2>11. CASE AfterFiling(w)
    <3>1. /\ row' = row /\ filings' = filings /\ pc'[w] \in {"report", "failed"}
          /\ pc[w] = "submitted"
      BY <2>11 DEF AfterFiling, End, Goto, TypeOK, history
    <3> QED BY <2>2, <2>4, <3>1 DEF HolderInv, Session
  <2>12. CASE NoPdfServiceFails(w)
    <3>1. row' = row /\ filings' = filings /\ pc'[w] = "loop"
      BY <2>12 DEF NoPdfServiceFails, Abandon, Leave, Goto, TypeOK
    <3> QED BY <2>4, <3>1 DEF Holds, Holding, Session, Settling, Syncing
  <2>13. CASE SavingFails(w)
    <3>1. /\ row' = row /\ filings' = filings /\ pc[w] = "saving"
          /\ pc'[w] \in {"report", "failed"} /\ outcome'[w] # "registered"
      BY <2>13 DEF SavingFails, End, Goto, TypeOK, history
    <3> QED BY <2>2, <2>4, <3>1 DEF HolderInv, Session
  <2> QED BY <2>5, <2>6, <2>7, <2>8, <2>9, <2>10, <2>11, <2>12, <2>13 DEF InPortal
<1> QED BY <1>2, <1>3

\* Settling writes Registrada only for a session that filed the demand, and
\* Novedad or the parked status only in the step that lets go of it.
LEMMA SettleInv ==
    ASSUME TypeOK, NEW w \in Workers, Settle(w), NEW d \in Demands, DemandInv(d)
    PROVE  DemandInv(d)'
<1>1. StepFrame(w)
  BY SettleFrame
<1>2. CASE d # item[w] \/ d \in overridden
  BY <1>1, <1>2, OthersKept DEF DemandInv, StepFrame
<1>3. CASE d = item[w] /\ d \notin overridden
  <2>1. pc[w] \in Holding
    BY DEF Settle, Refresh, Finish, WriteFails, SyncStep, SyncFails, ReadAfterError,
           SaveNovedad, CatchFails, Holding, Settling, Syncing
  <2>2. /\ HolderInv(w, d)
        /\ \A v \in Workers : Holds(v, d)' => v = w
        /\ item'[w] # d \/ pc'[w] \notin Holding => \A v \in Workers : ~Holds(v, d)'
    BY <1>1, <1>3, <2>1, OnlyHolder, Zenon
  <2>3. SUFFICES /\ Holds(w, d)' => HolderInv(w, d)'
                 /\ filings'[d] <= 1
                 /\ row'[d].status \in Pending \cup {"none"} => filings'[d] = 0
                 /\ row'[d].status = "Registrada" /\ ~Simulated => filings'[d] >= 1
    BY <2>2 DEF DemandInv
  <2>4. /\ filings[d] <= 1
        /\ row[d].status \in Pending \cup {"none"} => filings[d] = 0
        /\ row[d].status = "Registrada" /\ ~Simulated => filings[d] >= 1
    BY <1>3 DEF DemandInv
  <2>5. ASSUME row'[d] = row[d], filings'[d] = filings[d],
               pc'[w] \notin Session \cup {"report", "writing"}
        PROVE  HolderInv(w, d)'
    BY <2>2, <2>5 DEF HolderInv, Session
  <2>6. ASSUME row'[d].status = "Novedad", filings'[d] = 0, pc'[w] = "loop"
        PROVE  /\ Holds(w, d)' => HolderInv(w, d)'
               /\ filings'[d] <= 1
               /\ row'[d].status \in Pending \cup {"none"} => filings'[d] = 0
               /\ row'[d].status = "Registrada" /\ ~Simulated => filings'[d] >= 1
    <3>1. ~Holds(w, d)'
      BY <2>6 DEF Holds, Holding, Session, Settling, Syncing
    <3> QED BY <2>6, <3>1
  <2>7. CASE Refresh(w)
    <3>1. pc[w] = "report" /\ row' = row /\ filings' = filings
      BY <2>7 DEF Refresh, history
    <3>2. CASE pc'[w] = "writing" /\ outcome' = outcome
      BY <2>2, <2>4, <3>1, <3>2 DEF HolderInv, Session
    <3>3. CASE pc'[w] = "failed"
      BY <2>4, <2>5, <3>1, <3>3 DEF Session
    <3>4. \/ pc'[w] = "writing" /\ outcome' = outcome
          \/ pc'[w] = "failed"
      BY <2>7 DEF Refresh, End, Goto, TypeOK, Returned
    <3> QED BY <3>2, <3>3, <3>4
  <2>8. CASE Finish(w)
    <3>1. CASE outcome[w] = "registered"
      <4>1. /\ row'[d].status = "Registrada" /\ filings' = filings /\ pc'[w] = "ext1"
        <5>1. Save(d, "Registrada", "plain") /\ Goto(w, "ext1") /\ UNCHANGED history
          BY <1>3, <2>8, <3>1 DEF Finish
        <5> QED BY <5>1 DEF Save, Values, Goto, TypeOK, history
      <4>2. ~Simulated => filings[d] >= 1
        BY <2>2, <2>8, <3>1 DEF HolderInv, Finish
      <4>3. HolderInv(w, d)'
        BY <4>1 DEF HolderInv, Session
      <4> QED BY <2>4, <4>1, <4>2, <4>3 DEF Pending
    <3>2. CASE outcome[w] = "parked"
      <4>1. row'[d].status = "En proceso" /\ filings' = filings /\ pc'[w] = "loop"
        <5>1. Save(d, "En proceso", "plain") /\ Leave(w) /\ filings' = filings
          BY <1>3, <2>8, <3>2 DEF Finish
        <5> QED BY <5>1 DEF Save, Values, Leave, Goto, TypeOK
      <4>2. ~Holds(w, d)'
        BY <4>1 DEF Holds, Holding, Session, Settling, Syncing
      <4> QED BY <2>4, <4>1, <4>2 DEF Pending
    <3>3. CASE outcome[w] \notin {"registered", "parked"}
      <4>1. row'[d].status = "Novedad" /\ filings'[d] = 0 /\ pc'[w] = "loop"
        <5>1. Save(d, "Novedad", "plain") /\ Leave(w)
              /\ filings' = [filings EXCEPT ![d] = 0]
          BY <1>3, <2>8, <3>3 DEF Finish
        <5> QED BY <5>1 DEF Save, Values, Leave, Goto, TypeOK
      <4> QED BY <2>6, <4>1
    <3> QED BY <3>1, <3>2, <3>3
  <2>9. CASE SyncStep(w)
    <3>1. row' = row /\ filings' = filings
      BY <2>9 DEF SyncStep, history
    <3>2. pc'[w] \in {"ext2", "ext3", "loop"}
      BY <2>9, SyncStepEnds DEF Goto, Leave, TypeOK
    <3> QED BY <2>4, <2>5, <3>1, <3>2 DEF Session
  <2>10. CASE WriteFails(w) \/ SyncFails(w) \/ ReadAfterError(w) \/ CatchFails(w)
    <3>1. row' = row /\ filings' = filings
      BY <2>10 DEF WriteFails, SyncFails, ReadAfterError, CatchFails, Abandon, history
    <3>2. pc'[w] \in {"failed", "failing", "loop"}
      BY <2>10 DEF WriteFails, SyncFails, ReadAfterError, CatchFails, Abandon, End, Goto, Leave,
                   Returned, TypeOK
    <3> QED BY <2>4, <2>5, <3>1, <3>2 DEF Session
  <2>11. CASE SaveNovedad(w)
    <3>1. row'[d].status = "Novedad" /\ filings'[d] = 0 /\ pc'[w] = "loop"
      BY <1>3, <2>11 DEF SaveNovedad, Save, Values, Leave, Goto, TypeOK
    <3> QED BY <2>6, <3>1
  <2> QED BY <2>7, <2>8, <2>9, <2>10, <2>11 DEF Settle
<1> QED BY <1>2, <1>3

\* The rest of the process rewrites the row of a held demand only by an
\* operator's PUT, which overrides it, or by a DELETE, which leaves it deleted;
\* a POST writes a row that was not there, so one nobody holds.
LEMMA OtherInv ==
    ASSUME TypeOK, NEW d \in Demands, DemandInv(d),
           \/ \E e \in Demands :
                 \/ Arrive(e) \/ OperatorPost(e) \/ PutFinds(e) \/ OperatorPut(e)
                 \/ OperatorDelete(e) \/ Age(e)
           \/ Crash \/ Environment
    PROVE  DemandInv(d)'
<1>1. ASSUME NEW e \in Demands, Arrive(e) PROVE DemandInv(d)'
  <2>1. UNCHANGED <<pc, item, outcome, snap, filings, overridden>>
    BY <1>1 DEF Arrive, history
  <2>2. CASE d # e
    <3>1. row'[d] = row[d]
      BY <1>1, <2>2 DEF Arrive, Save, Values, TypeOK
    <3> QED BY <2>1, <3>1, Frame DEF Holds
  <2>3. CASE d = e
    <3>1. row[d].status = "none" /\ row'[d].status = "Abierta"
      BY <1>1, <2>3 DEF Arrive, Save, Values, TypeOK
    <3>2. d \notin overridden => filings[d] = 0 /\ \A v \in Workers : ~Holds(v, d)
      BY <3>1 DEF DemandInv, HolderInv
    <3>3. d \notin overridden => \A v \in Workers : ~Holds(v, d)'
      BY <2>1, <3>2 DEF Holds
    <3> QED BY <2>1, <3>1, <3>2, <3>3 DEF DemandInv
  <2> QED BY <2>2, <2>3
<1>2. ASSUME NEW e \in Demands, OperatorPut(e) PROVE DemandInv(d)'
  <2>1. PICK s \in Statuses :
           /\ Values(e, s, "plain")
           /\ filings' = [filings EXCEPT ![e] = IF s \in Pending THEN 0 ELSE @]
           /\ overridden' = IF Held(e) \/ s \notin Pending
                              THEN overridden \cup {e} ELSE overridden
    BY <1>2 DEF OperatorPut
  <2>2. UNCHANGED <<pc, item, outcome, snap>>
    BY <1>2 DEF OperatorPut
  <2>3. CASE d # e
    <3>1. row'[d] = row[d] /\ filings'[d] = filings[d] /\ overridden \subseteq overridden'
      BY <2>1, <2>3 DEF Save, Values, TypeOK
    <3> QED BY <2>2, <3>1, Frame DEF Holds
  <2>4. CASE d = e /\ ~(Held(e) \/ s \notin Pending)
    <3>1. row'[d].status = s /\ filings'[d] = 0 /\ s \in Pending
      BY <2>1, <2>4 DEF Save, Values, TypeOK
    <3>2. \A v \in Workers : ~Holds(v, d)'
      BY <2>2, <2>4 DEF Held, Holds
    <3> QED BY <3>1, <3>2 DEF DemandInv, Pending
  <2>5. CASE d = e /\ (Held(e) \/ s \notin Pending)
    BY <2>1, <2>5 DEF DemandInv
  <2> QED BY <2>3, <2>4, <2>5
<1>3. ASSUME NEW e \in Demands, OperatorDelete(e) PROVE DemandInv(d)'
  <2>1. UNCHANGED <<pc, item, outcome, snap, filings, overridden>>
    BY <1>3 DEF OperatorDelete, history
  <2>2. CASE d # e
    <3>1. row'[d] = row[d]
      BY <1>3, <2>2 DEF OperatorDelete, TypeOK
    <3> QED BY <2>1, <3>1, Frame DEF Holds
  <2>3. CASE d = e
    <3>1. row'[d].status = "deleted"
      BY <1>3, <2>3 DEF OperatorDelete, TypeOK, RowVal
    <3>2. \A v \in Workers : Holds(v, d)' <=> Holds(v, d)
      BY <2>1 DEF Holds
    <3>3. ASSUME NEW v \in Workers, HolderInv(v, d) PROVE HolderInv(v, d)'
      BY <2>1, <3>1, <3>3 DEF HolderInv
    <3> QED BY <2>1, <3>1, <3>2, <3>3 DEF DemandInv, Pending
  <2> QED BY <2>2, <2>3
<1>4. CASE Crash
  <2>1. "loop" \notin Holding
    BY DEF Holding, Session, Settling, Syncing
  <2>2. \A v \in Workers : ~Holds(v, d)'
    BY <1>4, <2>1 DEF Crash, Holds
  <2> QED BY <1>4, <2>2, Frame DEF Crash
<1>5. CASE Environment
  <2>1. UNCHANGED <<row, pc, item, outcome, snap, filings, overridden>>
    BY <1>5 DEF Environment, history
  <2> QED BY <2>1, Frame DEF Holds
<1>6. ASSUME NEW e \in Demands, OperatorPost(e) PROVE DemandInv(d)'
  <2>1. PICK s \in Statuses :
           /\ Save(e, s, "plain")
           /\ overridden' = IF s \in Pending THEN overridden ELSE overridden \cup {e}
    BY <1>6 DEF OperatorPost
  <2>2. UNCHANGED <<pc, item, outcome, snap, filings>> /\ row[e].status = "none"
    BY <1>6 DEF OperatorPost
  <2>3. CASE d # e
    <3>1. row'[d] = row[d] /\ overridden \subseteq overridden'
      BY <2>1, <2>3 DEF Save, Values, TypeOK
    <3> QED BY <2>2, <3>1, Frame DEF Holds
  <2>4. CASE d = e /\ s \in Pending
    <3>1. row'[d].status = s /\ overridden' = overridden
      BY <2>1, <2>4 DEF Save, Values, TypeOK
    <3>2. d \notin overridden => filings[d] = 0 /\ \A v \in Workers : ~Holds(v, d)
      BY <2>2, <2>4 DEF DemandInv, HolderInv
    <3>3. d \notin overridden => \A v \in Workers : ~Holds(v, d)'
      BY <2>2, <3>2 DEF Holds
    <3> QED BY <2>2, <2>4, <3>1, <3>2, <3>3 DEF DemandInv, Pending
  <2>5. CASE d = e /\ s \notin Pending
    BY <2>1, <2>5 DEF DemandInv
  <2> QED BY <2>3, <2>4, <2>5
<1>7. ASSUME NEW e \in Demands, PutFinds(e) \/ Age(e) PROVE DemandInv(d)'
  <2>1. UNCHANGED <<row, pc, item, outcome, snap, filings, overridden>>
    BY <1>7 DEF PutFinds, Age, history
  <2> QED BY <2>1, Frame DEF Holds
<1> QED BY <1>1, <1>2, <1>3, <1>4, <1>5, <1>6, <1>7

\* The invariant holds of every behaviour, for any numbers of demands and
\* workers, with every failure and operator call of the model switched on.
THEOREM Inductive == Spec => []IInv
<1>1. Init => \A d \in Demands : DemandInv(d)
  <2> SUFFICES ASSUME Init, NEW d \in Demands PROVE DemandInv(d)
    OBVIOUS
  <2>1. \A w \in Workers : ~Holds(w, d)
    BY DEF Init, Holds, Holding, Session, Settling, Syncing
  <2>2. row[d].status \in {"none", "Abierta"} /\ filings[d] = 0
    BY DEF Init, BlankRow
  <2> QED BY <2>1, <2>2 DEF DemandInv
<1>2. TypeOK /\ (\A d \in Demands : DemandInv(d)) /\ [Next]_vars
        => (\A d \in Demands : DemandInv(d)')
  <2> SUFFICES ASSUME TypeOK, [Next]_vars, NEW d \in Demands, DemandInv(d)
               PROVE  DemandInv(d)'
    OBVIOUS
  <2>1. ASSUME NEW w \in Workers, Worker(w) PROVE DemandInv(d)'
    BY <2>1, ChooseInv, PortalInv, SettleInv DEF Worker
  <2>2. CASE UNCHANGED vars
    <3>1. UNCHANGED <<row, pc, item, outcome, snap, filings, overridden>>
      BY <2>2 DEF vars
    <3> QED BY <3>1, Frame DEF Holds
  <2> QED BY <2>1, <2>2, OtherInv DEF Next
<1>3. (\A d \in Demands : DemandInv(d)') <=> (\A d \in Demands : DemandInv(d))'
  OBVIOUS
<1> QED BY <1>1, <1>2, <1>3, TypeCorrect, PTL DEF Spec, IInv

\* markInProcess is a lock: two worker loops hold one demand only if an
\* operator's PUT rewrote the row of a held demand.
THEOREM ExclusiveHolder == Spec => []MutualExclusion
<1>1. IInv => MutualExclusion
  BY DEF IInv, DemandInv, MutualExclusion
<1> QED BY <1>1, Inductive, PTL

\* No crash, failure or deletion makes the bot file one opened row twice.
THEOREM NoSilentRefiling == Spec => []FiledOncePerOpening
<1>1. IInv => FiledOncePerOpening
  BY DEF IInv, DemandInv, FiledOncePerOpening
<1> QED BY <1>1, Inductive, PTL

\* With the real portal, Registrada in the table means the portal filed it.
THEOREM RegisteredMeansFiled == Spec => []RegisteredWasFiled
<1>1. IInv => RegisteredWasFiled
  BY DEF IInv, DemandInv, RegisteredWasFiled
<1> QED BY <1>1, Inductive, PTL

----------------------------------------------------------------------------
(* Where demands end up.                                                    *)

\* A demand that a worker settles with the external tables is registered, or was
\* deleted; one that nobody holds, and nobody died on, is not in process, and is
\* synced when it is registered.
Accounted(d) ==
    d \notin overridden =>
       /\ \A w \in Workers : Holds(w, d) /\ pc[w] \in Syncing
             => row[d].status \in {"Registrada", "deleted"}
       /\ \/ Held(d)
          \/ d \in orphaned
          \/ /\ row[d].status # "En proceso"
             /\ row[d].status = "Registrada" => ext[d] = 3

\* A demand whose row and external tables a step leaves alone, that is held if it
\* was before, and that no worker begins to settle.
LEMMA AccountFrame ==
    ASSUME NEW d \in Demands, Accounted(d),
           row'[d] = row[d], ext'[d] = ext[d],
           overridden \subseteq overridden', d \in orphaned => d \in orphaned',
           Held(d) => Held(d)',
           \A v \in Workers : Holds(v, d)' /\ pc'[v] \in Syncing
              => Holds(v, d) /\ pc[v] \in Syncing
    PROVE  Accounted(d)'
BY DEF Accounted

\* A step of worker w leaves alone the external tables of other demands, and which
\* of them are orphaned.
LEMMA ExtFrame ==
    ASSUME TypeOK, NEW w \in Workers, Worker(w)
    PROVE  \A d \in Demands \ {item[w]} :
              ext'[d] = ext[d] /\ (d \in orphaned => d \in orphaned')
<1>1. CASE Finish(w)
  BY <1>1 DEF Finish, TypeOK, history
<1>2. CASE SyncStep(w)
  BY <1>2, SyncStepExt DEF SyncStep, TypeOK, history
<1>3. CASE Choose(w)
  BY <1>3 DEF Choose, Wake, Gate, Check, Skip, Pick, GiveUp, Claim, ChoosingFails, history
<1>4. CASE InPortal(w)
  BY <1>4 DEF InPortal, NoPdfService, NoPdfServiceFails, Abandon, EarlyEnd, ReadForPath,
              SavePath, SavingFails, LateEnd, FileAtPortal, AfterFiling, history
<1>5. CASE Refresh(w) \/ WriteFails(w) \/ SyncFails(w) \/ ReadAfterError(w) \/ SaveNovedad(w)
           \/ CatchFails(w)
  BY <1>5 DEF Refresh, WriteFails, SyncFails, ReadAfterError, SaveNovedad, CatchFails, Abandon,
              history
<1> QED BY <1>1, <1>2, <1>3, <1>4, <1>5 DEF Worker, Settle

\* A demand the worker has neither before nor after its step, and whose row and
\* external tables it leaves alone, stays accounted for.
LEMMA StrangersAccounted ==
    ASSUME TypeOK, NEW w \in Workers, StepFrame(w), NEW d \in Demands,
           ~Holds(w, d), ~Holds(w, d)', row'[d] = row[d], ext'[d] = ext[d],
           d \in orphaned => d \in orphaned', Accounted(d)
    PROVE  Accounted(d)'
<1>1. \A v \in Workers : (Holds(v, d)' <=> Holds(v, d)) /\ (Holds(v, d) => pc'[v] = pc[v])
  BY DEF Holds, StepFrame
<1>2. Held(d)' <=> Held(d)
  BY <1>1 DEF Held
<1>3. overridden \subseteq overridden'
  BY DEF StepFrame
<1> QED BY <1>1, <1>2, <1>3, AccountFrame

\* So does every demand but the worker's own.
LEMMA OthersAccounted ==
    ASSUME TypeOK, NEW w \in Workers, Worker(w), StepFrame(w),
           NEW d \in Demands, d # item[w], Accounted(d)
    PROVE  Accounted(d)'
<1>1. ~Holds(w, d) /\ ~Holds(w, d)'
  BY QueueAssumption DEF Holds, StepFrame
<1>2. row'[d] = row[d] /\ ext'[d] = ext[d] /\ (d \in orphaned => d \in orphaned')
  BY ExtFrame DEF StepFrame
<1> QED BY <1>1, <1>2, StrangersAccounted

\* Choosing puts a demand in process only in the hands of the worker that claims it,
\* or on record when that worker lost the answer.
LEMMA ChooseAccounted ==
    ASSUME TypeOK, NEW w \in Workers, Choose(w), NEW d \in Demands, Accounted(d)
    PROVE  Accounted(d)'
<1>1. StepFrame(w) /\ Worker(w)
  BY ChooseFrame DEF Worker
<1>2. CASE d # item[w]
  BY <1>1, <1>2, OthersAccounted
<1>3. CASE d = item[w]
  <2>1. CASE row' = row
    <3>1. ~Holds(w, d) /\ ~Holds(w, d)' /\ ext' = ext /\ orphaned' = orphaned
      BY <2>1, ChooseIdle DEF Holds
    <3> QED BY <1>1, <2>1, <3>1, StrangersAccounted
  <2>2. CASE row' # row
    <3>1. /\ pc[w] = "cand" /\ IsPending(d) /\ overridden' = overridden
          /\ \/ pc'[w] = "taken" /\ item'[w] = d
             \/ pc'[w] = "loop" /\ d \in orphaned'
      BY <1>3, <2>2, ChooseWrites
    <3>2. Held(d)' \/ d \in orphaned'
      BY <3>1 DEF Held, Holds, Holding, Session
    <3>3. \A v \in Workers \ {w} : Holds(v, d)' => Holds(v, d) /\ pc'[v] = pc[v]
      BY <1>1 DEF Holds, StepFrame
    <3>4. d \notin overridden => \A v \in Workers : ~(Holds(v, d) /\ pc[v] \in Syncing)
      BY <3>1 DEF Accounted, IsPending, Pending
    <3>5. pc'[w] \notin Syncing
      BY <3>1 DEF Syncing
    <3>6. d \notin overridden => \A v \in Workers : ~(Holds(v, d)' /\ pc'[v] \in Syncing)
      BY <3>3, <3>4, <3>5
    <3> QED BY <3>1, <3>2, <3>6 DEF Accounted
  <2> QED BY <2>1, <2>2
<1> QED BY <1>2, <1>3

\* A worker that leaves its demand behind leaves it on record.
LEMMA AbandonAccounted ==
    ASSUME TypeOK, NEW w \in Workers, StepFrame(w), pc[w] \in Holding, Abandon(w),
           NEW d \in Demands, d = item[w], d \notin overridden, DemandInv(d)
    PROVE  Accounted(d)'
<1>1. d \in orphaned' /\ pc'[w] = "loop"
  BY DEF Abandon, Leave, Goto, TypeOK
<1>2. \A v \in Workers : ~Holds(v, d)'
  BY <1>1, OnlyHolder DEF Holding, Session, Settling, Syncing
<1> QED BY <1>1, <1>2 DEF Accounted

\* A session keeps its demand until it is settled, but for one that finds no PDF
\* service and opens it again.
LEMMA PortalAccounted ==
    ASSUME TypeOK, NEW w \in Workers, InPortal(w), NEW d \in Demands, DemandInv(d), Accounted(d)
    PROVE  Accounted(d)'
<1>1. StepFrame(w) /\ Worker(w)
  BY PortalFrame DEF Worker
<1>2. CASE d # item[w]
  BY <1>1, <1>2, OthersAccounted
<1>3. CASE d \in overridden
  BY <1>1, <1>3 DEF Accounted, StepFrame
<1>4. CASE d = item[w] /\ d \notin overridden
  <2>1. pc[w] \in Holding
    BY DEF InPortal, NoPdfService, NoPdfServiceFails, EarlyEnd, ReadForPath, SavePath,
           SavingFails, LateEnd, FileAtPortal, AfterFiling, Holding, Session
  <2>2. /\ \A v \in Workers : Holds(v, d)' => v = w
        /\ item'[w] # d \/ pc'[w] \notin Holding => \A v \in Workers : ~Holds(v, d)'
    BY <1>1, <1>4, <2>1, OnlyHolder, Zenon
  <2>3. CASE NoPdfService(w)
    <3>1. row'[d].status = "Novedad" /\ pc'[w] = "loop"
      BY <1>4, <2>3 DEF NoPdfService, Save, Values, Leave, Goto, TypeOK
    <3>2. "loop" \notin Holding
      BY DEF Holding, Session, Settling, Syncing
    <3> QED BY <2>2, <3>1, <3>2 DEF Accounted
  <2>4. CASE ~(NoPdfService(w) \/ NoPdfServiceFails(w))
    <3>1. pc'[w] \in {"saving", "attached", "submitted", "report", "failed"} /\ item' = item
      BY <2>4 DEF InPortal, EarlyEnd, ReadForPath, SavePath, SavingFails, LateEnd, FileAtPortal,
                  AfterFiling, End, Goto, TypeOK
    <3>2. pc'[w] \in Holding \ Syncing
      BY <3>1 DEF Holding, Session, Settling, Syncing
    <3>3. Held(d)'
      BY <1>4, <3>1, <3>2 DEF Held, Holds
    <3> QED BY <2>2, <3>2, <3>3 DEF Accounted
  <2>5. CASE NoPdfServiceFails(w)
    BY <1>1, <1>4, <2>1, <2>5, AbandonAccounted DEF NoPdfServiceFails
  <2> QED BY <2>3, <2>4, <2>5
<1> QED BY <1>2, <1>3, <1>4

\* Settling lets go of a demand only once it is open again, parked and on record,
\* deleted, or registered with all three external tables updated.
LEMMA SettleAccounted ==
    ASSUME TypeOK, NEW w \in Workers, Settle(w), NEW d \in Demands, DemandInv(d), Accounted(d)
    PROVE  Accounted(d)'
<1>1. StepFrame(w) /\ Worker(w)
  BY SettleFrame DEF Worker
<1>2. CASE d # item[w]
  BY <1>1, <1>2, OthersAccounted
<1>3. CASE d \in overridden
  BY <1>1, <1>3 DEF Accounted, StepFrame
<1>4. CASE d = item[w] /\ d \notin overridden
  <2>1. pc[w] \in Holding
    BY DEF Settle, Refresh, Finish, WriteFails, SyncStep, SyncFails, ReadAfterError,
           SaveNovedad, CatchFails, Holding, Settling, Syncing
  <2>2. /\ \A v \in Workers : Holds(v, d)' => v = w
        /\ item'[w] # d \/ pc'[w] \notin Holding => \A v \in Workers : ~Holds(v, d)'
    BY <1>1, <1>4, <2>1, OnlyHolder, Zenon
  <2>3. "loop" \notin Holding
    BY DEF Holding, Session, Settling, Syncing
  <2>4. ASSUME pc'[w] \in {"writing", "failed", "failing"}, item' = item PROVE Accounted(d)'
    <3>1. pc'[w] \in Holding \ Syncing
      BY <2>4 DEF Holding, Session, Settling, Syncing
    <3>2. Held(d)'
      BY <1>4, <2>4, <3>1 DEF Held, Holds
    <3> QED BY <2>2, <3>1, <3>2 DEF Accounted
  <2>5. ASSUME pc'[w] = "loop", row'[d].status \in {"Novedad", "none", "deleted"}
        PROVE  Accounted(d)'
    BY <2>2, <2>3, <2>5 DEF Accounted
  <2>6. ASSUME pc'[w] \in Syncing, item' = item, row'[d].status \in {"Registrada", "deleted"}
        PROVE  Accounted(d)'
    <3>1. Held(d)'
      BY <1>4, <2>6 DEF Held, Holds, Holding, Settling
    <3> QED BY <2>6, <3>1 DEF Accounted
  <2>7. CASE Refresh(w) \/ WriteFails(w) \/ SyncFails(w)
    <3>1. pc'[w] \in {"writing", "failed"} /\ item' = item
      BY <2>7 DEF Refresh, WriteFails, SyncFails, End, Goto, Returned, TypeOK
    <3> QED BY <2>4, <3>1
  <2>8. CASE Finish(w)
    <3>1. CASE outcome[w] = "registered"
      <4>1. Save(d, "Registrada", "plain") /\ Goto(w, "ext1") /\ item' = item
        BY <1>4, <2>8, <3>1 DEF Finish
      <4>2. row'[d].status = "Registrada" /\ pc'[w] = "ext1"
        BY <4>1 DEF Save, Values, Goto, TypeOK
      <4> QED BY <2>6, <4>1, <4>2 DEF Syncing
    <3>2. CASE outcome[w] = "parked"
      <4>1. Leave(w) /\ orphaned' = orphaned \cup {d} /\ overridden' = overridden
        BY <1>4, <2>8, <3>2 DEF Finish
      <4>2. pc'[w] = "loop"
        BY <4>1 DEF Leave, Goto, TypeOK
      <4> QED BY <2>2, <2>3, <4>1, <4>2 DEF Accounted
    <3>3. CASE outcome[w] \notin {"registered", "parked"}
      <4>1. Save(d, "Novedad", "plain") /\ Leave(w)
        BY <1>4, <2>8, <3>3 DEF Finish
      <4> QED BY <2>5, <4>1 DEF Save, Values, Leave, Goto, TypeOK
    <3> QED BY <3>1, <3>2, <3>3
  <2>9. CASE SyncStep(w)
    <3>1. pc[w] \in Syncing /\ row' = row
      BY <2>9 DEF SyncStep
    <3>2. row[d].status \in {"Registrada", "deleted"}
      BY <1>4, <2>1, <3>1 DEF Accounted, Holds
    <3>3. CASE (\E p \in {"ext2", "ext3"} : Goto(w, p)) /\ item' = item
      <4>1. pc'[w] \in Syncing
        BY <3>3 DEF Goto, Syncing, TypeOK
      <4> QED BY <2>6, <3>1, <3>2, <3>3, <4>1
    <3>4. CASE Leave(w) /\ ext' = [ext EXCEPT ![d] = 3]
      <4>1. pc'[w] = "loop" /\ ext'[d] = 3
        BY <3>4 DEF Leave, Goto, TypeOK
      <4> QED BY <2>2, <2>3, <3>1, <3>2, <4>1 DEF Accounted
    <3> QED BY <1>4, <2>9, <3>3, <3>4, SyncStepEnds
  <2>10. CASE ReadAfterError(w)
    <3>1. row' = row
      BY <2>10 DEF ReadAfterError
    <3>2. CASE Exists(d)
      <4>1. pc'[w] = "failing" /\ item' = item
        BY <1>4, <2>10, <3>2 DEF ReadAfterError, Goto, TypeOK
      <4> QED BY <2>4, <4>1
    <3>3. CASE ~Exists(d)
      <4>1. pc'[w] = "loop"
        BY <1>4, <2>10, <3>3 DEF ReadAfterError, Leave, Goto, TypeOK
      <4>2. row[d].status \in {"none", "deleted"}
        BY <3>3 DEF Exists, TypeOK, RowVal
      <4> QED BY <2>5, <3>1, <4>1, <4>2
    <3> QED BY <3>2, <3>3
  <2>11. CASE SaveNovedad(w)
    <3>1. row'[d].status = "Novedad" /\ pc'[w] = "loop"
      BY <1>4, <2>11 DEF SaveNovedad, Save, Values, Leave, Goto, TypeOK
    <3> QED BY <2>5, <3>1
  <2>12. CASE CatchFails(w)
    BY <1>1, <1>4, <2>1, <2>12, AbandonAccounted DEF CatchFails
  <2> QED BY <2>7, <2>8, <2>9, <2>10, <2>11, <2>12 DEF Settle
<1> QED BY <1>2, <1>3, <1>4

\* The rest of the process opens or deletes rows, overrides them, or dies on them.
LEMMA OtherAccounted ==
    ASSUME TypeOK, NEW d \in Demands, Accounted(d),
           \/ \E e \in Demands :
                 \/ Arrive(e) \/ OperatorPost(e) \/ PutFinds(e) \/ OperatorPut(e)
                 \/ OperatorDelete(e) \/ Age(e)
           \/ Crash \/ Environment
    PROVE  Accounted(d)'
<1>1. ASSUME NEW e \in Demands, Arrive(e) PROVE Accounted(d)'
  <2>1. UNCHANGED <<pc, item, ext, overridden, orphaned>>
    BY <1>1 DEF Arrive, history
  <2>2. \A v \in Workers : Holds(v, d)' <=> Holds(v, d)
    BY <2>1 DEF Holds
  <2>3. CASE d # e
    <3>1. row'[d] = row[d]
      BY <1>1, <2>3 DEF Arrive, Save, Values, TypeOK
    <3> QED BY <2>1, <2>2, <3>1, AccountFrame DEF Held
  <2>4. CASE d = e
    <3>1. row[d].status = "none" /\ row'[d].status = "Abierta"
      BY <1>1, <2>4 DEF Arrive, Save, Values, TypeOK
    <3> QED BY <2>1, <2>2, <3>1 DEF Accounted
  <2> QED BY <2>3, <2>4
<1>2. ASSUME NEW e \in Demands, OperatorPut(e) PROVE Accounted(d)'
  <2>1. PICK s \in Statuses :
           /\ Values(e, s, "plain")
           /\ overridden' = IF Held(e) \/ s \notin Pending
                              THEN overridden \cup {e} ELSE overridden
    BY <1>2 DEF OperatorPut
  <2>2. UNCHANGED <<pc, item, ext, orphaned>>
    BY <1>2 DEF OperatorPut
  <2>3. \A v \in Workers : Holds(v, d)' <=> Holds(v, d)
    BY <2>2 DEF Holds
  <2>4. CASE d # e
    <3>1. row'[d] = row[d] /\ overridden \subseteq overridden'
      BY <2>1, <2>4 DEF Save, Values, TypeOK
    <3> QED BY <2>2, <2>3, <3>1, AccountFrame DEF Held
  <2>5. CASE d = e /\ ~(Held(e) \/ s \notin Pending)
    <3>1. row'[d].status \in Pending
      BY <2>1, <2>5 DEF Save, Values, TypeOK
    <3>2. \A v \in Workers : ~Holds(v, d)'
      BY <2>3, <2>5 DEF Held
    <3> QED BY <3>1, <3>2 DEF Accounted, Pending
  <2>6. CASE d = e /\ (Held(e) \/ s \notin Pending)
    BY <2>1, <2>6 DEF Accounted
  <2> QED BY <2>4, <2>5, <2>6
<1>3. ASSUME NEW e \in Demands, OperatorDelete(e) PROVE Accounted(d)'
  <2>1. UNCHANGED <<pc, item, ext, overridden, orphaned>>
    BY <1>3 DEF OperatorDelete, history
  <2>2. \A v \in Workers : Holds(v, d)' <=> Holds(v, d)
    BY <2>1 DEF Holds
  <2>3. row'[d] = row[d] \/ row'[d].status = "deleted"
    BY <1>3 DEF OperatorDelete, TypeOK, RowVal
  <2> QED BY <2>1, <2>2, <2>3, AccountFrame DEF Held, Accounted
<1>4. CASE Crash
  <2>1. "loop" \notin Holding
    BY DEF Holding, Session, Settling, Syncing
  <2>2. \A v \in Workers : ~Holds(v, d)'
    BY <1>4, <2>1 DEF Crash, Holds
  <2>3. UNCHANGED <<row, ext, overridden>> /\ (d \in orphaned' <=> d \in orphaned \/ Held(d))
    BY <1>4 DEF Crash
  <2> QED BY <2>2, <2>3 DEF Accounted
<1>5. CASE Environment
  <2>1. UNCHANGED <<row, ext, pc, item, overridden, orphaned>>
    BY <1>5 DEF Environment, history
  <2> QED BY <2>1, AccountFrame DEF Held, Holds
<1>6. ASSUME NEW e \in Demands, OperatorPost(e) PROVE Accounted(d)'
  <2>1. PICK s \in Statuses :
           /\ Save(e, s, "plain")
           /\ overridden' = IF s \in Pending THEN overridden ELSE overridden \cup {e}
    BY <1>6 DEF OperatorPost
  <2>2. UNCHANGED <<pc, item, ext, orphaned>> /\ row[e].status = "none"
    BY <1>6 DEF OperatorPost
  <2>3. \A v \in Workers : Holds(v, d)' <=> Holds(v, d)
    BY <2>2 DEF Holds
  <2>4. CASE d # e
    <3>1. row'[d] = row[d] /\ overridden \subseteq overridden'
      BY <2>1, <2>4 DEF Save, Values, TypeOK
    <3> QED BY <2>2, <2>3, <3>1, AccountFrame DEF Held
  <2>5. CASE d = e /\ s \in Pending
    <3>1. row'[d].status = s /\ overridden' = overridden
      BY <2>1, <2>5 DEF Save, Values, TypeOK
    <3> QED BY <2>2, <2>3, <2>5, <3>1 DEF Accounted, Pending
  <2>6. CASE d = e /\ s \notin Pending
    BY <2>1, <2>6 DEF Accounted
  <2> QED BY <2>4, <2>5, <2>6
<1>7. ASSUME NEW e \in Demands, PutFinds(e) \/ Age(e) PROVE Accounted(d)'
  <2>1. UNCHANGED <<row, ext, pc, item, overridden, orphaned>>
    BY <1>7 DEF PutFinds, Age, history
  <2> QED BY <2>1, AccountFrame DEF Held, Holds
<1> QED BY <1>1, <1>2, <1>3, <1>4, <1>5, <1>6, <1>7

\* Every demand is accounted for, whatever crashes, failures and operators do: one in
\* process or registered and not synced has a worker, or is one whose last worker
\* died, parked it, or lost the database when it was to write.
THEOREM DemandsAccounted == Spec => [](\A d \in Demands : Accounted(d))
<1>1. Init => \A d \in Demands : Accounted(d)
  <2> SUFFICES ASSUME Init, NEW d \in Demands PROVE Accounted(d)
    OBVIOUS
  <2>1. \A w \in Workers : pc[w] \notin Syncing
    BY DEF Init, Syncing
  <2>2. row[d].status \in {"none", "Abierta"}
    BY DEF Init, BlankRow
  <2> QED BY <2>1, <2>2 DEF Accounted
<1>2. IInv /\ (\A d \in Demands : Accounted(d)) /\ [Next]_vars
        => (\A d \in Demands : Accounted(d)')
  <2> SUFFICES ASSUME IInv, [Next]_vars, NEW d \in Demands, Accounted(d) PROVE Accounted(d)'
    OBVIOUS
  <2>1. TypeOK /\ DemandInv(d)
    BY DEF IInv
  <2>2. ASSUME NEW w \in Workers, Worker(w) PROVE Accounted(d)'
    BY <2>1, <2>2, ChooseAccounted, PortalAccounted, SettleAccounted DEF Worker
  <2>3. CASE UNCHANGED vars
    <3>1. UNCHANGED <<row, ext, pc, item, overridden, orphaned>>
      BY <2>3 DEF vars
    <3> QED BY <3>1, AccountFrame DEF Held, Holds
  <2> QED BY <2>1, <2>2, <2>3, OtherAccounted DEF Next
<1>3. (\A d \in Demands : Accounted(d)') <=> (\A d \in Demands : Accounted(d))'
  OBVIOUS
<1> QED BY <1>1, <1>2, <1>3, Inductive, PTL DEF Spec

\* A row in process that has no worker was left by a crash, by a parked session, or
\* by a worker whose own writes to the table failed: nothing else leaves one behind.
THEOREM InProcessAccounted == Spec => []InProcessIsAccounted
<1>1. (\A d \in Demands : Accounted(d)) => InProcessIsAccounted
  BY DEF Accounted, InProcessIsAccounted
<1> QED BY <1>1, DemandsAccounted, PTL

\* A registered demand whose worker lives and could write to the table is fully
\* synced once that worker is done with it.
THEOREM RegisteredSynced == Spec => []RegisteredIsSynced
<1>1. (\A d \in Demands : Accounted(d)) => RegisteredIsSynced
  BY DEF Accounted, RegisteredIsSynced
<1> QED BY <1>1, DemandsAccounted, PTL

----------------------------------------------------------------------------
(* The slots.                                                               *)

Inside == {w \in Workers : pc[w] \notin Outside}

\* The set is finite for any set of workers: it starts empty and grows by one.
SlotsInv == IsFiniteSet(Inside) /\ currentRunning = Cardinality(Inside)

\* A slot is taken, given back, or kept.
LEMMA SlotTaken ==
    ASSUME SlotsInv, NEW w \in Workers, w \notin Inside,
           Inside' = Inside \cup {w}, currentRunning' = currentRunning + 1
    PROVE  SlotsInv'
BY FS_AddElement DEF SlotsInv

\* See SlotTaken.
LEMMA SlotGivenBack ==
    ASSUME SlotsInv, NEW w \in Workers, w \in Inside,
           Inside' = Inside \ {w}, currentRunning' = currentRunning - 1
    PROVE  SlotsInv'
BY FS_RemoveElement DEF SlotsInv

\* See SlotTaken.
LEMMA SlotKept ==
    ASSUME SlotsInv, Inside' = Inside, currentRunning' = currentRunning
    PROVE  SlotsInv'
BY DEF SlotsInv

\* A worker outside runOnce takes a slot as it enters.
LEMMA GateSlots == ASSUME TypeOK, SlotsInv, NEW w \in Workers, Wake(w) \/ Gate(w) PROVE SlotsInv'
<1>1. w \notin Inside
  BY DEF Wake, Gate, Inside, Outside
<1>2. CASE Goto(w, "checking") /\ currentRunning' = currentRunning + 1
  <2>1. Inside' = Inside \cup {w}
    BY <1>2 DEF Inside, Outside, Goto, TypeOK
  <2> QED BY <1>1, <1>2, <2>1, SlotTaken
<1>3. CASE (Goto(w, "woken") \/ Goto(w, "loop")) /\ currentRunning' = currentRunning
  <2>1. Inside' = Inside
    BY <1>1, <1>3 DEF Inside, Outside, Goto, TypeOK
  <2> QED BY <1>3, <2>1, SlotKept
<1> QED BY <1>2, <1>3 DEF Wake, Gate

\* One inside keeps its slot, or gives it back and leaves.
LEMMA InsideSlots ==
    ASSUME TypeOK, SlotsInv, NEW w \in Workers, pc[w] \notin Outside,
           \/ Leave(w)
           \/ currentRunning' = currentRunning /\ (\E p \in PC \ Outside : Goto(w, p))
           \/ currentRunning' = currentRunning /\ pc' = pc
    PROVE  SlotsInv'
<1>1. CASE Leave(w)
  <2>1. Inside' = Inside \ {w} /\ w \in Inside
    BY <1>1 DEF Inside, Outside, Leave, Goto, TypeOK
  <2> QED BY <1>1, <2>1, SlotGivenBack DEF Leave
<1>2. CASE currentRunning' = currentRunning /\ \E p \in PC \ Outside : Goto(w, p)
  <2>1. Inside' = Inside
    BY <1>2 DEF Inside, Goto, TypeOK
  <2> QED BY <1>2, <2>1, SlotKept
<1>3. CASE currentRunning' = currentRunning /\ pc' = pc
  <2>1. Inside' = Inside
    BY <1>3 DEF Inside
  <2> QED BY <1>3, <2>1, SlotKept
<1> QED BY <1>1, <1>2, <1>3

\* Every step inside runOnce is of one of these two kinds.
LEMMA WorkerSlots == ASSUME TypeOK, SlotsInv, NEW w \in Workers, Worker(w) PROVE SlotsInv'
<1>1. CASE Wake(w) \/ Gate(w)
  BY <1>1, GateSlots
<1>2. CASE ~(Wake(w) \/ Gate(w))
  <2>1. Choosing \cup Holding \subseteq PC \ Outside
    BY DEF PC, Choosing, Holding, Session, Settling, Syncing, Outside
  <2>2. ASSUME NEW r, End(w, r) PROVE \E p \in PC \ Outside : Goto(w, p)
    BY <2>1, <2>2, Zenon DEF End, Holding, Settling
  <2>3. CASE Check(w) \/ Skip(w) \/ Pick(w) \/ GiveUp(w) \/ Claim(w) \/ ChoosingFails(w)
    <3>1. pc[w] \in Choosing
      BY <2>3 DEF Check, Skip, Pick, GiveUp, Claim, ChoosingFails, MayLook, Choosing
    <3>2. {"scan", "cand", "taken"} \subseteq PC \ Outside
      BY DEF PC, Choosing, Holding, Session, Outside
    <3>3. \/ Leave(w)
          \/ currentRunning' = currentRunning /\ \E p \in PC \ Outside : Goto(w, p)
          \/ currentRunning' = currentRunning /\ pc' = pc
      BY <2>3, <3>2 DEF Check, Skip, Pick, GiveUp, Claim, ChoosingFails
    <3> QED BY <2>1, <3>1, <3>3, InsideSlots
  <2>4. CASE InPortal(w)
    <3>1. pc[w] \in Session
      BY <2>4 DEF InPortal, NoPdfService, NoPdfServiceFails, EarlyEnd, ReadForPath, SavePath,
                  SavingFails, LateEnd, FileAtPortal, AfterFiling, Session
    <3>2. {"saving", "attached", "submitted"} \subseteq PC \ Outside
      BY DEF PC, Holding, Session, Outside
    <3>3. \/ Leave(w)
          \/ currentRunning' = currentRunning /\ \E p \in PC \ Outside : Goto(w, p)
      BY <2>2, <2>4, <3>2 DEF InPortal, NoPdfService, NoPdfServiceFails, Abandon, EarlyEnd,
                              ReadForPath, SavePath, SavingFails, LateEnd, FileAtPortal,
                              AfterFiling
    <3> QED BY <2>1, <3>1, <3>3, InsideSlots DEF Holding
  <2>5. CASE Settle(w)
    <3>1. pc[w] \in Settling
      BY <2>5 DEF Settle, Refresh, Finish, WriteFails, SyncStep, SyncFails, ReadAfterError,
                  SaveNovedad, CatchFails, Settling
    <3>2. {"writing", "failing", "ext1", "ext2", "ext3"} \subseteq PC \ Outside
      BY DEF PC, Holding, Settling, Syncing, Outside
    <3>3. CASE Finish(w)
      <4>1. \/ Leave(w)
            \/ currentRunning' = currentRunning /\ Goto(w, "ext1")
        BY <3>3 DEF Finish
      <4> QED BY <2>1, <3>1, <3>2, <4>1, InsideSlots DEF Holding
    <3>4. CASE SyncStep(w)
      <4>1. \/ Leave(w)
            \/ currentRunning' = currentRunning /\ \E p \in {"ext2", "ext3"} : Goto(w, p)
        BY <3>4, SyncStepEnds
      <4> QED BY <2>1, <3>1, <3>2, <4>1, InsideSlots DEF Holding
    <3>5. CASE Refresh(w) \/ WriteFails(w) \/ SyncFails(w) \/ ReadAfterError(w)
               \/ SaveNovedad(w) \/ CatchFails(w)
      <4>1. \/ Leave(w)
            \/ currentRunning' = currentRunning /\ \E p \in PC \ Outside : Goto(w, p)
        BY <2>2, <3>2, <3>5 DEF Refresh, WriteFails, SyncFails, ReadAfterError, SaveNovedad,
                                CatchFails, Abandon
      <4> QED BY <2>1, <3>1, <4>1, InsideSlots DEF Holding
    <3> QED BY <2>5, <3>3, <3>4, <3>5 DEF Settle
  <2> QED BY <1>2, <2>3, <2>4, <2>5 DEF Worker, Choose
<1> QED BY <1>1, <1>2

\* No path out of runOnce keeps a slot or gives one back twice, for any number
\* of workers.
THEOREM SlotsAreCounted == Spec => []SlotsMatch
<1>1. Init => SlotsInv
  <2> SUFFICES ASSUME Init PROVE SlotsInv
    OBVIOUS
  <2>1. Inside = {}
    BY DEF Init, Inside, Outside
  <2> QED BY <2>1, FS_EmptySet DEF Init, SlotsInv
<1>2. TypeOK /\ SlotsInv /\ [Next]_vars => SlotsInv'
  <2> SUFFICES ASSUME TypeOK, SlotsInv, [Next]_vars PROVE SlotsInv'
    OBVIOUS
  <2>1. ASSUME NEW d \in Demands,
               \/ Arrive(d) \/ OperatorPost(d) \/ PutFinds(d) \/ OperatorPut(d)
               \/ OperatorDelete(d) \/ Age(d)
        PROVE  SlotsInv'
    <3>1. pc' = pc /\ currentRunning' = currentRunning
      BY <2>1 DEF Arrive, OperatorPost, PutFinds, OperatorPut, OperatorDelete, Age
    <3> QED BY <3>1, SlotKept DEF Inside
  <2>2. CASE Environment \/ UNCHANGED vars
    <3>1. pc' = pc /\ currentRunning' = currentRunning
      BY <2>2 DEF Environment, vars
    <3> QED BY <3>1, SlotKept DEF Inside
  <2>3. CASE Crash
    <3>1. Inside' = {} /\ currentRunning' = 0
      BY <2>3 DEF Crash, Inside, Outside
    <3> QED BY <3>1, FS_EmptySet DEF SlotsInv
  <2> QED BY <2>1, <2>2, <2>3, WorkerSlots DEF Next
<1>3. SlotsInv => SlotsMatch
  BY DEF SlotsInv, SlotsMatch, Inside
<1> QED BY <1>1, <1>2, <1>3, TypeCorrect, PTL DEF Spec

----------------------------------------------------------------------------
(* The queue implements the lease, whatever operators do.                   *)

\* What each status is to the lease.
LEMMA Stages ==
    /\ StageOf("none") = "absent" /\ StageOf("deleted") = "deleted"
    /\ StageOf("Abierta") = "pending" /\ StageOf("Novedad") = "pending"
    /\ StageOf("En proceso") = "taken"
    /\ StageOf("Registrada") = "done"
BY DEF StageOf, Pending

\* The lease of a demand is its only holder's, before a step and after it, and
\* nobody's when an operator overrode the demand.
LEMMA Owners ==
    ASSUME IInv, IInv', NEW d \in Demands
    PROVE  /\ \A w \in Workers : d \notin overridden /\ Holds(w, d) => LeaseOwner[d] = w
           /\ d \in overridden \/ ~Held(d) => LeaseOwner[d] = NoWorker
           /\ \A w \in Workers : d \notin overridden' /\ Holds(w, d)' => LeaseOwner'[d] = w
           /\ d \in overridden' \/ ~Held(d)' => LeaseOwner'[d] = NoWorker
<1>1. /\ d \notin overridden =>
            \A w, v \in Workers : Holds(w, d) /\ Holds(v, d) => w = v
      /\ d \notin overridden' =>
            \A w, v \in Workers : Holds(w, d)' /\ Holds(v, d)' => w = v
  BY DEF IInv, DemandInv
<1>2. /\ LeaseOwner[d] = IF d \notin overridden /\ Held(d)
                           THEN CHOOSE w \in Workers : Holds(w, d) ELSE NoWorker
      /\ LeaseOwner'[d] = IF d \notin overridden' /\ Held(d)'
                            THEN CHOOSE w \in Workers : Holds(w, d)' ELSE NoWorker
  BY DEF LeaseOwner, Leased
<1>3. ASSUME NEW w \in Workers, d \notin overridden, Holds(w, d) PROVE LeaseOwner[d] = w
  <2>1. Held(d)
    BY <1>3 DEF Held
  <2> QED BY <1>1, <1>2, <1>3, <2>1, Zenon
<1>4. ASSUME NEW w \in Workers, d \notin overridden', Holds(w, d)' PROVE LeaseOwner'[d] = w
  <2>1. Held(d)'
    BY <1>4 DEF Held
  <2> QED BY <1>1, <1>2, <1>4, <2>1, Zenon
<1> QED BY <1>2, <1>3, <1>4

\* What the lease sees of a demand, overridden or not, before a step and after it.
LEMMA StageSeen ==
    ASSUME NEW d \in Demands
    PROVE  /\ LeaseStage[d] = IF d \in overridden THEN "withdrawn" ELSE StageOf(row[d].status)
           /\ LeaseStage'[d] = IF d \in overridden' THEN "withdrawn" ELSE StageOf(row'[d].status)
BY DEF LeaseStage

LEMMA FiledSeen ==
    ASSUME NEW d \in Demands
    PROVE  /\ d \notin overridden /\ filings[d] >= 1 => LeaseFiled[d] = TRUE
           /\ d \in overridden \/ filings[d] = 0 => LeaseFiled[d] = FALSE
           /\ d \notin overridden' /\ filings'[d] >= 1 => LeaseFiled'[d] = TRUE
           /\ d \in overridden' \/ filings'[d] = 0 => LeaseFiled'[d] = FALSE
           /\ (d \in overridden' <=> d \in overridden) /\ filings'[d] = filings[d]
                 => LeaseFiled'[d] = LeaseFiled[d]
<1>1. /\ LeaseFiled[d] = (d \notin overridden /\ filings[d] >= 1)
      /\ LeaseFiled'[d] = (d \notin overridden' /\ filings'[d] >= 1)
  BY Zenon DEF LeaseFiled
<1>2. /\ filings[d] = 0 => ~(filings[d] >= 1)
      /\ filings'[d] = 0 => ~(filings'[d] >= 1)
  OBVIOUS
<1>3. /\ d \notin overridden /\ filings[d] >= 1 => LeaseFiled[d] = TRUE
      /\ d \in overridden \/ filings[d] = 0 => LeaseFiled[d] = FALSE
  BY <1>1, <1>2, Zenon
<1>4. /\ d \notin overridden' /\ filings'[d] >= 1 => LeaseFiled'[d] = TRUE
      /\ d \in overridden' \/ filings'[d] = 0 => LeaseFiled'[d] = FALSE
  BY <1>1, <1>2, Zenon
<1>5. (d \in overridden' <=> d \in overridden) /\ filings'[d] = filings[d]
         => LeaseFiled'[d] = LeaseFiled[d]
  BY <1>1, Zenon
<1> QED BY <1>3, <1>4, <1>5

\* A demand the lease sees no step of: it stays overridden, or it keeps its
\* status, its filing and its holders.
Unseen(d) ==
    \/ d \in overridden /\ d \in overridden'
    \/ /\ d \notin overridden /\ d \notin overridden'
       /\ row'[d].status = row[d].status
       /\ filings'[d] = filings[d]
       /\ \A v \in Workers : Holds(v, d)' <=> Holds(v, d)

LEMMA LeaseKept ==
    ASSUME IInv, IInv', NEW d \in Demands, Unseen(d)
    PROVE  /\ LeaseStage'[d] = LeaseStage[d]
           /\ LeaseOwner'[d] = LeaseOwner[d]
           /\ LeaseFiled'[d] = LeaseFiled[d]
<1>1. CASE d \in overridden /\ d \in overridden'
  BY <1>1, StageSeen, FiledSeen, Owners
<1>2. CASE /\ d \notin overridden /\ d \notin overridden'
           /\ row'[d].status = row[d].status
           /\ filings'[d] = filings[d]
           /\ \A v \in Workers : Holds(v, d)' <=> Holds(v, d)
  <2>1. LeaseStage'[d] = LeaseStage[d] /\ LeaseFiled'[d] = LeaseFiled[d]
    BY <1>2, StageSeen, FiledSeen
  <2>2. CASE Held(d)
    <3>1. PICK v \in Workers : Holds(v, d) /\ Holds(v, d)'
      BY <1>2, <2>2 DEF Held
    <3>2. LeaseOwner[d] = v /\ LeaseOwner'[d] = v
      BY <1>2, <3>1, Owners
    <3> QED BY <2>1, <3>2
  <2>3. CASE ~Held(d)
    <3>1. ~Held(d)'
      BY <1>2, <2>3 DEF Held
    <3> QED BY <2>1, <2>3, <3>1, Owners
  <2> QED BY <2>2, <2>3
<1> QED BY <1>1, <1>2 DEF Unseen

\* A step that the lease sees nowhere leaves it alone.
LEMMA LeaseSame ==
    ASSUME IInv, IInv', \A d \in Demands : Unseen(d)
    PROVE  UNCHANGED <<LeaseStage, LeaseOwner, LeaseFiled>>
<1>1. \A d \in Demands : /\ LeaseStage'[d] = LeaseStage[d]
                         /\ LeaseOwner'[d] = LeaseOwner[d]
                         /\ LeaseFiled'[d] = LeaseFiled[d]
  BY LeaseKept
<1>2. LeaseStage' = LeaseStage
  BY <1>1, Zenon DEF LeaseStage
<1>3. LeaseOwner' = LeaseOwner
  BY <1>1, Zenon DEF LeaseOwner
<1>4. LeaseFiled' = LeaseFiled
  BY <1>1, Zenon DEF LeaseFiled
<1> QED BY <1>2, <1>3, <1>4

\* A step that the lease sees of one demand alone is an update of that demand.
LEMMA LeaseUpdate ==
    ASSUME IInv, IInv', NEW d \in Demands, \A e \in Demands \ {d} : Unseen(e),
           NEW s, NEW o, NEW f,
           LeaseStage'[d] = s, LeaseOwner'[d] = o, LeaseFiled'[d] = f
    PROVE  /\ LeaseStage' = [LeaseStage EXCEPT ![d] = s]
           /\ LeaseOwner' = [LeaseOwner EXCEPT ![d] = o]
           /\ LeaseFiled' = [LeaseFiled EXCEPT ![d] = f]
           /\ LeaseStage[d] = s => LeaseStage' = LeaseStage
           /\ LeaseOwner[d] = o => LeaseOwner' = LeaseOwner
           /\ LeaseFiled[d] = f => LeaseFiled' = LeaseFiled
<1>1. \A e \in Demands \ {d} : /\ LeaseStage'[e] = LeaseStage[e]
                               /\ LeaseOwner'[e] = LeaseOwner[e]
                               /\ LeaseFiled'[e] = LeaseFiled[e]
  BY LeaseKept
<1>2. /\ LeaseStage = [e \in Demands |-> LeaseStage[e]]
      /\ LeaseStage' = [e \in Demands |-> LeaseStage'[e]]
  BY DEF LeaseStage
<1>3. /\ LeaseOwner = [e \in Demands |-> LeaseOwner[e]]
      /\ LeaseOwner' = [e \in Demands |-> LeaseOwner'[e]]
  BY DEF LeaseOwner
<1>7. /\ LeaseFiled = [e \in Demands |-> LeaseFiled[e]]
      /\ LeaseFiled' = [e \in Demands |-> LeaseFiled'[e]]
  <2> DEFINE F(e) == e \notin overridden /\ filings[e] >= 1
  <2> DEFINE G(e) == e \notin overridden' /\ filings'[e] >= 1
  <2>1. LeaseFiled = [e \in Demands |-> F(e)] /\ LeaseFiled' = [e \in Demands |-> G(e)]
    BY DEF LeaseFiled
  <2> HIDE DEF F, G
  <2> QED BY <2>1
<1>4. LeaseStage' = [LeaseStage EXCEPT ![d] = s] /\ (LeaseStage[d] = s => LeaseStage' = LeaseStage)
  BY <1>1, <1>2
<1>5. LeaseOwner' = [LeaseOwner EXCEPT ![d] = o] /\ (LeaseOwner[d] = o => LeaseOwner' = LeaseOwner)
  BY <1>1, <1>3
<1>6. LeaseFiled' = [LeaseFiled EXCEPT ![d] = f] /\ (LeaseFiled[d] = f => LeaseFiled' = LeaseFiled)
  BY <1>1, <1>7
<1> QED BY <1>4, <1>5, <1>6

\* A step of a worker is seen of its own demand alone, and of none that an
\* operator overrode.
LEMMA WorkerUnseen ==
    ASSUME IInv, NEW w \in Workers, StepFrame(w)
    PROVE  /\ \A e \in Demands : e # item[w] => Unseen(e)
           /\ \A e \in Demands : e \in overridden => Unseen(e)
<1>1. ASSUME NEW e \in Demands, e # item[w]
      PROVE  /\ row'[e] = row[e] /\ filings'[e] = filings[e]
             /\ \A v \in Workers : Holds(v, e)' <=> Holds(v, e)
  BY <1>1, QueueAssumption DEF StepFrame, Holds
<1> QED BY <1>1 DEF Unseen, StepFrame

\* Before the claim the lease does not move; the claim takes it, or loses it when its
\* answer does not come.
LEMMA ChooseLease ==
    ASSUME IInv, IInv', NEW w \in Workers, Choose(w)
    PROVE  \/ UNCHANGED <<LeaseStage, LeaseOwner, LeaseFiled>>
           \/ \E d \in Demands : Lease!Take(w, d) \/ Lease!Lose(d)
<1>1. StepFrame(w) /\ TypeOK
  BY ChooseFrame DEF IInv
<1>2. CASE row' = row
  <2>1. pc[w] \notin Holding /\ pc'[w] \notin Holding /\ filings' = filings
        /\ overridden' = overridden
    BY <1>1, <1>2, ChooseIdle
  <2>2. \A d \in Demands, v \in Workers : Holds(v, d)' <=> Holds(v, d)
    BY <1>1, <2>1 DEF Holds, StepFrame
  <2>3. \A d \in Demands : Unseen(d)
    BY <1>2, <2>1, <2>2 DEF Unseen
  <2> QED BY <2>3, LeaseSame
<1>3. CASE item[w] \in overridden
  <2>1. \A d \in Demands : Unseen(d)
    BY <1>1, <1>3, WorkerUnseen
  <2> QED BY <2>1, LeaseSame
<1>4. CASE row' # row /\ item[w] \notin overridden
  <2>1. PICK d \in Demands : d = item[w]
    BY <1>1, <1>4, ChooseWrites
  <2>2. /\ pc[w] = "cand" /\ IsPending(d) /\ Save(d, "En proceso", "plain")
        /\ \/ pc'[w] = "taken" /\ item'[w] = d
           \/ pc'[w] = "loop"
        /\ filings' = filings /\ overridden' = overridden
    BY <1>1, <1>4, <2>1, ChooseWrites
  <2>3. row'[d].status = "En proceso"
    BY <1>1, <2>1, <2>2 DEF Save, Values, TypeOK
  <2>4. LeaseStage[d] = "pending"
    <3>1. row[d].status \in {"Abierta", "Novedad"}
      BY <2>2 DEF IsPending, Pending
    <3> QED BY <1>4, <2>1, <3>1, Stages, StageSeen
  <2>5. LeaseStage'[d] = "taken" /\ LeaseFiled'[d] = LeaseFiled[d]
    BY <1>4, <2>1, <2>2, <2>3, Stages, StageSeen, FiledSeen
  <2>6. \A e \in Demands \ {d} : Unseen(e)
    BY <1>1, <2>1, WorkerUnseen
  <2>7. CASE pc'[w] = "taken" /\ item'[w] = d
    <3>1. Holds(w, d)'
      BY <2>7 DEF Holds, Holding, Session
    <3>2. LeaseOwner'[d] = w
      BY <1>4, <2>1, <2>2, <3>1, Owners
    <3> QED BY <2>4, <2>5, <2>6, <3>2, LeaseUpdate DEF Lease!Take
  <2>8. CASE pc'[w] = "loop"
    <3>1. "loop" \notin Holding
      BY DEF Holding, Session, Settling, Syncing
    <3>2. \A v \in Workers : ~Holds(v, d)
      BY <1>4, <2>1, <2>2 DEF IInv, DemandInv, HolderInv, IsPending, Pending
    <3>3. ~Held(d) /\ ~Held(d)'
      BY <1>1, <2>8, <3>1, <3>2 DEF Held, Holds, StepFrame
    <3>4. LeaseOwner[d] = NoWorker /\ LeaseOwner'[d] = NoWorker
      BY <3>3, Owners
    <3> QED BY <2>4, <2>5, <2>6, <3>4, LeaseUpdate DEF Lease!Lose
  <2> QED BY <2>2, <2>7, <2>8
<1> QED BY <1>2, <1>3, <1>4

\* What the holder of a demand no operator overrode knows: the lease is its own
\* before the step, and after it as long as it holds the demand.
LEMMA HolderLease ==
    ASSUME IInv, IInv', NEW w \in Workers, StepFrame(w), pc[w] \in Holding,
           NEW d \in Demands, d = item[w], d \notin overridden
    PROVE  /\ LeaseOwner[d] = w
           /\ HolderInv(w, d)
           /\ LeaseStage[d] \in {"taken", "done", "deleted"}
           /\ pc[w] \in Session \cup {"report", "writing"}
                 => LeaseStage[d] \in {"taken", "deleted"}
           /\ pc'[w] \notin Holding => LeaseOwner'[d] = NoWorker
           /\ pc'[w] \in Holding /\ item'[w] = d => LeaseOwner'[d] = w
           /\ d \notin overridden' /\ \A e \in Demands \ {d} : Unseen(e)
<1>1. Holds(w, d) /\ TypeOK /\ DemandInv(d) /\ d \notin overridden'
  BY DEF Holds, IInv, StepFrame
<1>2. HolderInv(w, d)
  BY <1>1 DEF DemandInv
<1>3. /\ LeaseStage[d] \in {"taken", "done", "deleted"}
      /\ pc[w] \in Session \cup {"report", "writing"} => LeaseStage[d] \in {"taken", "deleted"}
  BY <1>2, StageSeen, Stages DEF HolderInv, Pending
<1>4. pc'[w] \notin Holding => LeaseOwner'[d] = NoWorker
  <2>1. pc'[w] \notin Holding => \A v \in Workers : ~Holds(v, d)'
    BY <1>1, OnlyHolder, Zenon
  <2> QED BY <2>1, Owners DEF Held
<1>5. pc'[w] \in Holding /\ item'[w] = d => LeaseOwner'[d] = w
  BY <1>1, Owners DEF Holds
<1> QED BY <1>1, <1>2, <1>3, <1>4, <1>5, Owners, WorkerUnseen

\* A step of the session, or of its settling, that keeps the demand in the same
\* status, filed or not, is no step of the lease.
LEMMA KeepsLease ==
    ASSUME IInv, IInv', NEW w \in Workers, StepFrame(w), NEW d \in Demands, d = item[w],
           pc[w] \in Holding, pc'[w] \in Holding, item'[w] = d,
           row'[d].status = row[d].status, filings'[d] = filings[d]
    PROVE  UNCHANGED <<LeaseStage, LeaseOwner, LeaseFiled>>
<1>1. \A v \in Workers : Holds(v, d)' <=> Holds(v, d)
  BY DEF Holds, StepFrame
<1>2. Unseen(d)
  BY <1>1 DEF Unseen, StepFrame
<1> QED BY <1>2, LeaseSame, WorkerUnseen

\* Opening the row again gives the lease up, and with it the filing.
LEMMA ReopensLease ==
    ASSUME IInv, IInv', NEW w \in Workers, StepFrame(w), pc[w] \in Holding,
           NEW d \in Demands, d = item[w], d \notin overridden,
           pc'[w] = "loop", row'[d].status = "Novedad", filings'[d] = 0
    PROVE  Lease!Reopen(w, d)
<1>1. pc'[w] \notin Holding
  BY DEF Holding, Session, Settling, Syncing
<1>2. /\ LeaseOwner[d] = w /\ LeaseOwner'[d] = NoWorker
      /\ d \notin overridden' /\ \A e \in Demands \ {d} : Unseen(e)
  BY <1>1, HolderLease
<1>3. LeaseStage'[d] = "pending"
  BY <1>2, StageSeen, Stages
<1>4. LeaseFiled'[d] = FALSE
  BY <1>2, FiledSeen
<1> QED BY <1>2, <1>3, <1>4, LeaseUpdate DEF Lease!Reopen

\* Leaving runOnce with the row as it was, or back in process, gives the lease up.
LEMMA ReleasesLease ==
    ASSUME IInv, IInv', NEW w \in Workers, StepFrame(w), pc[w] \in Holding,
           NEW d \in Demands, d = item[w], d \notin overridden,
           pc'[w] = "loop", filings'[d] = filings[d],
           \/ row'[d].status = row[d].status
           \/ pc[w] = "writing" /\ row'[d].status = "En proceso"
    PROVE  Lease!Release(w, d)
<1>1. pc'[w] \notin Holding
  BY DEF Holding, Session, Settling, Syncing
<1>2. /\ LeaseOwner[d] = w /\ LeaseOwner'[d] = NoWorker
      /\ pc[w] = "writing" => LeaseStage[d] \in {"taken", "deleted"}
      /\ d \notin overridden' /\ \A e \in Demands \ {d} : Unseen(e)
  BY <1>1, HolderLease
<1>3. LeaseFiled'[d] = LeaseFiled[d]
  BY <1>2, FiledSeen
<1>4. \/ LeaseStage'[d] = LeaseStage[d]
      \/ LeaseStage[d] = "deleted" /\ LeaseStage'[d] = "taken"
  BY <1>2, StageSeen, Stages
<1> QED BY <1>2, <1>3, <1>4, LeaseUpdate DEF Lease!Release

\* The session files under its lease, writes back a deleted row, gives the lease
\* up by opening the row, or keeps it.
LEMMA PortalLease ==
    ASSUME IInv, IInv', NEW w \in Workers, InPortal(w)
    PROVE  \/ UNCHANGED <<LeaseStage, LeaseOwner, LeaseFiled>>
           \/ \E d \in Demands : \/ Lease!File(w, d) \/ Lease!Restore(w, d)
                                 \/ Lease!Reopen(w, d) \/ Lease!Release(w, d)
<1>1. StepFrame(w) /\ TypeOK
  BY PortalFrame DEF IInv
<1>2. pc[w] \in Session /\ pc[w] \in Holding
  BY DEF InPortal, NoPdfService, NoPdfServiceFails, EarlyEnd, ReadForPath, SavePath,
         SavingFails, LateEnd, FileAtPortal, AfterFiling, Session, Holding
<1>3. PICK d \in Demands : d = item[w]
  BY <1>1, <1>2 DEF TypeOK
<1>4. CASE d \in overridden
  <2>1. \A e \in Demands : Unseen(e)
    BY <1>1, <1>3, <1>4, WorkerUnseen
  <2> QED BY <2>1, LeaseSame
<1>5. CASE d \notin overridden
  <2>1. /\ HolderInv(w, d) /\ LeaseOwner[d] = w /\ LeaseStage[d] \in {"taken", "deleted"}
        /\ d \notin overridden' /\ \A e \in Demands \ {d} : Unseen(e)
        /\ pc'[w] \in Holding /\ item'[w] = d => LeaseOwner'[d] = w
    BY <1>1, <1>2, <1>3, <1>5, HolderLease
  <2>2. CASE NoPdfService(w)
    <3>1. Save(d, "Novedad", "plain") /\ Leave(w) /\ filings' = [filings EXCEPT ![d] = 0]
      BY <1>3, <2>2 DEF NoPdfService
    <3>2. pc'[w] = "loop" /\ row'[d].status = "Novedad" /\ filings'[d] = 0
      BY <1>1, <3>1 DEF Save, Values, Leave, Goto, TypeOK
    <3> QED BY <1>1, <1>2, <1>3, <1>5, <3>2, ReopensLease
  <2>3. CASE FileAtPortal(w)
    <3>1. pc[w] = "attached" /\ pc'[w] = "submitted" /\ item' = item /\ row' = row
      BY <1>1, <2>3 DEF FileAtPortal, Goto, TypeOK
    <3>2. filings[d] = 0 /\ filings'[d] = 1
      <4>1. filings[d] = 0
        BY <2>1, <3>1 DEF HolderInv
      <4>2. filings' = [filings EXCEPT ![d] = IF @ < 2 THEN @ + 1 ELSE 2]
        BY <1>3, <2>3 DEF FileAtPortal
      <4> QED BY <1>1, <4>1, <4>2 DEF TypeOK
    <3>3. LeaseOwner'[d] = w
      BY <1>3, <2>1, <3>1 DEF Holding, Session
    <3>4. LeaseStage'[d] = LeaseStage[d]
      BY <1>5, <2>1, <3>1, StageSeen
    <3>5. ~LeaseFiled[d]
      BY <3>2, FiledSeen
    <3>6. LeaseFiled'[d] = TRUE
      <4>1. filings'[d] >= 1
        BY <3>2
      <4> QED BY <2>1, <4>1, FiledSeen
    <3>7. /\ LeaseStage' = LeaseStage /\ LeaseOwner' = LeaseOwner
          /\ LeaseFiled' = [LeaseFiled EXCEPT ![d] = TRUE]
      BY <2>1, <3>3, <3>4, <3>6, LeaseUpdate
    <3> QED BY <2>1, <3>5, <3>7 DEF Lease!File
  <2>4. CASE SavePath(w)
    <3>1. /\ Values(d, snap[w].status, snap[w].note) /\ snap[w].status = "En proceso"
          /\ pc[w] = "saving"
      BY <1>3, <2>1, <2>4 DEF SavePath, HolderInv
    <3>2. /\ row'[d].status = "En proceso" /\ pc'[w] = "attached" /\ item' = item
          /\ filings' = filings
      <4>1. row'[d].status = "En proceso"
        BY <1>1, <3>1 DEF Save, Values, TypeOK
      <4>2. pc'[w] = "attached" /\ item' = item /\ filings' = filings
        BY <1>1, <2>4 DEF SavePath, Goto, TypeOK, history
      <4> QED BY <4>1, <4>2
    <3>3. LeaseOwner'[d] = w
      BY <1>3, <2>1, <3>2 DEF Holding, Session
    <3>4. LeaseStage'[d] = "taken" /\ LeaseFiled'[d] = LeaseFiled[d]
      BY <1>5, <2>1, <3>2, StageSeen, FiledSeen, Stages
    <3>5. /\ LeaseStage' = [LeaseStage EXCEPT ![d] = "taken"]
          /\ LeaseStage[d] = "taken" => LeaseStage' = LeaseStage
          /\ LeaseOwner' = LeaseOwner /\ LeaseFiled' = LeaseFiled
      BY <2>1, <3>3, <3>4, LeaseUpdate
    <3> QED BY <2>1, <3>5 DEF Lease!Restore
  <2>5. CASE EarlyEnd(w) \/ ReadForPath(w) \/ SavingFails(w) \/ LateEnd(w) \/ AfterFiling(w)
    <3>1. /\ pc'[w] \in {"saving", "report", "failed"} /\ item' = item
          /\ filings' = filings /\ row' = row
      BY <1>1, <2>5 DEF EarlyEnd, ReadForPath, SavingFails, LateEnd, AfterFiling, End,
                        Goto, TypeOK, history
    <3>2. pc'[w] \in Holding
      BY <3>1 DEF Holding, Session, Settling
    <3> QED BY <1>1, <1>2, <1>3, <3>1, <3>2, KeepsLease
  <2>6. CASE NoPdfServiceFails(w)
    <3>1. pc'[w] = "loop" /\ row' = row /\ filings' = filings
      BY <1>1, <2>6 DEF NoPdfServiceFails, Abandon, Leave, Goto, TypeOK
    <3> QED BY <1>1, <1>2, <1>3, <1>5, <3>1, ReleasesLease
  <2> QED BY <2>2, <2>3, <2>4, <2>5, <2>6 DEF InPortal
<1> QED BY <1>4, <1>5

\* Settling completes a demand that was filed, or gives the lease up.
LEMMA SettleLease ==
    ASSUME IInv, IInv', NEW w \in Workers, Settle(w)
    PROVE  \/ UNCHANGED <<LeaseStage, LeaseOwner, LeaseFiled>>
           \/ \E d \in Demands : Lease!Complete(w, d) \/ Lease!Reopen(w, d) \/ Lease!Release(w, d)
<1>1. StepFrame(w) /\ TypeOK
  BY SettleFrame DEF IInv
<1>2. pc[w] \in Holding
  BY DEF Settle, Refresh, Finish, WriteFails, SyncStep, SyncFails, ReadAfterError, SaveNovedad,
         CatchFails, Settling, Syncing, Holding
<1>3. PICK d \in Demands : d = item[w]
  BY <1>1, <1>2 DEF TypeOK
<1>4. CASE d \in overridden
  <2>1. \A e \in Demands : Unseen(e)
    BY <1>1, <1>3, <1>4, WorkerUnseen
  <2> QED BY <2>1, LeaseSame
<1>5. CASE d \notin overridden
  <2>1. /\ HolderInv(w, d) /\ LeaseOwner[d] = w
        /\ pc[w] = "writing" => LeaseStage[d] \in {"taken", "deleted"}
        /\ d \notin overridden' /\ \A e \in Demands \ {d} : Unseen(e)
        /\ pc'[w] \in Holding /\ item'[w] = d => LeaseOwner'[d] = w
    BY <1>1, <1>2, <1>3, <1>5, HolderLease
  <2>2. ASSUME pc'[w] \in Settling, item' = item, row' = row, filings' = filings
        PROVE  UNCHANGED <<LeaseStage, LeaseOwner, LeaseFiled>>
    BY <1>1, <1>2, <1>3, <2>2, KeepsLease DEF Holding
  <2>3. ASSUME NEW n, Save(d, "Novedad", n), Leave(w), filings' = [filings EXCEPT ![d] = 0]
        PROVE  Lease!Reopen(w, d)
    <3>1. pc'[w] = "loop" /\ row'[d].status = "Novedad" /\ filings'[d] = 0
      BY <1>1, <2>3 DEF Save, Values, Leave, Goto, TypeOK
    <3> QED BY <1>1, <1>2, <1>3, <1>5, <3>1, ReopensLease
  <2>4. ASSUME \/ row'[d].status = row[d].status
               \/ pc[w] = "writing" /\ row'[d].status = "En proceso",
               Leave(w), filings' = filings
        PROVE  Lease!Release(w, d)
    <3>1. pc'[w] = "loop"
      BY <1>1, <2>4 DEF Leave, Goto, TypeOK
    <3> QED BY <1>1, <1>2, <1>3, <1>5, <2>4, <3>1, ReleasesLease
  <2>5. CASE Finish(w)
    <3>1. pc[w] = "writing"
      BY <2>5 DEF Finish
    <3>2. CASE outcome[w] = "registered"
      <4>1. Save(d, "Registrada", "plain") /\ Goto(w, "ext1") /\ item' = item /\ filings' = filings
        BY <1>3, <2>5, <3>2 DEF Finish, history
      <4>2. row'[d].status = "Registrada" /\ pc'[w] = "ext1"
        BY <1>1, <4>1 DEF Save, Values, Goto, TypeOK
      <4>3. LeaseOwner'[d] = w
        BY <1>3, <2>1, <4>1, <4>2 DEF Holding, Settling, Syncing
      <4>4. LeaseStage'[d] = "done" /\ LeaseFiled'[d] = LeaseFiled[d]
        BY <1>5, <2>1, <4>1, <4>2, StageSeen, FiledSeen, Stages
      <4>5. /\ LeaseStage' = [LeaseStage EXCEPT ![d] = "done"]
            /\ LeaseOwner' = LeaseOwner /\ LeaseFiled' = LeaseFiled
        BY <2>1, <4>3, <4>4, LeaseUpdate
      <4>6. LeaseFiled[d] \/ Simulated
        <5>1. Simulated \/ filings[d] >= 1
          BY <2>1, <3>1, <3>2 DEF HolderInv
        <5> QED BY <1>5, <5>1, FiledSeen
      <4> QED BY <2>1, <3>1, <4>5, <4>6 DEF Lease!Complete
    <3>3. CASE outcome[w] = "parked"
      <4>1. Save(d, "En proceso", "plain") /\ Leave(w) /\ filings' = filings
        BY <1>3, <2>5, <3>3 DEF Finish
      <4>2. row'[d].status = "En proceso"
        BY <1>1, <4>1 DEF Save, Values, TypeOK
      <4> QED BY <2>4, <3>1, <4>1, <4>2
    <3>4. CASE outcome[w] \notin {"registered", "parked"}
      <4>1. Save(d, "Novedad", "plain") /\ Leave(w) /\ filings' = [filings EXCEPT ![d] = 0]
        BY <1>3, <2>5, <3>4 DEF Finish
      <4> QED BY <2>3, <4>1
    <3> QED BY <3>2, <3>3, <3>4
  <2>6. CASE SyncStep(w)
    <3>1. row' = row /\ filings' = filings
      BY <2>6 DEF SyncStep, history
    <3>2. CASE Leave(w)
      BY <2>4, <3>1, <3>2
    <3>3. CASE (\E p \in {"ext2", "ext3"} : Goto(w, p)) /\ item' = item
      <4>1. pc'[w] \in Settling
        BY <1>1, <3>3 DEF Goto, TypeOK, Settling, Syncing
      <4> QED BY <2>2, <3>1, <3>3, <4>1
    <3> QED BY <2>6, <3>2, <3>3, SyncStepEnds
  <2>7. CASE Refresh(w) \/ WriteFails(w) \/ SyncFails(w)
    <3>1. pc'[w] \in {"writing", "failed"} /\ item' = item /\ row' = row /\ filings' = filings
      BY <1>1, <2>7 DEF Refresh, WriteFails, SyncFails, End, Goto, Returned, TypeOK, history
    <3> QED BY <2>2, <3>1 DEF Settling
  <2>8. CASE ReadAfterError(w)
    <3>1. row' = row /\ filings' = filings
      BY <2>8 DEF ReadAfterError, history
    <3>2. CASE Leave(w)
      BY <2>4, <3>1, <3>2
    <3>3. CASE Goto(w, "failing") /\ item' = item
      <4>1. pc'[w] \in Settling
        BY <1>1, <3>3 DEF Goto, TypeOK, Settling
      <4> QED BY <2>2, <3>1, <3>3, <4>1
    <3> QED BY <2>8, <3>2, <3>3 DEF ReadAfterError
  <2>9. CASE SaveNovedad(w)
    <3>1. PICK n : Save(d, "Novedad", n)
      BY <1>3, <2>9 DEF SaveNovedad
    <3> QED BY <1>3, <2>3, <2>9, <3>1 DEF SaveNovedad
  <2>10. CASE CatchFails(w)
    <3>1. Leave(w) /\ row' = row /\ filings' = filings
      BY <2>10 DEF CatchFails, Abandon
    <3> QED BY <2>4, <3>1
  <2> QED BY <2>5, <2>6, <2>7, <2>8, <2>9, <2>10 DEF Settle
<1> QED BY <1>4, <1>5

\* A call that writes one row and moves no worker is seen of that row alone.
LEMMA CallUnseen ==
    ASSUME IInv, NEW d \in Demands, UNCHANGED <<pc, item>>,
           \A e \in Demands \ {d} : /\ row'[e] = row[e] /\ filings'[e] = filings[e]
                                    /\ e \in overridden' <=> e \in overridden
    PROVE  /\ \A e \in Demands \ {d} : Unseen(e)
           /\ Held(d)' <=> Held(d)
<1>1. \A e \in Demands, v \in Workers : Holds(v, e)' <=> Holds(v, e)
  BY DEF Holds
<1>2. Held(d)' <=> Held(d)
  BY <1>1 DEF Held
<1> QED BY <1>1, <1>2 DEF Unseen

\* A row that was not there is pending afterwards: the demand is opened.
LEMMA OpensLease ==
    ASSUME IInv, IInv', NEW d \in Demands, row[d].status = "none",
           row'[d].status \in Pending, d \notin overridden, d \notin overridden',
           UNCHANGED <<pc, item, filings>>, \A e \in Demands \ {d} : Unseen(e)
    PROVE  Lease!Open(d)
<1>1. LeaseStage[d] = "absent" /\ LeaseStage'[d] = "pending"
  BY StageSeen, Stages DEF Pending
<1>2. LeaseFiled'[d] = LeaseFiled[d]
  BY FiledSeen
<1>3. ~Held(d) /\ ~Held(d)'
  <2>1. \A v \in Workers : ~Holds(v, d)
    BY DEF IInv, DemandInv, HolderInv
  <2>2. \A v \in Workers : ~Holds(v, d)'
    BY <2>1 DEF Holds
  <2> QED BY <2>1, <2>2 DEF Held
<1>4. LeaseOwner'[d] = LeaseOwner[d]
  BY <1>3, Owners
<1> QED BY <1>1, <1>2, <1>4, LeaseUpdate DEF Lease!Open

\* A PUT in progress is of a row that was in the table, and stays there or becomes
\* deleted; and a worker saves only what it read of such a row.
EditInv ==
    /\ \A d \in editing : row[d].status # "none" /\ "put" \in Operator
    /\ \A w \in Workers : pc[w] = "saving" => snap[w].status # "none"

\* No step takes a row that is there out of the table without a trace.
LEMMA EditKept == ASSUME TypeOK, EditInv, [Next]_vars PROVE EditInv'
<1>1. ASSUME \A d \in Demands : row[d].status # "none" => row'[d].status # "none",
             editing' \subseteq editing,
             \A w \in Workers : pc'[w] = "saving" =>
                snap'[w].status # "none" \/ (pc[w] = "saving" /\ snap'[w] = snap[w])
      PROVE  EditInv'
  <2>1. editing \subseteq Demands
    BY DEF TypeOK
  <2> QED BY <1>1, <2>1 DEF EditInv
<1>2. ASSUME NEW d \in Demands, NEW st \in Statuses, NEW n, Values(d, st, n)
      PROVE  \A e \in Demands : row[e].status # "none" => row'[e].status # "none"
  <2>1. st # "none"
    BY DEF Statuses, Pending
  <2> QED BY <1>2, <2>1 DEF Values, TypeOK
<1>3. {"Abierta", "Novedad", "En proceso", "Registrada"} \subseteq Statuses
  BY DEF Statuses, Pending
<1>4. ASSUME NEW w \in Workers, Worker(w) PROVE EditInv'
  <2>1. editing' = editing
    BY <1>4 DEF Worker, Choose, Wake, Gate, Check, Skip, Pick, GiveUp, Claim, ChoosingFails,
           InPortal, NoPdfService, NoPdfServiceFails, Abandon, EarlyEnd, ReadForPath, SavePath,
           SavingFails, LateEnd, FileAtPortal, AfterFiling, Settle, Refresh, Finish, WriteFails,
           SyncStep, SyncFails, ReadAfterError, SaveNovedad, CatchFails, env
  <2>2. StepFrame(w)
    BY <1>4, ChooseFrame, PortalFrame, SettleFrame DEF Worker
  <2>3. ASSUME NEW d \in Demands, row[d].status # "none" PROVE row'[d].status # "none"
    <3>1. CASE d # item[w]
      BY <2>2, <2>3, <3>1 DEF StepFrame
    <3>2. CASE d = item[w] /\ row' # row
      <4>1. CASE Choose(w)
        BY <1>2, <1>3, <2>3, <3>2, <4>1, ChooseWrites DEF Save
      <4>2. CASE InPortal(w)
        <5>1. CASE NoPdfService(w)
          BY <1>2, <1>3, <2>3, <3>2, <5>1 DEF NoPdfService, Save
        <5>2. CASE SavePath(w)
          BY <2>3, <3>2, <5>2 DEF SavePath, Values, TypeOK, EditInv
        <5> QED BY <3>2, <4>2, <5>1, <5>2 DEF InPortal, NoPdfServiceFails, Abandon, EarlyEnd,
                    ReadForPath, SavingFails, LateEnd, FileAtPortal, AfterFiling
      <4>3. CASE Settle(w)
        <5>1. CASE Finish(w)
          <6>1. \E st \in Statuses : Values(d, st, "plain")
            BY <1>3, <3>2, <5>1 DEF Finish, Save
          <6> QED BY <1>2, <2>3, <6>1
        <5>2. CASE SaveNovedad(w)
          <6>1. \E n : Values(d, "Novedad", n)
            BY <3>2, <5>2 DEF SaveNovedad, Save
          <6> QED BY <1>2, <1>3, <2>3, <6>1
        <5> QED BY <3>2, <4>3, <5>1, <5>2 DEF Settle, Refresh, WriteFails, SyncStep, SyncFails,
                    ReadAfterError, CatchFails, Abandon
      <4> QED BY <1>4, <4>1, <4>2, <4>3 DEF Worker
    <3> QED BY <2>3, <3>1, <3>2
  <2>4. ASSUME pc'[w] = "saving" PROVE snap'[w].status # "none"
    <3>1. ReadForPath(w)
      <4>1. CASE Choose(w)
        BY <2>4, <4>1 DEF Choose, Wake, Gate, Check, Skip, MayLook, Pick, GiveUp, Claim,
                          ChoosingFails, Leave, Goto, TypeOK
      <4>2. CASE InPortal(w)
        BY <2>4, <4>2 DEF InPortal, NoPdfService, NoPdfServiceFails, Abandon, EarlyEnd, SavePath,
                          SavingFails, LateEnd, FileAtPortal, AfterFiling, End, Leave, Goto, TypeOK
      <4>3. CASE Finish(w)
        BY <2>4, <4>3 DEF Finish, Leave, Goto, TypeOK
      <4>4. CASE SyncStep(w)
        BY <2>4, <4>4, SyncStepEnds DEF Leave, Goto, TypeOK
      <4>5. CASE Settle(w) /\ ~Finish(w) /\ ~SyncStep(w)
        BY <2>4, <4>5 DEF Settle, Refresh, WriteFails, SyncFails, ReadAfterError, SaveNovedad,
                          CatchFails, Abandon, End, Leave, Goto, TypeOK
      <4> QED BY <1>4, <4>1, <4>2, <4>3, <4>4, <4>5 DEF Worker
    <3>2. item[w] \in Demands
      BY <3>1 DEF ReadForPath, TypeOK, Holding, Session
    <3>3. snap'[w] = row[item[w]] /\ Exists(item[w])
      BY <2>4, <3>1, <3>2 DEF ReadForPath, End, Goto, TypeOK
    <3> QED BY <3>3 DEF Exists, Statuses, Pending
  <2> QED BY <1>1, <2>1, <2>2, <2>3, <2>4 DEF StepFrame
<1>5. ASSUME NEW d \in Demands, Arrive(d) \/ OperatorPost(d) \/ OperatorPut(d) PROVE EditInv'
  <2>1. \E st \in Statuses : Values(d, st, "plain")
    BY <1>3, <1>5 DEF Arrive, OperatorPost, OperatorPut, Save
  <2>2. editing' \subseteq editing /\ UNCHANGED <<pc, snap>>
    BY <1>5 DEF Arrive, OperatorPost, OperatorPut, env
  <2> QED BY <1>1, <1>2, <2>1, <2>2
<1>6. ASSUME NEW d \in Demands, PutFinds(d) PROVE EditInv'
  <2>1. "put" \in Operator /\ row[d].status # "none"
    BY <1>6 DEF PutFinds, Exists, Statuses, Pending
  <2> QED BY <1>6, <2>1 DEF PutFinds, EditInv
<1>7. ASSUME NEW d \in Demands, OperatorDelete(d) PROVE EditInv'
  <2>1. \A e \in Demands : row[e].status # "none" => row'[e].status # "none"
    BY <1>7 DEF OperatorDelete, TypeOK, RowVal
  <2> QED BY <1>1, <1>7, <2>1 DEF OperatorDelete, env
<1>8. CASE Crash
  BY <1>8 DEF Crash, EditInv
<1>9. CASE Environment \/ UNCHANGED vars \/ \E d \in Demands : Age(d)
  <2>1. UNCHANGED <<editing, row, pc, snap>>
    BY <1>9 DEF Environment, vars, Age, env
  <2> QED BY <2>1 DEF EditInv
<1> QED BY <1>4, <1>5, <1>6, <1>7, <1>8, <1>9 DEF Next

\* See EditInv.
LEMMA EditsAreOfRows == Spec => []EditInv
<1>1. Init => EditInv
  BY DEF Init, EditInv
<1> QED BY <1>1, EditKept, TypeCorrect, PTL DEF Spec

\* What a PUT, a POST or a DELETE of an operator is to the lease.
LEMMA OperatorLease ==
    ASSUME IInv, IInv', EditInv, NEW d \in Demands,
           OperatorPost(d) \/ OperatorPut(d) \/ OperatorDelete(d)
    PROVE  \/ UNCHANGED <<LeaseStage, LeaseOwner, LeaseFiled>>
           \/ Lease!Open(d) \/ Lease!Reissue(d) \/ Lease!Delete(d) \/ Lease!Withdraw(d)
<1>1. TypeOK /\ DemandInv(d) /\ UNCHANGED <<pc, item>>
  BY DEF IInv, OperatorPost, OperatorPut, OperatorDelete
<1>2. /\ \A e \in Demands \ {d} : Unseen(e)
      /\ Held(d)' <=> Held(d)
  <2>1. \A e \in Demands \ {d} : /\ row'[e] = row[e] /\ filings'[e] = filings[e]
                                 /\ e \in overridden' <=> e \in overridden
    BY <1>1 DEF OperatorPost, OperatorPut, OperatorDelete, Save, Values, TypeOK, history
  <2> QED BY <1>1, <2>1, CallUnseen
<1>3. CASE d \in overridden
  <2>1. d \in overridden'
    BY <1>3 DEF OperatorPost, OperatorPut, OperatorDelete, history
  <2>2. \A e \in Demands : Unseen(e)
    BY <1>2, <1>3, <2>1 DEF Unseen
  <2> QED BY <2>2, LeaseSame
<1>4. ASSUME d \notin overridden, d \in overridden',
             \/ "put" \in Operator /\ row[d].status # "none"
             \/ "post" \in Operator /\ row[d].status = "none"
      PROVE  Lease!Withdraw(d)
  <2>1. LeaseStage'[d] = "withdrawn" /\ LeaseOwner'[d] = NoWorker
    BY <1>4, StageSeen, Owners
  <2>2. LeaseFiled'[d] = FALSE
    BY <1>4, FiledSeen
  <2>3. \/ "put" \in Operator /\ LeaseStage[d] \in Lease!Present \cup {"deleted"}
        \/ "post" \in Operator /\ LeaseStage[d] = "absent"
    BY <1>1, <1>4, StageSeen, Stages DEF TypeOK, RowVal, Statuses, Pending, Lease!Present
  <2> QED BY <1>2, <2>1, <2>2, <2>3, LeaseUpdate DEF Lease!Withdraw
<1>5. CASE OperatorPost(d) /\ d \notin overridden
  <2>1. PICK s \in Statuses :
           /\ Save(d, s, "plain")
           /\ overridden' = IF s \in Pending THEN overridden ELSE overridden \cup {d}
    BY <1>5 DEF OperatorPost
  <2>2. row[d].status = "none" /\ row'[d].status = s /\ filings' = filings /\ "post" \in Operator
    BY <1>1, <1>5, <2>1 DEF OperatorPost, Save, Values, TypeOK
  <2>3. CASE s \in Pending
    BY <1>1, <1>2, <1>5, <2>1, <2>2, <2>3, OpensLease
  <2>4. CASE s \notin Pending
    BY <1>4, <1>5, <2>1, <2>2, <2>4
  <2> QED BY <2>3, <2>4
<1>6. CASE OperatorPut(d) /\ d \notin overridden
  <2>1. PICK s \in Statuses :
           /\ Values(d, s, "plain")
           /\ filings' = [filings EXCEPT ![d] = IF s \in Pending THEN 0 ELSE @]
           /\ overridden' = IF Held(d) \/ s \notin Pending
                              THEN overridden \cup {d} ELSE overridden
    BY <1>6 DEF OperatorPut
  <2>2. row[d].status # "none" /\ row'[d].status = s /\ "put" \in Operator
    BY <1>1, <1>6, <2>1 DEF OperatorPut, Values, TypeOK, EditInv
  <2>3. CASE Held(d) \/ s \notin Pending
    BY <1>4, <1>6, <2>1, <2>2, <2>3
  <2>4. CASE ~Held(d) /\ s \in Pending
    <3>1. filings'[d] = 0 /\ d \notin overridden'
      BY <1>1, <1>6, <2>1, <2>4 DEF TypeOK
    <3>2. LeaseOwner[d] = NoWorker /\ LeaseOwner'[d] = NoWorker
      BY <1>2, <2>4, Owners
    <3>3. LeaseStage[d] \in Lease!Present \cup {"deleted"} /\ LeaseStage'[d] = "pending"
      BY <1>1, <1>6, <2>2, <2>4, <3>1, StageSeen, Stages
         DEF TypeOK, RowVal, Statuses, Pending, Lease!Present
    <3>4. LeaseFiled'[d] = FALSE
      BY <3>1, FiledSeen
    <3> QED BY <1>2, <2>2, <3>2, <3>3, <3>4, LeaseUpdate DEF Lease!Reissue
  <2> QED BY <2>3, <2>4
<1>7. CASE OperatorDelete(d) /\ d \notin overridden
  <2>1. /\ Exists(d) /\ row'[d].status = "deleted" /\ "delete" \in Operator
        /\ filings' = filings /\ overridden' = overridden
    BY <1>1, <1>7 DEF OperatorDelete, TypeOK, RowVal, history
  <2>2. LeaseStage[d] \in Lease!Present /\ LeaseStage'[d] = "deleted"
    BY <1>7, <2>1, StageSeen, Stages DEF Exists, Statuses, Pending, Lease!Present
  <2>3. LeaseFiled'[d] = LeaseFiled[d]
    BY <2>1, FiledSeen
  <2>4. LeaseOwner'[d] = LeaseOwner[d]
    <3>1. \A v \in Workers : Holds(v, d)' <=> Holds(v, d)
      BY <1>1 DEF Holds
    <3>2. CASE Held(d)
      <4>1. PICK v \in Workers : Holds(v, d) /\ Holds(v, d)'
        BY <3>1, <3>2 DEF Held
      <4> QED BY <1>7, <2>1, <4>1, Owners
    <3>3. CASE ~Held(d)
      BY <1>2, <3>3, Owners
    <3> QED BY <3>2, <3>3
  <2> QED BY <1>2, <2>1, <2>2, <2>3, <2>4, LeaseUpdate DEF Lease!Delete
<1> QED BY <1>3, <1>5, <1>6, <1>7

\* Every step of the queue is a step of the lease or changes nothing of it.
LEMMA LeaseStep ==
    ASSUME IInv, IInv', EditInv, [Next]_vars
    PROVE  [Lease!Next]_(Lease!leaseVars)
<1>1. SUFFICES UNCHANGED <<LeaseStage, LeaseOwner, LeaseFiled>> \/ Lease!Next
  BY DEF Lease!leaseVars
<1>2. ASSUME NEW w \in Workers, Worker(w)
      PROVE  UNCHANGED <<LeaseStage, LeaseOwner, LeaseFiled>> \/ Lease!Next
  BY <1>2, ChooseLease, PortalLease, SettleLease DEF Worker, Lease!Next
<1>3. ASSUME NEW d \in Demands, Arrive(d)
      PROVE  UNCHANGED <<LeaseStage, LeaseOwner, LeaseFiled>> \/ Lease!Next
  <2>1. /\ row[d].status = "none" /\ row'[d].status = "Abierta"
        /\ UNCHANGED <<pc, item, filings, overridden>>
    BY <1>3 DEF Arrive, Save, Values, IInv, TypeOK, history
  <2>2. \A e \in Demands \ {d} : Unseen(e)
    <3>1. \A e \in Demands \ {d} : row'[e] = row[e]
      BY <1>3 DEF Arrive, Save, Values, IInv, TypeOK
    <3> QED BY <2>1, <3>1, CallUnseen
  <2>3. CASE d \in overridden
    <3>1. \A e \in Demands : Unseen(e)
      BY <2>1, <2>2, <2>3 DEF Unseen
    <3> QED BY <3>1, LeaseSame
  <2>4. CASE d \notin overridden
    BY <2>1, <2>2, <2>4, OpensLease DEF Pending, Lease!Next
  <2> QED BY <2>3, <2>4
<1>4. CASE Crash
  <2>1. UNCHANGED <<row, filings, overridden>>
    BY <1>4 DEF Crash
  <2>2. LeaseStage' = LeaseStage /\ LeaseFiled' = LeaseFiled
    BY <2>1 DEF LeaseStage, LeaseFiled
  <2>3. "loop" \notin Holding
    BY DEF Holding, Session, Settling, Syncing
  <2>4. \A d \in Demands : ~Held(d)'
    BY <1>4, <2>3 DEF Crash, Held, Holds
  <2>5. LeaseOwner' = [d \in Demands |-> NoWorker]
    BY <2>4 DEF LeaseOwner, Leased
  <2> QED BY <2>2, <2>5 DEF Lease!Die, Lease!Next
<1>5. CASE \/ Environment \/ UNCHANGED vars
           \/ \E d \in Demands : PutFinds(d) \/ Age(d)
  <2>1. UNCHANGED <<row, pc, item, filings, overridden>>
    BY <1>5 DEF Environment, vars, PutFinds, Age, history
  <2>2. \A d \in Demands : Unseen(d)
    BY <2>1 DEF Unseen, Holds
  <2> QED BY <2>2, LeaseSame
<1>6. ASSUME NEW d \in Demands, OperatorPost(d) \/ OperatorPut(d) \/ OperatorDelete(d)
      PROVE  UNCHANGED <<LeaseStage, LeaseOwner, LeaseFiled>> \/ Lease!Next
  BY <1>6, OperatorLease DEF Lease!Next
<1> QED BY <1>2, <1>3, <1>4, <1>5, <1>6 DEF Next

\* The queue is an exclusive lease on demands, for any numbers of demands,
\* workers and slots and whatever crashes, failures and operators do: each is
\* taken by one worker, filed only by it and once an opening, and closed only
\* when filed, until an operator's PUT or POST takes it out of the bot's hands.
THEOREM QueueIsALease == Spec => ImplementsLease
<1>1. Init => Lease!Init
  <2> SUFFICES ASSUME Init PROVE Lease!Init
    OBVIOUS
  <2>1. \A d \in Demands : row[d].status \in {"none", "Abierta"} /\ filings[d] = 0
    BY DEF Init, BlankRow
  <2>2. \A d \in Demands : ~Held(d)
    BY DEF Init, Held, Holds, Holding, Session, Settling, Syncing
  <2>3. LeaseStage \in [Demands -> {"absent", "pending"}]
    <3>1. overridden = {}
      BY DEF Init
    <3> QED BY <2>1, <3>1, Stages DEF LeaseStage
  <2>4. LeaseOwner = [d \in Demands |-> NoWorker]
    BY <2>2 DEF LeaseOwner, Leased
  <2>5. LeaseFiled = [d \in Demands |-> FALSE]
    <3>1. \A d \in Demands : (d \notin overridden /\ filings[d] >= 1) = FALSE
      BY <2>1
    <3> QED BY <3>1, Zenon DEF LeaseFiled
  <2> QED BY <2>3, <2>4, <2>5 DEF Lease!Init
<1>2. IInv /\ IInv' /\ EditInv /\ [Next]_vars => [Lease!Next]_(Lease!leaseVars)
  BY LeaseStep
<1> QED BY <1>1, <1>2, Inductive, EditsAreOfRows, PTL DEF Spec, ImplementsLease, Lease!Spec

----------------------------------------------------------------------------
(* The candidate loop: rows are ordered, and runOnce ends.                  *)

\* The rows are in a strict total order by updated_at.
OrderInv ==
    /\ before \in SUBSET (Demands \X Demands)
    /\ \A d \in Demands : <<d, d>> \notin before
    /\ \A d, e \in Demands : d = e \/ <<d, e>> \in before \/ <<e, d>> \in before
    /\ \A d, e, f \in Demands :
          <<d, e>> \in before /\ <<e, f>> \in before => <<d, f>> \in before

\* What a new place does to each pair.
LEMMA Placed ==
    ASSUME NEW d \in Demands, NEW E \in SUBSET (Demands \ {d}), Place(d, E)
    PROVE  \A e, f \in Demands :
              <<e, f>> \in before' <=> \/ e # d /\ f # d /\ <<e, f>> \in before
                                       \/ e \in E /\ f = d
                                       \/ e = d /\ f # d /\ f \notin E
BY DEF Place

\* A row may be put anywhere: the others stay ordered, and it has its place.
LEMMA PlaceOrder ==
    ASSUME OrderInv, NEW d \in Demands, NEW E \in SUBSET (Demands \ {d}), Place(d, E)
    PROVE  OrderInv'
<1>1. before' \in SUBSET (Demands \X Demands)
  BY DEF Place, OrderInv
<1>2. \A e, f \in Demands :
         <<e, f>> \in before' <=> \/ e # d /\ f # d /\ <<e, f>> \in before
                                  \/ e \in E /\ f = d
                                  \/ e = d /\ f # d /\ f \notin E
  BY Placed
<1>3. \A e \in Demands : <<e, e>> \notin before'
  BY <1>2 DEF OrderInv
<1>4. \A e, f \in Demands : e = f \/ <<e, f>> \in before' \/ <<f, e>> \in before'
  BY <1>2 DEF OrderInv
<1>5. \A e \in E, f \in Demands \ {d} : <<f, e>> \in before => f \in E
  BY DEF Place
<1>6. ASSUME NEW e \in Demands, NEW f \in Demands, NEW g \in Demands,
             <<e, f>> \in before', <<f, g>> \in before'
      PROVE  <<e, g>> \in before'
  <2>1. CASE e # d /\ f # d /\ g # d
    BY <1>2, <1>6, <2>1 DEF OrderInv
  <2>2. CASE f = d
    <3>1. e \in E /\ g # d /\ g \notin E
      BY <1>2, <1>6, <2>2
    <3>2. e # g /\ <<g, e>> \notin before
      BY <1>5, <3>1
    <3>3. <<e, g>> \in before
      BY <3>1, <3>2 DEF OrderInv
    <3> QED BY <1>2, <3>1, <3>3
  <2>3. CASE e = d /\ f # d
    <3>1. f \notin E
      BY <1>2, <1>6, <2>3
    <3>2. g # d
      BY <1>2, <1>6, <2>3, <3>1
    <3>3. <<f, g>> \in before
      BY <1>2, <1>6, <2>3, <3>2
    <3>4. g \notin E
      BY <1>5, <2>3, <3>1, <3>3
    <3> QED BY <1>2, <2>3, <3>2, <3>4
  <2>4. CASE g = d /\ f # d /\ e # d
    <3>1. f \in E /\ <<e, f>> \in before
      BY <1>2, <1>6, <2>4
    <3>2. e \in E
      BY <1>5, <2>4, <3>1
    <3> QED BY <1>2, <2>4, <3>2
  <2> QED BY <2>1, <2>2, <2>3, <2>4
<1> QED BY <1>1, <1>3, <1>4, <1>6 DEF OrderInv

\* How a step may change the order: not at all, by giving a row now as its
\* updated_at, or by saving a row with the updated_at it had.
SavesOld(d) ==
    /\ \E w \in Workers : item[w] = d /\ SavePath(w)
    /\ \E E \in SUBSET (Demands \ {d}) : Place(d, E)

LEMMA StepTouches ==
    ASSUME TypeOK, [Next]_vars
    PROVE  before' = before \/ \E d \in Demands : Touch(d) \/ SavesOld(d)
<1>1. ASSUME NEW w \in Workers, Worker(w)
      PROVE  before' = before \/ \E d \in Demands : Touch(d) \/ SavesOld(d)
  <2>1. pc[w] \in Holding \cup {"cand"} => item[w] \in Demands
    BY DEF TypeOK
  <2>2. CASE Choose(w)
    BY <2>1, <2>2 DEF Choose, Wake, Gate, Check, Skip, Pick, GiveUp, Claim, ChoosingFails, Save
  <2>3. CASE InPortal(w)
    <3>1. CASE SavePath(w)
      <4>1. item[w] \in Demands
        BY <2>1, <3>1 DEF SavePath, Holding, Session
      <4>2. \E E \in SUBSET (Demands \ {item[w]}) : Place(item[w], E)
        BY <3>1 DEF SavePath
      <4>3. SavesOld(item[w])
        BY <3>1, <4>2 DEF SavesOld
      <4> QED BY <4>1, <4>3
    <3>2. CASE ~SavePath(w)
      BY <2>1, <2>3, <3>2 DEF InPortal, NoPdfService, NoPdfServiceFails, Abandon, EarlyEnd,
              ReadForPath, SavingFails, LateEnd, FileAtPortal, AfterFiling, Save, Holding, Session
    <3> QED BY <3>1, <3>2
  <2>4. CASE Settle(w)
    BY <2>1, <2>4 DEF Settle, Refresh, Finish, WriteFails, SyncStep, SyncFails, ReadAfterError,
                      SaveNovedad, CatchFails, Abandon, Save, Holding, Settling
  <2> QED BY <1>1, <2>2, <2>3, <2>4 DEF Worker
<1>2. ASSUME NEW d \in Demands,
             \/ Arrive(d) \/ OperatorPost(d) \/ PutFinds(d) \/ OperatorPut(d)
             \/ OperatorDelete(d) \/ Age(d)
      PROVE  before' = before \/ Touch(d)
  BY <1>2 DEF Arrive, OperatorPost, PutFinds, OperatorPut, OperatorDelete, Age, Save
<1>3. CASE Crash \/ Environment \/ UNCHANGED vars
  BY <1>3 DEF Crash, Environment, vars
<1> QED BY <1>1, <1>2, <1>3 DEF Next

\* Whoever writes, and however long ago its updated_at was, the order stays one.
LEMMA RowsAreOrdered == Spec => []OrderInv
<1>1. Init => OrderInv
  BY DEF Init, OrderInv
<1>2. OrderInv /\ TypeOK /\ [Next]_vars => OrderInv'
  <2> SUFFICES ASSUME OrderInv, TypeOK, [Next]_vars PROVE OrderInv'
    OBVIOUS
  <2>1. CASE before' = before
    BY <2>1 DEF OrderInv
  <2>2. ASSUME NEW d \in Demands, Touch(d) \/ SavesOld(d) PROVE OrderInv'
    <3>1. PICK E \in SUBSET (Demands \ {d}) : Place(d, E)
      BY <2>2 DEF Touch, SavesOld
    <3> QED BY <3>1, PlaceOrder
  <2> QED BY <2>1, <2>2, StepTouches
<1> QED BY <1>1, <1>2, TypeCorrect, PTL DEF Spec

\* A finite set of rows that is not empty has an oldest one.
LEMMA Oldest ==
    ASSUME OrderInv, NEW S \in SUBSET Demands, IsFiniteSet(S), S # {}
    PROVE  \E d \in S : \A e \in S \ {d} : <<d, e>> \in before
<1> DEFINE Older(d) == {e \in S : <<e, d>> \in before}
<1> DEFINE T == {Older(d) : d \in S}
<1>1. IsWellFoundedOn(StrictSubsetOrdering(S), FiniteSubsetsOf(S))
  BY FS_StrictSubsetOrderingWellFounded
<1>2. FiniteSubsetsOf(S) = SUBSET S
  BY FS_FiniteSubsetsOfFinite
<1>3. T \subseteq FiniteSubsetsOf(S) /\ T # {}
  <2>1. \A d \in S : Older(d) \in SUBSET S
    OBVIOUS
  <2>2. \A d \in S : Older(d) \in T
    OBVIOUS
  <2>3. T \subseteq SUBSET S
    BY <2>1
  <2>4. PICK d : d \in S
    OBVIOUS
  <2>5. T # {}
    BY <2>2, <2>4
  <2> QED BY <1>2, <2>3, <2>5
<1>4. PICK X \in T : \A Y \in T : <<Y, X>> \notin StrictSubsetOrdering(S)
  <2> HIDE DEF T
  <2> QED BY <1>1, <1>3, WFMin
<1>5. PICK d \in S : X = Older(d)
  BY <1>4
<1>6. ASSUME NEW e \in S \ {d} PROVE <<d, e>> \in before
  <2>1. SUFFICES ASSUME <<e, d>> \in before PROVE FALSE
    BY DEF OrderInv
  <2>2. Older(e) \subseteq Older(d) /\ e \in Older(d) /\ e \notin Older(e)
    BY <2>1 DEF OrderInv
  <2>3. <<Older(e), X>> \in StrictSubsetOrdering(S)
    BY <1>5, <2>2 DEF StrictSubsetOrdering
  <2> QED BY <1>4, <2>3
<1> QED BY <1>6

\* However many rows there are, and however they were written, findNextPending
\* has exactly one answer while a candidate is left: the candidate loop never
\* stands still between two rows, and never passes over an older one.
THEOREM OneAnswer == ASSUME IsFiniteSet(Demands) PROVE Spec => []AnswersWithOne
<1>1. OrderInv => AnswersWithOne
  <2> SUFFICES ASSUME OrderInv, NEW w \in Workers, Candidates(w) # {}
               PROVE  \E d \in Demands : \A e \in Demands : NextPending(w, e) <=> e = d
    BY DEF AnswersWithOne
  <2>1. Candidates(w) \in SUBSET Demands /\ IsFiniteSet(Candidates(w))
    BY FS_Subset, QueueAssumption DEF Candidates
  <2>2. PICK d \in Candidates(w) : \A e \in Candidates(w) \ {d} : <<d, e>> \in before
    BY <2>1, Oldest
  <2>3. NextPending(w, d) /\ d \in Demands
    BY <2>1, <2>2 DEF NextPending
  <2>4. ASSUME NEW e \in Demands, NextPending(w, e), e # d PROVE FALSE
    <3>1. <<d, e>> \in before /\ <<e, d>> \in before
      BY <2>2, <2>4 DEF NextPending
    <3> QED BY <2>3, <3>1 DEF OrderInv
  <2> QED BY <2>3, <2>4
<1> QED BY <1>1, RowsAreOrdered, PTL

\* Where the candidate loop is: excludeIds is finite and within its bound, and
\* the candidate in hand is none that was set aside.
LoopInv ==
    \A w \in Workers :
       /\ IsFiniteSet(excl[w]) /\ Cardinality(excl[w]) \in 0..MaxCandidates
       /\ pc[w] = "cand" => item[w] \notin excl[w] /\ Cardinality(excl[w]) < MaxCandidates

\* Setting one more row aside.
LEMMA SetAside ==
    ASSUME LoopInv, NEW w \in Workers, NEW d, d \notin excl[w],
           Cardinality(excl[w]) < MaxCandidates
    PROVE  /\ IsFiniteSet(excl[w] \cup {d})
           /\ Cardinality(excl[w] \cup {d}) = Cardinality(excl[w]) + 1
           /\ Cardinality(excl[w] \cup {d}) \in 0..MaxCandidates
<1>1. IsFiniteSet(excl[w]) /\ Cardinality(excl[w]) \in 0..MaxCandidates
  BY DEF LoopInv
<1>2. /\ IsFiniteSet(excl[w] \cup {d})
      /\ Cardinality(excl[w] \cup {d}) = Cardinality(excl[w]) + 1
  BY <1>1, FS_AddElement
<1> QED BY <1>1, <1>2, QueueAssumption

\* What a step of worker w does to the loop: it drops excludeIds, keeps it, or
\* adds a row to it.
LEMMA LoopStep ==
    ASSUME TypeOK, LoopInv, NEW w \in Workers, Worker(w)
    PROVE  /\ \A v \in Workers \ {w} : pc'[v] = pc[v] /\ excl'[v] = excl[v] /\ item'[v] = item[v]
           /\ \/ pc'[w] # "cand" /\ excl'[w] = {}
              \/ pc'[w] # "cand" /\ excl'[w] = excl[w]
              \/ Pick(w) /\ pc'[w] = "cand" /\ excl'[w] = excl[w]
                 /\ item'[w] \notin excl[w] /\ Cardinality(excl[w]) < MaxCandidates
              \/ /\ pc'[w] = "scan" /\ Cardinality(excl[w]) < MaxCandidates
                 /\ \E d \in Demands \ excl[w] : excl'[w] = excl[w] \cup {d}
<1> DEFINE Others == \A v \in Workers \ {w} :
                        pc'[v] = pc[v] /\ excl'[v] = excl[v] /\ item'[v] = item[v]
<1>1. ASSUME Leave(w) PROVE Others /\ pc'[w] # "cand" /\ excl'[w] = {}
  BY <1>1 DEF Leave, Goto, TypeOK
<1>2. ASSUME NEW p \in PC \ {"cand"}, Goto(w, p), UNCHANGED <<item, excl>>
      PROVE  Others /\ pc'[w] # "cand" /\ excl'[w] = excl[w]
  BY <1>2 DEF Goto, TypeOK
<1>3. ASSUME NEW r, End(w, r), UNCHANGED <<item, excl>>
      PROVE  Others /\ pc'[w] # "cand" /\ excl'[w] = excl[w]
  BY <1>2, <1>3 DEF End, PC, Holding, Settling
<1>4. PC \ {"cand"} = Outside \cup {"checking", "scan"} \cup Holding
  BY DEF PC, Outside, Choosing, Holding, Session, Settling, Syncing
<1>5. CASE Skip(w)
  <2>1. PICK d \in Demands \ excl[w] : excl' = [excl EXCEPT ![w] = @ \cup {d}]
    BY <1>5, QueueAssumption DEF Skip, NextPending, Candidates
  <2> QED BY <1>5, <2>1 DEF Skip, MayLook, TypeOK
<1>6. CASE Pick(w)
  <2>1. PICK d \in Demands \ excl[w] : item' = [item EXCEPT ![w] = d]
    BY <1>6, QueueAssumption DEF Pick, NextPending, Candidates
  <2> QED BY <1>6, <2>1 DEF Pick, MayLook, Goto, TypeOK
<1>7. CASE Claim(w)
  <2>1. CASE IsPending(item[w])
    BY <1>2, <1>4, <1>7, <2>1 DEF Claim, Holding, Session
  <2>2. CASE ~IsPending(item[w])
    <3>1. /\ Goto(w, "scan") /\ item' = [item EXCEPT ![w] = NoDemand]
          /\ excl' = [excl EXCEPT ![w] = @ \cup {item[w]}] /\ pc[w] = "cand"
      BY <1>7, <2>2 DEF Claim
    <3>2. item[w] \in Demands \ excl[w] /\ Cardinality(excl[w]) < MaxCandidates
      BY <3>1 DEF LoopInv, TypeOK
    <3> QED BY <3>1, <3>2 DEF Goto, TypeOK
  <2> QED BY <2>1, <2>2
<1>8. CASE Wake(w) \/ Gate(w) \/ Check(w) \/ GiveUp(w) \/ ChoosingFails(w)
  BY <1>1, <1>2, <1>4, <1>8 DEF Wake, Gate, Check, GiveUp, ChoosingFails, Outside
<1>9. CASE InPortal(w)
  BY <1>1, <1>2, <1>3, <1>4, <1>9
     DEF InPortal, NoPdfService, NoPdfServiceFails, Abandon, EarlyEnd, ReadForPath, SavePath,
         SavingFails, LateEnd, FileAtPortal, AfterFiling, Holding, Session
<1>10. CASE Settle(w)
  <2>1. CASE Finish(w)
    BY <1>1, <1>2, <1>4, <2>1 DEF Finish, Holding, Settling, Syncing
  <2>2. CASE SyncStep(w)
    BY <1>1, <1>2, <1>4, <2>2, SyncStepEnds DEF Holding, Settling, Syncing
  <2>3. CASE \/ Refresh(w) \/ WriteFails(w) \/ SyncFails(w) \/ ReadAfterError(w)
             \/ SaveNovedad(w) \/ CatchFails(w)
    BY <1>1, <1>2, <1>3, <1>4, <2>3
       DEF Refresh, WriteFails, SyncFails, ReadAfterError, SaveNovedad, CatchFails, Abandon,
           Holding, Settling
  <2> QED BY <1>10, <2>1, <2>2, <2>3 DEF Settle
<1> QED BY <1>5, <1>6, <1>7, <1>8, <1>9, <1>10 DEF Worker, Choose

LEMMA LoopBounded == Spec => []LoopInv
<1>1. Init => LoopInv
  <2> SUFFICES ASSUME Init PROVE LoopInv
    OBVIOUS
  <2>1. \A w \in Workers : excl[w] = {} /\ pc[w] = "loop"
    BY DEF Init
  <2> QED BY <2>1, FS_EmptySet, QueueAssumption DEF LoopInv
<1>2. TypeOK /\ LoopInv /\ [Next]_vars => LoopInv'
  <2> SUFFICES ASSUME TypeOK, LoopInv, [Next]_vars PROVE LoopInv'
    OBVIOUS
  <2>1. ASSUME NEW w \in Workers, Worker(w), NEW v \in Workers
        PROVE  /\ IsFiniteSet(excl'[v]) /\ Cardinality(excl'[v]) \in 0..MaxCandidates
               /\ pc'[v] = "cand" => item'[v] \notin excl'[v] /\ Cardinality(excl'[v]) < MaxCandidates
    <3>1. CASE v # w
      BY <2>1, <3>1, LoopStep DEF LoopInv
    <3>2. CASE v = w
      <4>1. CASE pc'[w] # "cand" /\ excl'[w] = {}
        BY <3>2, <4>1, FS_EmptySet, QueueAssumption
      <4>2. CASE pc'[w] # "cand" /\ excl'[w] = excl[w]
        BY <3>2, <4>2 DEF LoopInv
      <4>3. CASE /\ pc'[w] = "cand" /\ excl'[w] = excl[w]
                 /\ item'[w] \notin excl[w] /\ Cardinality(excl[w]) < MaxCandidates
        BY <3>2, <4>3 DEF LoopInv
      <4>4. CASE /\ pc'[w] = "scan" /\ Cardinality(excl[w]) < MaxCandidates
                 /\ \E d \in Demands \ excl[w] : excl'[w] = excl[w] \cup {d}
        BY <3>2, <4>4, SetAside
      <4> QED BY <2>1, <4>1, <4>2, <4>3, <4>4, LoopStep
    <3> QED BY <3>1, <3>2
  <2>2. CASE Crash
    BY <2>2, FS_EmptySet, QueueAssumption DEF Crash, LoopInv
  <2>3. CASE \/ \E d \in Demands :
                   \/ Arrive(d) \/ OperatorPost(d) \/ PutFinds(d) \/ OperatorPut(d)
                   \/ OperatorDelete(d) \/ Age(d)
             \/ Environment \/ UNCHANGED vars
    <3>1. UNCHANGED <<pc, item, excl>>
      BY <2>3 DEF Arrive, OperatorPost, PutFinds, OperatorPut, OperatorDelete, Age, Environment,
                  vars
    <3> QED BY <3>1 DEF LoopInv
  <2> QED BY <2>1, <2>2, <2>3 DEF Next, LoopInv
<1> QED BY <1>1, <1>2, TypeCorrect, PTL DEF Spec

\* The control states from the claim on, and what is left of a session in each.
LEMMA Ranks ==
    ASSUME TypeOK, LoopInv, NEW w \in Workers
    PROVE  /\ Rank(w) \in 0..(2 * MaxCandidates + 14)
           /\ pc[w] \in Outside <=> Rank(w) = 0
           /\ pc[w] \in Holding => Rank(w) \in 1..11
           /\ pc[w] \in Choosing => Rank(w) \in 12..(2 * MaxCandidates + 14)
<1>1. pc[w] \in PC /\ Cardinality(excl[w]) \in 0..MaxCandidates /\ MaxCandidates \in Nat
  BY QueueAssumption DEF TypeOK, LoopInv
<1>2. pc[w] = "cand" => Cardinality(excl[w]) < MaxCandidates
  BY DEF LoopInv
<1>3. CASE pc[w] \in Outside
  BY <1>1, <1>3 DEF Rank, Outside, Choosing, Holding, Session, Settling, Syncing
<1>4. CASE pc[w] \in Choosing
  BY <1>1, <1>2, <1>4 DEF Rank, Outside, Choosing, Holding, Session, Settling, Syncing
<1>5. CASE pc[w] \in Holding
  BY <1>1, <1>5 DEF Rank, Outside, Choosing, Holding, Session, Settling, Syncing
<1> QED BY <1>1, <1>3, <1>4, <1>5 DEF PC

\* What the rank is in each control state of a session.
LEMMA RankAt ==
    ASSUME NEW w \in Workers
    PROVE  /\ pc[w] = "loop" => Rank(w) = 0
           /\ pc[w] = "failing" => Rank(w) = 1
           /\ pc[w] = "failed" => Rank(w) = 2
           /\ pc[w] = "ext3" => Rank(w) = 3
           /\ pc[w] = "ext2" => Rank(w) = 4
           /\ pc[w] = "ext1" => Rank(w) = 5
           /\ pc[w] = "writing" => Rank(w) = 6
           /\ pc[w] = "report" => Rank(w) = 7
           /\ pc[w] = "submitted" => Rank(w) = 8
           /\ pc[w] = "attached" => Rank(w) = 9
           /\ pc[w] = "saving" => Rank(w) = 10
           /\ pc[w] = "taken" => Rank(w) = 11
BY DEF Rank

LEMMA RankNext ==
    ASSUME NEW w \in Workers
    PROVE  /\ pc'[w] = "loop" => Rank(w)' = 0
           /\ pc'[w] = "failing" => Rank(w)' = 1
           /\ pc'[w] = "failed" => Rank(w)' = 2
           /\ pc'[w] = "ext3" => Rank(w)' = 3
           /\ pc'[w] = "ext2" => Rank(w)' = 4
           /\ pc'[w] = "writing" => Rank(w)' = 6
           /\ pc'[w] = "ext1" => Rank(w)' = 5
           /\ pc'[w] = "report" => Rank(w)' = 7
           /\ pc'[w] = "submitted" => Rank(w)' = 8
           /\ pc'[w] = "attached" => Rank(w)' = 9
           /\ pc'[w] = "saving" => Rank(w)' = 10
           /\ pc'[w] = "taken" => Rank(w)' = 11
BY DEF Rank

\* Each step of a worker inside runOnce brings it nearer to the end: a candidate
\* is set aside once, and the session only goes forward.
LEMMA RankFalls ==
    ASSUME TypeOK, LoopInv, NEW w \in Workers, Worker(w), pc[w] \notin Outside
    PROVE  Rank(w)' < Rank(w)
<1>1. /\ Rank(w) \in 0..(2 * MaxCandidates + 14) /\ Rank(w) # 0
      /\ pc[w] \in Choosing => Rank(w) >= 12
  BY Ranks
<1>2. ASSUME Leave(w) PROVE Rank(w)' < Rank(w)
  <2>1. pc'[w] = "loop"
    BY <1>2 DEF Leave, Goto, TypeOK
  <2> QED BY <1>1, <2>1, RankNext
<1>3. ASSUME NEW p \in PC, Goto(w, p) PROVE pc'[w] = p
  BY <1>3 DEF Goto, TypeOK
<1>4. ASSUME NEW r, End(w, r) PROVE pc'[w] = IF r \in Returned THEN "report" ELSE "failed"
  BY <1>4 DEF End, Goto, TypeOK
<1>5. {"taken", "saving", "attached", "submitted", "report", "writing", "failed", "failing",
       "ext1", "ext2", "ext3", "scan", "cand"} \subseteq PC
  BY DEF PC, Choosing, Holding, Session, Settling, Syncing
<1>6. CASE Choose(w)
  <2>1. /\ MaxCandidates \in Nat /\ Cardinality(excl[w]) \in 0..MaxCandidates
        /\ pc[w] = "cand" => Cardinality(excl[w]) < MaxCandidates
    BY QueueAssumption DEF LoopInv
  <2>2. CASE Check(w) /\ ~Leave(w)
    <3>1. pc[w] = "checking" /\ pc'[w] = "scan" /\ excl' = excl
      BY <1>3, <1>5, <2>2 DEF Check
    <3> QED BY <2>1, <3>1 DEF Rank
  <2>3. CASE Skip(w)
    <3>1. /\ pc[w] = "scan" /\ pc'[w] = "scan" /\ Cardinality(excl[w]) < MaxCandidates
          /\ \E d \in Demands \ excl[w] : excl'[w] = excl[w] \cup {d}
      BY <2>3, QueueAssumption DEF Skip, MayLook, NextPending, Candidates, TypeOK
    <3>2. Cardinality(excl'[w]) = Cardinality(excl[w]) + 1
      BY <3>1, SetAside
    <3> QED BY <2>1, <3>1, <3>2 DEF Rank
  <2>4. CASE Pick(w)
    <3>1. pc[w] = "scan" /\ pc'[w] = "cand" /\ excl' = excl
      BY <1>3, <1>5, <2>4 DEF Pick, MayLook
    <3> QED BY <2>1, <3>1 DEF Rank
  <2>5. CASE Claim(w) /\ IsPending(item[w])
    <3>1. pc[w] = "cand" /\ pc'[w] = "taken"
      BY <1>3, <1>5, <2>5 DEF Claim
    <3> QED BY <1>1, <3>1, RankNext DEF Choosing
  <2>6. CASE Claim(w) /\ ~IsPending(item[w])
    <3>1. /\ pc[w] = "cand" /\ pc'[w] = "scan" /\ item[w] \notin excl[w]
          /\ excl'[w] = excl[w] \cup {item[w]}
      BY <1>3, <1>5, <2>6 DEF Claim, LoopInv, TypeOK
    <3>2. Cardinality(excl'[w]) = Cardinality(excl[w]) + 1
      BY <2>1, <3>1, SetAside
    <3> QED BY <2>1, <3>1, <3>2 DEF Rank
  <2>7. CASE Wake(w) \/ Gate(w)
    BY <2>7 DEF Wake, Gate, Outside
  <2>8. CASE GiveUp(w)
    BY <1>2, <2>8 DEF GiveUp
  <2>9. CASE ChoosingFails(w)
    BY <1>2, <2>9 DEF ChoosingFails
  <2> QED BY <1>2, <1>6, <2>2, <2>3, <2>4, <2>5, <2>6, <2>7, <2>8, <2>9 DEF Choose
<1>7. CASE InPortal(w)
  <2>1. CASE NoPdfService(w)
    BY <1>2, <2>1 DEF NoPdfService
  <2>2. CASE EarlyEnd(w)
    <3>1. pc[w] = "taken" /\ pc'[w] \in {"report", "failed"}
      BY <1>4, <2>2 DEF EarlyEnd
    <3> QED BY <3>1, RankAt, RankNext
  <2>3. CASE ReadForPath(w)
    <3>1. pc[w] = "taken" /\ pc'[w] \in {"report", "failed", "saving"}
      BY <1>3, <1>4, <1>5, <2>3 DEF ReadForPath
    <3> QED BY <3>1, RankAt, RankNext
  <2>4. CASE SavePath(w)
    <3>1. pc[w] = "saving" /\ pc'[w] = "attached"
      BY <1>3, <1>5, <2>4 DEF SavePath
    <3> QED BY <3>1, RankAt, RankNext
  <2>5. CASE LateEnd(w)
    <3>1. pc[w] = "attached" /\ pc'[w] \in {"report", "failed"}
      BY <1>4, <2>5 DEF LateEnd
    <3> QED BY <3>1, RankAt, RankNext
  <2>6. CASE FileAtPortal(w)
    <3>1. pc[w] = "attached" /\ pc'[w] = "submitted"
      BY <1>3, <1>5, <2>6 DEF FileAtPortal
    <3> QED BY <3>1, RankAt, RankNext
  <2>7. CASE AfterFiling(w)
    <3>1. pc[w] = "submitted" /\ pc'[w] \in {"report", "failed"}
      BY <1>4, <2>7 DEF AfterFiling
    <3> QED BY <3>1, RankAt, RankNext
  <2>8. CASE NoPdfServiceFails(w)
    BY <1>2, <2>8 DEF NoPdfServiceFails, Abandon
  <2>9. CASE SavingFails(w)
    <3>1. pc[w] = "saving" /\ pc'[w] \in {"report", "failed"}
      BY <1>4, <2>9 DEF SavingFails
    <3> QED BY <3>1, RankAt, RankNext
  <2> QED BY <1>7, <2>1, <2>2, <2>3, <2>4, <2>5, <2>6, <2>7, <2>8, <2>9 DEF InPortal
<1>8. CASE Settle(w)
  <2>1. CASE Refresh(w)
    <3>1. pc[w] = "report" /\ pc'[w] \in {"writing", "failed"}
      BY <1>3, <1>4, <1>5, <2>1 DEF Refresh, Returned
    <3> QED BY <3>1, RankAt, RankNext
  <2>2. CASE Finish(w) /\ ~Leave(w)
    <3>1. pc[w] = "writing" /\ pc'[w] = "ext1"
      BY <1>3, <1>5, <2>2 DEF Finish
    <3> QED BY <3>1, RankAt, RankNext
  <2>3. CASE SyncStep(w) /\ ~Leave(w)
    <3>1. \/ pc[w] = "ext1" /\ pc'[w] = "ext2"
          \/ pc[w] = "ext2" /\ pc'[w] = "ext3"
      <4>1. \/ Leave(w)
            \/ pc[w] = "ext1" /\ Goto(w, "ext2")
            \/ pc[w] = "ext2" /\ Goto(w, "ext3")
        BY <2>3, SyncStepNext
      <4> QED BY <1>3, <1>5, <2>3, <4>1
    <3> QED BY <3>1, RankAt, RankNext
  <2>4. CASE SyncFails(w)
    <3>1. pc[w] \in Syncing /\ pc'[w] = "failed"
      BY <1>4, <2>4 DEF SyncFails, Returned
    <3> QED BY <3>1, RankAt, RankNext DEF Syncing
  <2>5. CASE ReadAfterError(w) /\ ~Leave(w)
    <3>1. pc[w] = "failed" /\ pc'[w] = "failing"
      BY <1>3, <1>5, <2>5 DEF ReadAfterError
    <3> QED BY <3>1, RankAt, RankNext
  <2>6. CASE SaveNovedad(w)
    BY <1>2, <2>6 DEF SaveNovedad
  <2>7. CASE CatchFails(w)
    BY <1>2, <2>7 DEF CatchFails, Abandon
  <2>8. CASE WriteFails(w)
    <3>1. pc[w] \in {"report", "writing"} /\ pc'[w] = "failed"
      BY <1>4, <2>8 DEF WriteFails, Returned
    <3> QED BY <3>1, RankAt, RankNext
  <2> QED BY <1>2, <1>8, <2>1, <2>2, <2>3, <2>4, <2>5, <2>6, <2>7, <2>8 DEF Settle
<1> QED BY <1>6, <1>7, <1>8 DEF Worker

\* runOnce ends whatever it meets, crashes and operators included: each step of
\* a worker inside it lowers its rank, which no other step raises and which
\* starts at 2 * MaxCandidates + 14.
THEOREM EveryRunOnceEnds == Spec => RunOnceEnds
<1>1. TypeOK /\ LoopInv => \A w \in Workers : Rank(w) \in 0..(2 * MaxCandidates + 14)
  BY Ranks
<1>2. TypeOK /\ LoopInv /\ LoopInv' /\ TypeOK' /\ [Next]_vars
        => [\A w \in Workers : pc[w] \notin Outside =>
              IF Worker(w) THEN Rank(w)' < Rank(w) ELSE Rank(w)' <= Rank(w)]_vars
  <2> SUFFICES ASSUME TypeOK, LoopInv, LoopInv', TypeOK', [Next]_vars,
                      NEW w \in Workers, pc[w] \notin Outside, ~Worker(w)
               PROVE  Rank(w)' <= Rank(w)
    BY RankFalls
  <2>1. Rank(w) \in Nat /\ Rank(w) >= 0
    BY Ranks
  <2>2. ASSUME pc'[w] = pc[w], excl'[w] = excl[w] PROVE Rank(w)' = Rank(w)
    BY <2>2 DEF Rank
  <2>3. CASE \E v \in Workers : Worker(v)
    BY <2>1, <2>2, <2>3, LoopStep
  <2>4. CASE Crash
    <3>1. pc'[w] = "loop"
      BY <2>4 DEF Crash
    <3> QED BY <2>1, <3>1, RankNext
  <2>5. CASE \/ \E d \in Demands :
                   \/ Arrive(d) \/ OperatorPost(d) \/ PutFinds(d) \/ OperatorPut(d)
                   \/ OperatorDelete(d) \/ Age(d)
             \/ Environment \/ UNCHANGED vars
    <3>1. UNCHANGED <<pc, excl>>
      BY <2>5 DEF Arrive, OperatorPost, PutFinds, OperatorPut, OperatorDelete, Age, Environment,
                  vars
    <3> QED BY <2>1, <2>2, <3>1
  <2> QED BY <2>3, <2>4, <2>5 DEF Next
<1> QED BY <1>1, <1>2, TypeCorrect, LoopBounded, PTL DEF Spec, RunOnceEnds

----------------------------------------------------------------------------
(* Who writes a row, and what becomes of it.                                *)

\* A worker writes one row at most: the one it claims, or the one it holds. It gives
\* the row a new updated_at, unless it saves one that it read before.
LEMMA WorkerWrites ==
    ASSUME TypeOK, NEW w \in Workers, Worker(w)
    PROVE  \/ row' = row /\ before' = before
           \/ /\ item[w] \in Demands
              /\ \A e \in Demands \ {item[w]} : row'[e] = row[e]
              /\ \/ /\ pc[w] = "cand" /\ IsPending(item[w]) /\ Touch(item[w])
                    /\ row'[item[w]].status = "En proceso"
                 \/ pc[w] \in Session \cup {"writing", "failing"} /\ Touch(item[w])
                 \/ pc[w] = "saving" /\ SavePath(w)
<1>1. pc[w] \in Holding \cup {"cand"} => item[w] \in Demands
  BY DEF TypeOK
<1>2. ASSUME NEW d \in Demands, NEW s, NEW n, Save(d, s, n)
      PROVE  /\ Touch(d) /\ row'[d].status = s
             /\ \A e \in Demands \ {d} : row'[e] = row[e]
  BY <1>2 DEF Save, Values, TypeOK
<1>3. CASE Choose(w)
  <2>1. CASE row' # row
    BY <1>2, <1>3, <2>1, ChooseWrites
  <2>2. CASE row' = row
    <3>1. CASE Claim(w) \/ ChoosingFails(w)
      BY <1>1, <2>2, <3>1, ClaimChanges DEF Claim, ChoosingFails
    <3>2. CASE ~(Claim(w) \/ ChoosingFails(w))
      BY <1>3, <2>2, <3>2 DEF Choose, Wake, Gate, Check, Skip, Pick, GiveUp
    <3> QED BY <3>1, <3>2
  <2> QED BY <2>1, <2>2
<1>4. CASE InPortal(w)
  <2>1. CASE NoPdfService(w)
    BY <1>1, <1>2, <2>1 DEF NoPdfService, Holding, Session
  <2>2. CASE SavePath(w)
    BY <1>1, <2>2 DEF SavePath, Values, TypeOK, Holding, Session
  <2>3. CASE ~(NoPdfService(w) \/ SavePath(w))
    BY <1>4, <2>3 DEF InPortal, NoPdfServiceFails, Abandon, EarlyEnd, ReadForPath, SavingFails,
                      LateEnd, FileAtPortal, AfterFiling
  <2> QED BY <2>1, <2>2, <2>3
<1>5. CASE Settle(w)
  <2>1. CASE Finish(w)
    <3>1. pc[w] = "writing" /\ \E s : Save(item[w], s, "plain")
      BY <2>1 DEF Finish
    <3> QED BY <1>1, <1>2, <3>1 DEF Holding, Settling
  <2>2. CASE SaveNovedad(w)
    <3>1. pc[w] = "failing" /\ \E n : Save(item[w], "Novedad", n)
      BY <2>2 DEF SaveNovedad
    <3> QED BY <1>1, <1>2, <3>1 DEF Holding, Settling
  <2>3. CASE \/ Refresh(w) \/ WriteFails(w) \/ SyncStep(w) \/ SyncFails(w)
             \/ ReadAfterError(w) \/ CatchFails(w)
    BY <2>3 DEF Refresh, WriteFails, SyncStep, SyncFails, ReadAfterError, CatchFails, Abandon
  <2> QED BY <1>5, <2>1, <2>2, <2>3 DEF Settle
<1> QED BY <1>3, <1>4, <1>5 DEF Worker

\* A worker that holds nothing can only choose.
LEMMA IdleChooses ==
    ASSUME NEW w \in Workers, Worker(w), pc[w] \notin Holding
    PROVE  Choose(w)
BY DEF Worker, InPortal, NoPdfService, NoPdfServiceFails, EarlyEnd, ReadForPath, SavePath,
       SavingFails, LateEnd, FileAtPortal, AfterFiling, Settle, Refresh, Finish, WriteFails,
       SyncStep, SyncFails, ReadAfterError, SaveNovedad, CatchFails, Holding, Session, Settling

\* A row that gets a new updated_at does not come before one that was written more
\* than a second or two ago.
LEMMA TouchedLosesItsTurn ==
    ASSUME TypeOK, NEW t \in Demands, NEW d \in Demands, t # d, d \notin fresh, Touch(t),
           \A e \in Demands \ {t} : row'[e] = row[e], overridden \subseteq overridden'
    PROVE  Ahead(d)' \subseteq Ahead(d)
<1>1. SUFFICES ASSUME NEW e \in Demands, e \notin overridden', IsPending(e)', <<e, d>> \in before'
               PROVE  e \notin overridden /\ IsPending(e) /\ <<e, d>> \in before
  BY DEF Ahead
<1>2. PICK E \in SUBSET (Demands \ {t}) : (Demands \ {t}) \ fresh \subseteq E /\ Place(t, E)
  BY DEF Touch
<1>3. e # t /\ <<e, d>> \in before
  BY <1>1, <1>2, Placed
<1> QED BY <1>1, <1>3 DEF IsPending

\* One that gets back an old updated_at may come before any, so it must not be
\* pending, or be an operator's.
LEMMA SavedOldHasNoTurn ==
    ASSUME TypeOK, NEW t \in Demands, NEW d \in Demands, t # d,
           NEW E \in SUBSET (Demands \ {t}), Place(t, E), t \in overridden' \/ ~IsPending(t)',
           \A e \in Demands \ {t} : row'[e] = row[e], overridden \subseteq overridden'
    PROVE  Ahead(d)' \subseteq Ahead(d)
<1>1. SUFFICES ASSUME NEW e \in Demands, e \notin overridden', IsPending(e)', <<e, d>> \in before'
               PROVE  e \notin overridden /\ IsPending(e) /\ <<e, d>> \in before
  BY DEF Ahead
<1>2. e # t
  BY <1>1
<1>3. <<e, d>> \in before
  BY <1>1, <1>2, Placed
<1> QED BY <1>1, <1>2, <1>3 DEF IsPending

\* However many rows come, fail and return, a pending row that has waited for a second
\* or two is not passed by one that becomes pending after it: no worker saves a row
\* that is pending, and what is saved with a new updated_at goes behind it.
THEOREM TurnIsKept == Spec => TurnsAreKept
<1>1. IInv /\ [Next]_vars
        => [\A d \in Demands \ (overridden \cup fresh) :
              IsPending(d) /\ IsPending(d)' /\ ~OperatorPut(d) => Ahead(d)' \subseteq Ahead(d)]_vars
  <2> SUFFICES ASSUME IInv, [Next]_vars, NEW d \in Demands, d \notin overridden, d \notin fresh,
                      IsPending(d), IsPending(d)', ~OperatorPut(d)
               PROVE  Ahead(d)' \subseteq Ahead(d)
    OBVIOUS
  <2>1. TypeOK /\ DemandInv(d) /\ \A t \in Demands : DemandInv(t)
    BY DEF IInv
  <2>2. ASSUME row' = row, before' = before, overridden \subseteq overridden'
        PROVE  Ahead(d)' \subseteq Ahead(d)
    BY <2>2 DEF Ahead, IsPending
  <2>3. ASSUME NEW w \in Workers, Worker(w) PROVE Ahead(d)' \subseteq Ahead(d)
    <3>1. overridden \subseteq overridden'
      BY <2>1, <2>3, ChooseFrame, PortalFrame, SettleFrame DEF Worker, StepFrame
    <3>2. CASE row' = row /\ before' = before
      BY <2>2, <3>1, <3>2
    <3>3. CASE /\ item[w] \in Demands /\ Touch(item[w])
               /\ \A e \in Demands \ {item[w]} : row'[e] = row[e]
               /\ pc[w] = "cand" /\ row'[item[w]].status = "En proceso"
      <4>1. item[w] # d
        BY <3>3 DEF IsPending, Pending
      <4> QED BY <2>1, <3>1, <3>3, <4>1, TouchedLosesItsTurn
    <3>4. CASE /\ item[w] \in Demands
               /\ \A e \in Demands \ {item[w]} : row'[e] = row[e]
               /\ pc[w] \in Session \cup {"writing", "failing"}
               /\ Touch(item[w]) \/ (pc[w] = "saving" /\ SavePath(w))
      <4>1. item[w] = d => HolderInv(w, d)
        BY <2>1, <3>4 DEF DemandInv, Holds, Holding, Settling
      <4>2. item[w] # d
        BY <4>1 DEF HolderInv, IsPending, Pending
      <4>3. CASE Touch(item[w])
        BY <2>1, <3>1, <3>4, <4>2, <4>3, TouchedLosesItsTurn
      <4>4. CASE pc[w] = "saving" /\ SavePath(w)
        <5>1. PICK t \in Demands : t = item[w]
          BY <3>4
        <5>2. t \in overridden' \/ ~IsPending(t)'
          <6>1. t \notin overridden => snap[w].status = "En proceso"
            BY <2>1, <4>4, <5>1 DEF DemandInv, HolderInv, Holds, Holding, Session
          <6>2. row'[t].status = snap[w].status
            BY <2>1, <4>4, <5>1 DEF SavePath, Values, TypeOK
          <6> QED BY <3>1, <6>1, <6>2 DEF IsPending, Pending
        <5>3. PICK E \in SUBSET (Demands \ {t}) : Place(t, E)
          BY <4>4, <5>1 DEF SavePath
        <5> QED BY <2>1, <3>1, <3>4, <4>2, <5>1, <5>2, <5>3, SavedOldHasNoTurn
      <4> QED BY <3>4, <4>3, <4>4
    <3>5. "saving" \in Session
      BY DEF Session
    <3> QED BY <2>1, <2>3, <3>2, <3>3, <3>4, <3>5, WorkerWrites
  <2>4. ASSUME NEW t \in Demands, Arrive(t) \/ OperatorPost(t) \/ OperatorPut(t)
        PROVE  Ahead(d)' \subseteq Ahead(d)
    <3>1. /\ overridden \subseteq overridden'
          /\ \A e \in Demands \ {t} : row'[e] = row[e]
          /\ Touch(t) \/ (row' = row /\ before' = before)
      BY <2>1, <2>4 DEF Arrive, OperatorPost, OperatorPut, Save, Values, TypeOK, history
    <3>2. t # d
      BY <2>4 DEF Arrive, OperatorPost, IsPending, Pending
    <3> QED BY <2>1, <2>2, <3>1, <3>2, TouchedLosesItsTurn
  <2>5. ASSUME NEW t \in Demands, OperatorDelete(t) PROVE Ahead(d)' \subseteq Ahead(d)
    <3>1. before' = before /\ overridden' = overridden
          /\ \A e \in Demands : IsPending(e)' => IsPending(e)
      BY <2>1, <2>5 DEF OperatorDelete, IsPending, Pending, TypeOK, RowVal, history
    <3> QED BY <3>1 DEF Ahead
  <2>6. CASE Crash \/ Environment \/ UNCHANGED vars \/ \E t \in Demands : PutFinds(t) \/ Age(t)
    BY <2>2, <2>6 DEF Crash, Environment, vars, PutFinds, Age, history
  <2> QED BY <2>3, <2>4, <2>5, <2>6 DEF Next
<1> QED BY <1>1, Inductive, PTL DEF Spec, TurnsAreKept

\* A row that is in process and has no worker is written by nobody but an
\* operator: it waits for one, for any number of workers, restarts included.
THEOREM OrphansAreLeft == Spec => OrphansStay
<1>1. TypeOK /\ [Next]_vars
        => [\A d \in Demands :
              row[d].status = "En proceso" /\ ~Held(d)
                 => \/ row'[d] = row[d] /\ ~Held(d)'
                    \/ OperatorPut(d) \/ OperatorDelete(d)]_vars
  <2> SUFFICES ASSUME TypeOK, [Next]_vars, NEW d \in Demands, row[d].status = "En proceso",
                      ~Held(d), ~OperatorPut(d), ~OperatorDelete(d)
               PROVE  row'[d] = row[d] /\ ~Held(d)'
    OBVIOUS
  <2>1. \A v \in Workers : ~Holds(v, d)
    BY DEF Held
  <2>2. ASSUME UNCHANGED <<pc, item>> PROVE ~Held(d)'
    BY <2>1, <2>2 DEF Held, Holds
  <2>3. ASSUME NEW w \in Workers, Worker(w) PROVE row'[d] = row[d] /\ ~Held(d)'
    <3>1. StepFrame(w)
      BY <2>3, ChooseFrame, PortalFrame, SettleFrame DEF Worker
    <3>2. row'[d] = row[d]
      <4>1. item[w] = d => pc[w] \notin Session \cup {"writing", "failing"} /\ ~IsPending(d)
        BY <2>1 DEF Holds, Holding, Settling, IsPending, Pending
      <4>2. "saving" \in Session
        BY DEF Session
      <4> QED BY <2>3, <4>1, <4>2, WorkerWrites
    <3>3. ASSUME NEW v \in Workers, v # w PROVE ~Holds(v, d)'
      BY <2>1, <3>1, <3>3 DEF StepFrame, Holds
    <3>4. ~Holds(w, d)'
      <4>1. CASE item[w] # d
        BY <3>1, <4>1, QueueAssumption DEF StepFrame, Holds
      <4>2. CASE item[w] = d
        <5>1. pc[w] \notin Holding /\ ~IsPending(item[w])
          BY <2>1, <4>2 DEF Holds, IsPending, Pending
        <5>2. Choose(w)
          BY <2>3, <5>1, IdleChooses
        <5>3. pc'[w] \notin Holding
          BY <5>1, <5>2, ChooseIdle, ChooseWrites
        <5> QED BY <5>3 DEF Holds
      <4> QED BY <4>1, <4>2
    <3> QED BY <3>2, <3>3, <3>4 DEF Held
  <2>4. ASSUME NEW e \in Demands,
               Arrive(e) \/ OperatorPost(e) \/ OperatorPut(e) \/ OperatorDelete(e)
        PROVE  row'[d] = row[d] /\ ~Held(d)'
    <3>1. e # d
      BY <2>4 DEF Arrive, OperatorPost
    <3> QED BY <2>2, <2>4, <3>1 DEF Arrive, OperatorPost, OperatorPut, OperatorDelete, Save, Values, TypeOK
  <2>5. CASE Crash
    <3>1. "loop" \notin Holding
      BY DEF Holding, Session, Settling, Syncing
    <3> QED BY <2>5, <3>1 DEF Crash, Held, Holds
  <2>6. CASE Environment \/ UNCHANGED vars \/ \E e \in Demands : PutFinds(e) \/ Age(e)
    BY <2>2, <2>6 DEF Environment, vars, PutFinds, Age
  <2> QED BY <2>3, <2>4, <2>5, <2>6 DEF Next
<1> QED BY <1>1, TypeCorrect, PTL DEF Spec, OrphansStay

\* The external updates of a registered demand that a worker still holds are
\* not all made.
Unsynced(d) ==
    d \notin overridden =>
       \A w \in Workers : Holds(w, d) /\ row[d].status = "Registrada" => ext[d] <= 2

\* An external update after which the worker is not done is not the third.
LEMMA SyncStepNotLast ==
    ASSUME NEW w \in Workers, SyncStep(w), ~Leave(w)
    PROVE  \E i \in {1, 2} : ext' = [ext EXCEPT ![item[w]] = i]
<1>1. PICK i \in {1, 2, 3} :
         ext' = [ext EXCEPT ![item[w]] = i] /\ (i = 3 => Leave(w))
  BY Zenon DEF SyncStep
<1> QED BY <1>1

LEMMA UnsyncedStep ==
    ASSUME IInv, IInv', [Next]_vars, NEW d \in Demands, Unsynced(d)
    PROVE  Unsynced(d)'
<1>1. TypeOK /\ DemandInv(d) /\ DemandInv(d)'
  BY DEF IInv
<1>2. SUFFICES ASSUME d \notin overridden', NEW v \in Workers, Holds(v, d)',
                      row'[d].status = "Registrada"
               PROVE  ext'[d] <= 2
  BY DEF Unsynced
<1>3. HolderInv(v, d)' /\ pc'[v] \in Holding /\ pc'[v] \notin Session \cup {"report", "writing"}
  BY <1>1, <1>2 DEF DemandInv, HolderInv, Holds
<1>4. ASSUME d \notin overridden, row'[d].status = row[d].status, ext'[d] = ext[d], Holds(v, d)
      PROVE  ext'[d] <= 2
  BY <1>2, <1>4 DEF Unsynced
<1>5. ASSUME NEW w \in Workers, Worker(w) PROVE ext'[d] <= 2
  <2>1. StepFrame(w) /\ d \notin overridden
    BY <1>1, <1>2, <1>5, ChooseFrame, PortalFrame, SettleFrame DEF Worker, StepFrame
  <2>2. CASE d # item[w]
    <3>1. row'[d] = row[d] /\ ext'[d] = ext[d] /\ Holds(v, d)
      BY <1>1, <1>2, <1>5, <2>1, <2>2, ExtFrame, QueueAssumption DEF StepFrame, Holds
    <3> QED BY <1>4, <2>1, <3>1
  <2>3. CASE d = item[w] /\ pc[w] \notin Holding
    <3>1. Choose(w)
      BY <1>5, <2>3, IdleChooses
    <3>2. row'[d] = row[d]
      <4>1. pc[w] \notin Session \cup {"writing", "failing", "saving"}
        BY <2>3 DEF Holding, Settling, Session
      <4> QED BY <1>1, <1>2, <1>5, <2>3, <4>1, WorkerWrites
    <3>3. pc'[w] \notin Settling /\ ext' = ext
      <4>1. CASE row' = row
        BY <1>1, <3>1, <4>1, ChooseIdle DEF Holding
      <4>2. CASE row' # row
        BY <1>1, <3>1, <4>2, ChooseWrites DEF Settling, Syncing
      <4> QED BY <4>1, <4>2
    <3>4. v # w
      BY <1>3, <3>3 DEF Holding
    <3>5. Holds(v, d)
      BY <1>2, <2>1, <3>4 DEF StepFrame, Holds
    <3> QED BY <1>4, <2>1, <3>2, <3>3, <3>5
  <2>4. CASE d = item[w] /\ pc[w] \in Holding
    <3>1. v = w /\ HolderInv(w, d) /\ Holds(w, d)
      BY <1>1, <1>2, <2>1, <2>4, OnlyHolder DEF Holds
    <3>2. ASSUME Leave(w) PROVE FALSE
      <4>1. pc'[w] = "loop"
        BY <1>1, <3>2 DEF Leave, Goto, TypeOK
      <4> QED BY <1>3, <3>1, <4>1 DEF Holding, Session, Settling, Syncing
    <3>3. CASE InPortal(w)
      <4>1. pc[w] \in Session /\ row[d].status # "Registrada"
        BY <3>1, <3>3 DEF InPortal, NoPdfService, NoPdfServiceFails, EarlyEnd, ReadForPath,
                          SavePath, SavingFails, LateEnd, FileAtPortal, AfterFiling, Session,
                          HolderInv
      <4>2. CASE SavePath(w)
        <5>1. pc'[w] = "attached"
          BY <1>1, <4>2 DEF SavePath, Goto, TypeOK
        <5> QED BY <1>3, <3>1, <5>1 DEF Session
      <4>3. CASE ~SavePath(w)
        <5>1. row' = row
          BY <3>2, <3>3, <4>3 DEF InPortal, NoPdfService, NoPdfServiceFails, Abandon, EarlyEnd,
                                  ReadForPath, SavingFails, LateEnd, FileAtPortal, AfterFiling
        <5> QED BY <1>2, <4>1, <5>1
      <4> QED BY <4>2, <4>3
    <3>4. CASE Settle(w)
      <4>1. CASE Finish(w)
        <5>1. ext' = [ext EXCEPT ![d] = 0]
          BY <2>4, <3>2, <4>1 DEF Finish
        <5> QED BY <1>1, <5>1 DEF TypeOK
      <4>2. CASE SyncStep(w)
        <5>1. \E i \in {1, 2} : ext' = [ext EXCEPT ![d] = i]
          BY <2>4, <3>2, <4>2, SyncStepNotLast
        <5> QED BY <1>1, <5>1 DEF TypeOK
      <4>3. CASE Refresh(w) \/ WriteFails(w) \/ SyncFails(w) \/ ReadAfterError(w)
        <5>1. row' = row /\ ext' = ext
          BY <4>3 DEF Refresh, WriteFails, SyncFails, ReadAfterError
        <5> QED BY <1>4, <2>1, <3>1, <5>1
      <4>4. CASE SaveNovedad(w) \/ CatchFails(w)
        BY <3>2, <4>4 DEF SaveNovedad, CatchFails, Abandon
      <4> QED BY <3>4, <4>1, <4>2, <4>3, <4>4 DEF Settle
    <3>5. CASE Choose(w)
      BY <1>1, <2>4, <3>5, ChooseIdle, ChooseWrites DEF Holding, Session, Settling, Syncing
    <3> QED BY <1>5, <3>3, <3>4, <3>5 DEF Worker
  <2> QED BY <2>2, <2>3, <2>4
<1>6. ASSUME NEW e \in Demands,
             Arrive(e) \/ OperatorPost(e) \/ OperatorPut(e) \/ OperatorDelete(e)
      PROVE  ext'[d] <= 2
  <2>1. UNCHANGED <<pc, item, ext>> /\ d \notin overridden
    BY <1>2, <1>6 DEF Arrive, OperatorPost, OperatorPut, OperatorDelete, history
  <2>2. Holds(v, d)
    BY <1>2, <2>1 DEF Holds
  <2>3. row'[d] = row[d]
    <3>1. CASE e # d
      BY <1>1, <1>6, <3>1 DEF Arrive, OperatorPost, OperatorPut, OperatorDelete, Save, Values, TypeOK
    <3>2. CASE e = d /\ (Arrive(e) \/ OperatorDelete(e))
      BY <1>1, <1>2, <3>2 DEF Arrive, OperatorDelete, Save, Values, TypeOK, RowVal
    <3>3. CASE e = d /\ (OperatorPost(e) \/ OperatorPut(e))
      <4>1. PICK s \in Statuses : /\ Values(d, s, "plain")
                                  /\ s \in Pending \/ overridden' = overridden \cup {d}
        BY <3>3 DEF OperatorPost, OperatorPut, Save
      <4>2. row'[d].status = s
        BY <1>1, <4>1 DEF Save, Values, TypeOK
      <4> QED BY <1>2, <4>1, <4>2 DEF Pending
    <3> QED BY <1>6, <3>1, <3>2, <3>3
  <2> QED BY <1>4, <2>1, <2>2, <2>3
<1>7. CASE Crash
  <2>1. pc'[v] = "loop"
    BY <1>7 DEF Crash
  <2> QED BY <1>3, <2>1 DEF Holding, Session, Settling, Syncing
<1>8. CASE Environment \/ UNCHANGED vars \/ \E e \in Demands : PutFinds(e) \/ Age(e)
  <2>1. UNCHANGED <<row, ext, pc, item, overridden>>
    BY <1>8 DEF Environment, vars, PutFinds, Age, history
  <2> QED BY <1>2, <1>4, <2>1 DEF Holds
<1> QED BY <1>5, <1>6, <1>7, <1>8 DEF Next

\* The lifecycle of the README holds from the third external update on: then no
\* worker, crash or failure takes a Registrada back, only an operator's call.
THEOREM SyncedStaysRegistrada == Spec => SyncedIsFinal
<1>1. Init => \A d \in Demands : Unsynced(d)
  BY DEF Init, Unsynced, BlankRow
<1>2. IInv /\ IInv' /\ (\A d \in Demands : Unsynced(d)) /\ [Next]_vars
        => (\A d \in Demands : Unsynced(d)')
  BY UnsyncedStep
<1>3. (\A d \in Demands : Unsynced(d)') <=> (\A d \in Demands : Unsynced(d))'
  OBVIOUS
<1>4. IInv /\ (\A d \in Demands : Unsynced(d)) /\ [Next]_vars
        => [\A d \in Demands \ overridden :
              row[d].status = "Registrada" /\ ext[d] = 3
                 => \/ row'[d] = row[d] /\ ext'[d] = 3
                    \/ OperatorPut(d) \/ OperatorDelete(d)]_vars
  <2> SUFFICES ASSUME IInv, [Next]_vars, NEW d \in Demands, d \notin overridden, Unsynced(d),
                      row[d].status = "Registrada", ext[d] = 3,
                      ~OperatorPut(d), ~OperatorDelete(d)
               PROVE  row'[d] = row[d] /\ ext'[d] = 3
    OBVIOUS
  <2>1. TypeOK /\ \A v \in Workers : ~Holds(v, d)
    BY DEF IInv, Unsynced
  <2>2. ASSUME NEW w \in Workers, Worker(w) PROVE row'[d] = row[d] /\ ext'[d] = 3
    <3>1. item[w] = d => pc[w] \notin Holding /\ ~IsPending(d)
      BY <2>1 DEF Holds, IsPending, Pending
    <3>2. row'[d] = row[d]
      <4>1. item[w] = d => pc[w] \notin Session \cup {"writing", "failing"}
        BY <3>1 DEF Holding, Settling
      <4>2. "saving" \in Session
        BY DEF Session
      <4> QED BY <2>1, <2>2, <3>1, <4>1, <4>2, WorkerWrites
    <3>3. ext'[d] = 3
      <4>1. CASE item[w] # d
        BY <2>1, <2>2, <4>1, ExtFrame
      <4>2. CASE item[w] = d
        <5>1. Choose(w)
          BY <2>2, <3>1, <4>2, IdleChooses
        <5> QED BY <2>1, <5>1, ChooseIdle, ChooseWrites
      <4> QED BY <4>1, <4>2
    <3> QED BY <3>2, <3>3
  <2>3. ASSUME NEW e \in Demands,
               Arrive(e) \/ OperatorPost(e) \/ OperatorPut(e) \/ OperatorDelete(e)
        PROVE  row'[d] = row[d] /\ ext'[d] = 3
    <3>1. e # d
      BY <2>3 DEF Arrive, OperatorPost
    <3> QED BY <2>1, <2>3, <3>1 DEF Arrive, OperatorPost, OperatorPut, OperatorDelete, Save, Values, TypeOK
  <2>4. CASE Crash \/ Environment \/ UNCHANGED vars \/ \E e \in Demands : PutFinds(e) \/ Age(e)
    BY <2>4 DEF Crash, Environment, vars, PutFinds, Age
  <2> QED BY <2>2, <2>3, <2>4 DEF Next
<1> QED BY <1>1, <1>2, <1>3, <1>4, Inductive, PTL DEF Spec, SyncedIsFinal
============================================================================
