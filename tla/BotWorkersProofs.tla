-------------------------- MODULE BotWorkersProofs --------------------------
(***************************************************************************)
(* The worker loops under the control of the bot, for any configurations,  *)
(* calls and workers: what a worker works for was found in its conditions  *)
(* since it last asked, and it takes at most one demand too many.          *)
(***************************************************************************)
EXTENDS BotWorkers, BotControlProofs

\* While a worker awaits runOnce's answer the current configuration is the one it
\* asked about, or a start has approved it since.
AskedIsCurrent ==
    \A w \in Workers :
       pc[w] = "once" /\ current # NoConfig => current = asked[w] \/ current \in approved[w]

\* A configuration a worker served late is still not the bot's; when the worker
\* reads its id again it was deleted, and choosing a demand of it is out of reach.
LateInv ==
    \A w \in Workers :
       /\ \A i \in late[w] : ~Current(i)
       /\ pc[w] = "record" /\ used[w] \in late[w] => used[w] \notin stored
       /\ pc[w] = "choose" => used[w] \notin late[w]

WorkersInv ==
    /\ WorkersTypeOK
    /\ CurrentIsRunning
    /\ AskedIsCurrent
    /\ WorksWithinConditions
    /\ LateInv

----------------------------------------------------------------------------
\* The variables of a worker that sleeps keep their types.
LEMMA SleepType ==
    ASSUME WorkersTypeOK, NEW w \in Workers, Sleep(w), UNCHANGED vars
    PROVE  WorkersTypeOK'
  BY ControlAssumption DEF WorkersTypeOK, Sleep, Move, vars, PC, TypeOK

\* So do those of one that asks while the bot runs.
LEMMA AskType ==
    ASSUME WorkersTypeOK, CurrentIsRunning, running, NEW w \in Workers,
           NEW p \in {"loop", "once"}, pc[w] \in {"asleep", "loop"}, Ask(w, p), UNCHANGED vars
    PROVE  WorkersTypeOK'
  BY ControlAssumption DEF WorkersTypeOK, CurrentIsRunning, Ask, Move, vars, PC, TypeOK

\* And those of the workers of a process that starts.
LEMMA NoWorkType ==
    ASSUME TypeOK', NoWork
    PROVE  WorkersTypeOK'
  BY DEF WorkersTypeOK, NoWork, PC

\* Every step of a worker that leaves the process alive leaves BotControl alone.
LEMMA WorkerAlone ==
    ASSUME NEW w \in Workers, Worker(w)
    PROVE  UNCHANGED vars \/ LoopFails(w)
  BY DEF Worker, Wake, LoopAnswer, OnceAnswer, Record, Take, NothingToTake, SessionEnds

\* The control of the bot keeps its types and its flag together.
LEMMA ControlStep ==
    ASSUME TypeOK, CurrentIsRunning, [WorkersNext]_allVars
    PROVE  TypeOK' /\ CurrentIsRunning'
<1>1. ASSUME Boot PROVE TypeOK' /\ CurrentIsRunning'
  BY <1>1, ControlAssumption
     DEF Boot, NoCall, CutOff, Told, Marked, TypeOK, CurrentIsRunning, database, At, Kinds
<1>2. CASE [Next]_vars
  BY <1>2, TypeStep, TogetherStep
<1>3. CASE \E w \in Workers : LoopFails(w)
  BY <1>1, <1>3 DEF LoopFails
<1> QED BY <1>1, <1>2, <1>3, WorkerAlone DEF WorkersNext, Call, Delete, Crash, Next, allVars

\* What a call does to the memory: nothing, or it clears it, or it launches.
LEMMA CallMemory ==
    ASSUME TypeOK, NEW c \in Callers, Handle(c)
    PROVE  /\ UNCHANGED stored
           /\ \/ UNCHANGED memory /\ ~Launches(c)
              \/ ~running' /\ current' = NoConfig /\ ~Launches(c)
              \/ Launches(c) /\ current' = arg[c]
<1> USE DEF memory, database, Launches, Goto, TypeOK
<1>1. CASE StartRead(c)    BY <1>1 DEF StartRead
<1>2. CASE StartCheck(c)   BY <1>2 DEF StartCheck, Persist
<1>3. CASE StartFails(c)   BY <1>3 DEF StartFails, Return
<1>4. CASE StartConflict(c)
  <2>1. CASE Return(c) /\ UNCHANGED memory BY <1>4, <2>1 DEF StartConflict, Return
  <2>2. CASE Launch(c) BY <1>4, <2>2 DEF StartConflict, Launch, Persist
  <2>3. CASE Goto(c, "scan") /\ UNCHANGED memory BY <1>4, <2>3 DEF StartConflict
  <2> QED BY <1>4, <2>1, <2>2, <2>3 DEF StartConflict
<1>5. CASE StartScan(c)
  <2>1. CASE Return(c) /\ UNCHANGED memory BY <1>5, <2>1 DEF StartScan, Return
  <2>2. CASE Launch(c) BY <1>5, <2>2 DEF StartScan, Launch, Persist
  <2> QED BY <1>5, <2>1, <2>2 DEF StartScan
<1>6. CASE StopRead(c)     BY <1>6 DEF StopRead, Persist
<1>7. CASE StatusRead(c)   BY <1>7 DEF StatusRead, Persist
<1>8. CASE UpsertFind(c)   BY <1>8 DEF UpsertFind
<1>9. CASE UpsertSave(c)   BY <1>9 DEF UpsertSave
<1>10. CASE UpsertFails(c) BY <1>10 DEF UpsertFails
<1>11. CASE Answer(c)      BY <1>11 DEF Answer, Return
<1> QED BY <1>1, <1>2, <1>3, <1>4, <1>5, <1>6, <1>7, <1>8, <1>9, <1>10, <1>11 DEF Handle

\* The variables of the workers keep their types when a call is handled.
LEMMA CallType ==
    ASSUME WorkersTypeOK, TypeOK', NEW c \in Callers, Call(c)
    PROVE  WorkersTypeOK'
<1>1. arg[c] \in Configs \/ ~Launches(c)
  BY DEF WorkersTypeOK, TypeOK, Launches
<1> QED BY <1>1 DEF WorkersTypeOK, Call

\* Every step keeps the types of the workers' variables.
LEMMA WorkersTypeStep ==
    ASSUME WorkersTypeOK, CurrentIsRunning, [WorkersNext]_allVars
    PROVE  WorkersTypeOK'
<1>1. TypeOK /\ TypeOK'
  BY ControlStep DEF WorkersTypeOK
<1>2. CASE UNCHANGED allVars
  BY <1>2, <1>1 DEF WorkersTypeOK, allVars, mine
<1>3. ASSUME NEW c \in Callers, Call(c) PROVE WorkersTypeOK'
  BY <1>1, <1>3, CallType
<1>4. ASSUME NEW i \in Configs, Delete(i) PROVE WorkersTypeOK'
  BY <1>1, <1>4 DEF Delete, mine, WorkersTypeOK
<1>5. CASE Crash
  BY <1>1, <1>5, NoWorkType DEF Crash
<1>6. ASSUME NEW w \in Workers, Worker(w) PROVE WorkersTypeOK'
  <2>1. CASE Wake(w)       BY <2>1, AskType DEF Wake
  <2>2. CASE LoopAnswer(w) BY <2>2, AskType, SleepType DEF LoopAnswer
  <2>3. CASE LoopFails(w)  BY <1>1, <2>3, NoWorkType DEF LoopFails
  <2>4. CASE OnceAnswer(w)
    <3>1. CASE Sleep(w) BY <2>4, <3>1, SleepType DEF OnceAnswer
    <3>2. CASE ~Sleep(w)
      <4>1. asked[w] \in Configs
        BY <2>4, ControlAssumption DEF OnceAnswer, WorkersTypeOK
      <4>2. current \in Configs
        BY <1>1, <2>4, <3>2 DEF OnceAnswer, TypeOK
      <4> QED BY <1>1, <2>4, <3>2, <4>1, <4>2, ControlAssumption
              DEF OnceAnswer, Move, WorkersTypeOK, PC
    <3> QED BY <3>1, <3>2
  <2>5. CASE Record(w)
    BY <1>1, <2>5, SleepType DEF Record, Move, WorkersTypeOK, PC
  <2>6. CASE Take(w)
    <3>1. used[w] \in Configs
      BY <2>6 DEF Take, WorkersTypeOK
    <3> QED BY <1>1, <2>6, <3>1 DEF Take, Move, WorkersTypeOK, PC
  <2>7. CASE NothingToTake(w) BY <2>7, SleepType DEF NothingToTake
  <2>8. CASE SessionEnds(w)   BY <2>8, SleepType DEF SessionEnds
  <2> QED BY <1>6, <2>1, <2>2, <2>3, <2>4, <2>5, <2>6, <2>7, <2>8 DEF Worker
<1> QED BY <1>2, <1>3, <1>4, <1>5, <1>6 DEF WorkersNext

----------------------------------------------------------------------------
\* What the workers know does not survive the process, and nothing is asked.
LEMMA NoWorkKeeps ==
    ASSUME NoWork
    PROVE  AskedIsCurrent' /\ WorksWithinConditions' /\ LateInv'
  BY DEF NoWork, AskedIsCurrent, WorksWithinConditions, LateInv

\* A sleeping worker asks about nothing and works for nothing.
LEMMA SleepKeeps ==
    ASSUME WorkersInv, NEW w \in Workers, Sleep(w), UNCHANGED vars
    PROVE  AskedIsCurrent' /\ WorksWithinConditions' /\ LateInv'
<1> USE DEF WorkersInv, WorkersTypeOK, Sleep, Move, vars
<1>1. AskedIsCurrent' BY DEF AskedIsCurrent
<1>2. WorksWithinConditions' BY DEF WorksWithinConditions
<1>3. LateInv' BY DEF LateInv, Current
<1> QED BY <1>1, <1>2, <1>3

\* One that asks, asks about the current configuration.
LEMMA AskKeeps ==
    ASSUME WorkersInv, NEW w \in Workers, NEW p \in {"loop", "once"}, Ask(w, p), UNCHANGED vars
    PROVE  AskedIsCurrent' /\ WorksWithinConditions' /\ LateInv'
<1> USE DEF WorkersInv, WorkersTypeOK, Ask, Move, vars
<1>1. AskedIsCurrent' BY DEF AskedIsCurrent
<1>2. WorksWithinConditions' BY DEF WorksWithinConditions
<1>3. LateInv' BY DEF LateInv, Current
<1> QED BY <1>1, <1>2, <1>3

\* A call clears the current configuration, or approves the one it launches and
\* makes it the bot's.
LEMMA CallKeeps ==
    ASSUME WorkersInv, NEW c \in Callers, Call(c)
    PROVE  AskedIsCurrent' /\ WorksWithinConditions' /\ LateInv'
<1> USE DEF WorkersInv, WorkersTypeOK, Call, memory
<1>1. AskedIsCurrent' BY CallMemory DEF AskedIsCurrent
<1>2. WorksWithinConditions' BY DEF WorksWithinConditions
<1>3. LateInv' BY CallMemory DEF LateInv, Current
<1> QED BY <1>1, <1>2, <1>3

\* Every step of a worker keeps what is known of the configuration it works for.
LEMMA WorkerKeeps ==
    ASSUME WorkersInv, NEW w \in Workers, Worker(w)
    PROVE  AskedIsCurrent' /\ WorksWithinConditions' /\ LateInv'
<1>1. CASE Wake(w)       BY <1>1, AskKeeps DEF Wake
<1>2. CASE LoopAnswer(w) BY <1>2, AskKeeps, SleepKeeps DEF LoopAnswer
<1>3. CASE LoopFails(w)  BY <1>3, NoWorkKeeps DEF LoopFails
<1>4. CASE OnceAnswer(w)
  <2>1. CASE Sleep(w) BY <1>4, <2>1, SleepKeeps DEF OnceAnswer
  <2>2. CASE ~Sleep(w)
    <3> USE <1>4, <2>2 DEF OnceAnswer, WorkersInv, WorkersTypeOK, Move, vars
    <3>1. AskedIsCurrent' BY DEF AskedIsCurrent
    <3>2. WorksWithinConditions' BY DEF WorksWithinConditions, AskedIsCurrent
    <3>3. LateInv' BY DEF LateInv, Current, CurrentIsRunning
    <3> QED BY <3>1, <3>2, <3>3
  <2> QED BY <2>1, <2>2
<1>5. CASE Record(w)
  <2>1. CASE Sleep(w) BY <1>5, <2>1, SleepKeeps DEF Record
  <2>2. CASE ~Sleep(w)
    <3> USE <1>5, <2>2 DEF Record, WorkersInv, WorkersTypeOK, Move, vars
    <3>1. AskedIsCurrent' BY DEF AskedIsCurrent
    <3>2. WorksWithinConditions' BY DEF WorksWithinConditions
    <3>3. LateInv' BY DEF LateInv, Current
    <3> QED BY <3>1, <3>2, <3>3
  <2> QED BY <2>1, <2>2
<1>6. CASE Take(w)
  <2> USE <1>6 DEF Take, WorkersInv, WorkersTypeOK, Move, vars
  <2>1. AskedIsCurrent' BY DEF AskedIsCurrent
  <2>2. WorksWithinConditions' BY DEF WorksWithinConditions
  <2>3. LateInv' BY DEF LateInv, Current
  <2> QED BY <2>1, <2>2, <2>3
<1>7. CASE NothingToTake(w) BY <1>7, SleepKeeps DEF NothingToTake
<1>8. CASE SessionEnds(w)   BY <1>8, SleepKeeps DEF SessionEnds
<1> QED BY <1>1, <1>2, <1>3, <1>4, <1>5, <1>6, <1>7, <1>8 DEF Worker

\* The invariant holds at the start and every step keeps it.
LEMMA WorkersInvariant == WorkersSpec => []WorkersInv
<1>1. WorkersInit => WorkersInv
  <2> SUFFICES ASSUME WorkersInit PROVE WorkersInv OBVIOUS
  <2>1. TypeOK /\ CurrentIsRunning
    BY ControlAssumption DEF WorkersInit, Init, TypeOK, CurrentIsRunning, Rows, At, Kinds, Told
  <2>2. WorkersTypeOK
    BY <2>1 DEF WorkersInit, WorkersTypeOK, PC
  <2> QED BY <2>1, <2>2
          DEF WorkersInit, WorkersInv, AskedIsCurrent, WorksWithinConditions, LateInv
<1>2. WorkersInv /\ [WorkersNext]_allVars => WorkersInv'
  <2> SUFFICES ASSUME WorkersInv, [WorkersNext]_allVars PROVE WorkersInv' OBVIOUS
  <2>1. WorkersTypeOK' /\ CurrentIsRunning'
    BY WorkersTypeStep, ControlStep DEF WorkersInv, WorkersTypeOK
  <2>2. AskedIsCurrent' /\ WorksWithinConditions' /\ LateInv'
    <3>1. CASE UNCHANGED allVars
      BY <3>1 DEF allVars, vars, mine, WorkersInv, AskedIsCurrent, WorksWithinConditions,
                  LateInv, Current
    <3>2. ASSUME NEW i \in Configs, Delete(i)
          PROVE  AskedIsCurrent' /\ WorksWithinConditions' /\ LateInv'
      BY <3>2 DEF Delete, DeleteConfig, memory, mine, WorkersInv, AskedIsCurrent,
                  WorksWithinConditions, LateInv, Current
    <3>3. CASE Crash
      BY <3>3, NoWorkKeeps DEF Crash
    <3> QED BY <3>1, <3>2, <3>3, CallKeeps, WorkerKeeps DEF WorkersNext
  <2> QED BY <2>1, <2>2 DEF WorkersInv
<1> QED BY <1>1, <1>2, PTL DEF WorkersSpec

----------------------------------------------------------------------------
\* Whatever the callers and the workers do, their variables have their types: a
\* worker that asks or works always has a configuration to ask about or work for.
THEOREM WorkersTypeCorrect == WorkersSpec => []WorkersTypeOK
<1>1. WorkersInv => WorkersTypeOK BY DEF WorkersInv
<1> QED BY <1>1, WorkersInvariant, PTL

\* Reading the id after the await never makes a worker work for a configuration
\* nobody found in its conditions since the worker asked.
THEOREM WithinConditions == WorkersSpec => []WorksWithinConditions
<1>1. WorkersInv => WorksWithinConditions BY DEF WorkersInv
<1> QED BY <1>1, WorkersInvariant, PTL

\* A worker takes at most one demand of a configuration that is not the bot's any
\* more before somebody starts it again.
THEOREM OneMoreAtMost == WorkersSpec => AtMostOneMore
<1> DEFINE Safe == \A w \in Workers : pc[w] = "choose" => used[w] \notin late[w]
           Fine == \A w \in Workers : pc[w] = "choose" /\ pc'[w] = "busy" /\ ~Current(used[w])
                                         => used[w] \notin late[w]
<1>1. WorkersInv => Safe
  BY DEF WorkersInv, LateInv
<1>2. Safe => [Fine]_allVars
  OBVIOUS
<1> HIDE DEF Safe, Fine
<1>3. WorkersSpec => [][Fine]_allVars
  BY <1>1, <1>2, WorkersInvariant, PTL
<1> QED BY <1>3 DEF AtMostOneMore, Fine

----------------------------------------------------------------------------
\* Hiding the workers leaves the control of the bot with restarts of its own: no
\* step of a worker writes the flag, the id, the table or a call in progress.
LEMMA WorkersObeyControl == WorkersSpec => ControlOfTheBot
<1>1. WorkersInit => Init
  BY DEF WorkersInit
<1>2. [WorkersNext]_allVars => [Next \/ ("read" \in Faults /\ Boot)]_vars
  <2>1. ASSUME NEW w \in Workers, Worker(w)
        PROVE  UNCHANGED vars \/ ("read" \in Faults /\ Boot)
    BY <2>1, WorkerAlone DEF LoopFails
  <2> QED BY <2>1 DEF WorkersNext, Call, Delete, Crash, Next, allVars
<1> QED BY <1>1, <1>2, PTL DEF WorkersSpec, ControlOfTheBot

\* One bot per portfolio, a table that says what was answered, and a restart that
\* brings back what somebody was told is running: the workers, and the restarts
\* they cause, break none of it.
THEOREM PromisesAreKept == WorkersSpec => PromisesKept
<1> DEFINE Agrees == OneBotPerPortfolio /\ TableMatchesAnswers /\ MemoryIsInTable
           Back   == calm /\ Quiet /\ memory' # memory /\ Quiet' =>
                       IF running' THEN told[current'] # "stopped"
                                   ELSE \A i \in Configs : told[i] # "running"
           Step   == Next \/ ("read" \in Faults /\ Boot)
<1>1. Init => SInv
  BY InitInv
<1>2. SInv /\ [Step]_vars => SInv'
  BY InvStep, BootInv
<1>3. SInv => Agrees
  BY DEF SInv, Agreement, OneEach, AnswersInv, Answers, MemoryInv, OneBotPerPortfolio,
         TableMatchesAnswers, MemoryIsInTable, Quiet, Upserting
<1>4. SInv /\ [Step]_vars => [Back]_vars
  BY MemoryBetweenCalls, BootBringsBack
<1>5. ControlOfTheBot => []Agrees /\ [][Back]_vars
  <2>1. ControlOfTheBot <=> Init /\ [][Step]_vars
    BY DEF ControlOfTheBot
  <2> HIDE DEF Agrees, Back, Step
  <2> QED BY <1>1, <1>2, <1>3, <1>4, <2>1, PTL
<1>6. []Agrees /\ [][Back]_vars <=> PromisesKept
  BY DEF PromisesKept, RehydratesWhatWasTold
<1> QED BY <1>5, <1>6, WorkersObeyControl
=============================================================================
