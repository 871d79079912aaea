-------------------------- MODULE BotControlProofs --------------------------
(***************************************************************************)
(* Starting and stopping the bot, for any configurations, portfolios and   *)
(* callers: the flag and its configuration go together however the calls   *)
(* interleave; table, memory and answers agree until two calls overlap or  *)
(* a start or stop cannot be saved.                                        *)
(***************************************************************************)
EXTENDS BotControl, TLAPS

\* Calls that are persisting something.
Upserting(c) == at[c] \in {"find", "insert", "update"}

\* What a call on its way knows: the row its upsert found missing still is, a
\* start or stop is of a stored configuration, a start that is saved has no rival
\* in its portfolio but one it could not read, a status found no row, while a stop
\* or a refusal is persisted nothing runs, and what is to be answered is in the row.
CallInv(c) ==
    /\ at[c] = "insert" => table[arg[c]] = "absent"
    /\ at[c] \in {"conflict", "scan"} \/ (Upserting(c) /\ kind[c] \in {"start", "stop"})
         => arg[c] \in stored
    /\ at[c] = "scan" => rivals[c] = Rivals(arg[c])
    /\ Upserting(c) /\ kind[c] = "start" =>
         Rivals(arg[c]) = {} \/ PortfolioOf[arg[c]] \in passed
    /\ Upserting(c) /\ kind[c] = "status" => table[arg[c]] # "running"
    /\ Upserting(c) /\ kind[c] \in {"stop", "refused"} => ~running
    /\ Answers(c) => (table[arg[c]] = "running" <=> kind[c] = "start")

\* The row of the bot that runs says so, or the call that started it is about
\* to write it, or its configuration was deleted.
MemoryInv ==
    running => \/ current \notin stored
               \/ table[current] = "running"
               \/ \E c \in Callers : Upserting(c) /\ kind[c] = "start" /\ arg[c] = current

\* No two rows of a portfolio say running, but where a rival was passed over.
OneEach ==
    \A i, j \in Configs :
       table[i] = "running" /\ table[j] = "running" /\ i # j
          => PortfolioOf[i] # PortfolioOf[j] \/ PortfolioOf[i] \in passed

\* What was answered is in the row, unless another answer is on its way.
AnswersInv ==
    \A i \in Configs : \/ told[i] = "unknown"
                       \/ table[i] = "running" <=> told[i] = "running"
                       \/ \E c \in Callers : Answers(c) /\ arg[c] = i

\* What holds while no two calls have overlapped and every start and stop is saved.
Agreement ==
    /\ \A c, d \in Callers : at[c] # "idle" /\ at[d] # "idle" => c = d
    /\ OneEach
    /\ MemoryInv
    /\ \A i \in Configs : table[i] # "absent" => i \in stored
    /\ AnswersInv
    /\ \A c \in Callers : CallInv(c)

SInv == TypeOK /\ CurrentIsRunning /\ (calm => Agreement)

----------------------------------------------------------------------------
\* Where a start, a stop or a status goes next keeps every variable of its type.
LEMMA PersistType ==
    ASSUME TypeOK, NEW c \in Callers, NEW i \in Configs, NEW k \in Kinds, Persist(c, i, k)
    PROVE  /\ at' \in [Callers -> At] /\ kind' \in [Callers -> Kinds]
           /\ arg' \in [Callers -> Configs \cup {NoConfig}]
           /\ rivals' \in [Callers -> SUBSET Configs]
           /\ \A d \in Callers : at'[d] # "idle" => arg'[d] \in Configs
  BY DEF TypeOK, Persist, Goto, At, Kinds

\* So does the end of a call.
LEMMA ReturnType ==
    ASSUME TypeOK, NEW c \in Callers, Return(c)
    PROVE  /\ at' \in [Callers -> At] /\ kind' \in [Callers -> Kinds]
           /\ arg' \in [Callers -> Configs \cup {NoConfig}]
           /\ rivals' \in [Callers -> SUBSET Configs]
           /\ \A d \in Callers : at'[d] # "idle" => arg'[d] \in Configs
  BY DEF TypeOK, Return, Goto, At, Kinds

\* What callers heard is one of three.
LEMMA AnswerType ==
    ASSUME TypeOK, NEW c \in Callers, Answer(c)
    PROVE  told' \in [Configs -> Told]
  BY DEF TypeOK, Answer, Answers, Told

\* Every step keeps every variable of its type.
LEMMA TypeStep == ASSUME TypeOK, [Next]_vars PROVE TypeOK'
<1> USE ControlAssumption
<1>1. ASSUME NEW c \in Callers, StartRead(c) PROVE TypeOK'
  BY <1>1 DEF TypeOK, StartRead, Begin, Goto, memory, database, At
<1>2. ASSUME NEW c \in Callers, StartCheck(c) PROVE TypeOK'
  <2>1. arg[c] \in Configs
    BY <1>2 DEF StartCheck, TypeOK
  <2>2. CASE Goto(c, "conflict") /\ UNCHANGED <<memory, arg, kind, rivals>>
    BY <1>2, <2>1, <2>2 DEF TypeOK, StartCheck, Goto, memory, database, history, At
  <2>3. CASE running' = FALSE /\ current' = NoConfig /\ Persist(c, arg[c], "refused")
    BY <1>2, <2>1, <2>3, PersistType DEF TypeOK, StartCheck, database, history, Kinds
  <2> QED BY <1>2, <2>2, <2>3 DEF StartCheck
<1>3. ASSUME NEW c \in Callers, at[c] \in {"conflict", "scan"}, Launch(c),
             UNCHANGED <<database, told, calm>>, passed' \in SUBSET Portfolios
      PROVE  TypeOK'
  BY <1>3, PersistType DEF TypeOK, Launch, database, Kinds
<1>4. ASSUME NEW c \in Callers, StartConflict(c) PROVE TypeOK'
  <2>1. CASE Return(c) /\ UNCHANGED memory
    BY <1>4, <2>1, ReturnType DEF TypeOK, StartConflict, memory, database, history
  <2>2. CASE /\ Goto(c, "scan") /\ rivals' = [rivals EXCEPT ![c] = Rivals(arg[c])]
             /\ UNCHANGED <<memory, arg, kind>>
    BY <1>4, <2>2
       DEF TypeOK, StartConflict, memory, database, history, Goto, At, Rivals, Others
  <2> QED BY <1>3, <1>4, <2>1, <2>2 DEF StartConflict, history, TypeOK
<1>14. ASSUME NEW c \in Callers, StartScan(c) PROVE TypeOK'
  <2>1. passed' \in SUBSET Portfolios
    BY <1>14 DEF StartScan, TypeOK
  <2>2. CASE Return(c) /\ UNCHANGED <<memory, passed>>
    BY <1>14, <2>2, ReturnType DEF TypeOK, StartScan, memory, database
  <2> QED BY <1>3, <1>14, <2>1, <2>2 DEF StartScan
<1>5. ASSUME NEW c \in Callers, StopRead(c) PROVE TypeOK'
  BY <1>5, PersistType DEF TypeOK, StopRead, database, Begin, Kinds
<1>6. ASSUME NEW c \in Callers, StatusRead(c) PROVE TypeOK'
  BY <1>6, PersistType DEF TypeOK, StatusRead, Begin, memory, database, Kinds
<1>7. ASSUME NEW c \in Callers, UpsertFind(c) PROVE TypeOK'
  BY <1>7 DEF TypeOK, UpsertFind, memory, database, history, Goto, At
<1>8. ASSUME NEW c \in Callers, UpsertSave(c) PROVE TypeOK'
  <2>1. table' \in [Configs -> Rows]
    BY <1>8 DEF UpsertSave, Mark, TypeOK, Rows
  <2> QED BY <1>8, <2>1 DEF TypeOK, UpsertSave, memory, history, Goto, At
<1>9. ASSUME NEW c \in Callers, UpsertFails(c) PROVE TypeOK'
  <2>1. table' \in [Configs -> Rows]
    BY <1>9 DEF UpsertFails, Mark, TypeOK, Rows
  <2> QED BY <1>9, <2>1 DEF TypeOK, UpsertFails, memory, Goto, At
<1>15. ASSUME NEW c \in Callers, Answer(c) PROVE TypeOK'
  BY <1>15, ReturnType, AnswerType DEF TypeOK, Answer, memory, database
<1>10. CASE Restart
  BY <1>10 DEF TypeOK, Restart, Boot, NoCall, CutOff, Told, Marked, database, At, Kinds
<1>11. CASE UNCHANGED vars
  BY <1>11 DEF TypeOK, vars
<1>13. ASSUME NEW c \in Callers, StartFails(c) PROVE TypeOK'
  BY <1>13, ReturnType DEF TypeOK, StartFails, memory, database, history
<1>12. ASSUME NEW i \in Configs, DeleteConfig(i) PROVE TypeOK'
  BY <1>12 DEF TypeOK, DeleteConfig, memory, call, Rows, Told
<1> QED BY <1>1, <1>2, <1>3, <1>4, <1>5, <1>6, <1>7, <1>8, <1>9, <1>10, <1>11, <1>12, <1>13,
       <1>14, <1>15
    DEF Next, Handle

\* Every step sets and clears the flag and its configuration together.
LEMMA TogetherStep ==
    ASSUME TypeOK, CurrentIsRunning, [Next]_vars
    PROVE  CurrentIsRunning'
<1> USE ControlAssumption DEF CurrentIsRunning, memory
<1>1. ASSUME NEW c \in Callers, StartCheck(c) PROVE CurrentIsRunning'
  BY <1>1 DEF StartCheck
<1>2. ASSUME NEW c \in Callers, at[c] \in {"conflict", "scan"}, Launch(c)
      PROVE  CurrentIsRunning'
  BY <1>2 DEF Launch, TypeOK
<1>3. ASSUME NEW c \in Callers, StartConflict(c) PROVE CurrentIsRunning'
  BY <1>2, <1>3 DEF StartConflict
<1>6. ASSUME NEW c \in Callers, StartScan(c) PROVE CurrentIsRunning'
  BY <1>2, <1>6 DEF StartScan
<1>4. CASE Restart
  BY <1>4 DEF Restart, Boot, Marked
<1>5. ASSUME NEW c \in Callers, Handle(c) PROVE CurrentIsRunning'
  BY <1>1, <1>3, <1>5, <1>6
     DEF Handle, StartRead, StartFails, StopRead, StatusRead, UpsertFind, UpsertSave,
         UpsertFails, Answer
<1> QED BY <1>4, <1>5 DEF Next, DeleteConfig, vars

\* At first nothing runs and no call is on its way.
LEMMA InitInv == Init => SInv
<1> SUFFICES ASSUME Init PROVE SInv
  OBVIOUS
<1>1. TypeOK
  BY DEF Init, TypeOK, Rows, At, Kinds, Told
<1> QED BY <1>1
    DEF Init, SInv, CurrentIsRunning, Agreement, MemoryInv, OneEach, AnswersInv, Answers, CallInv,
        Upserting

\* The call that makes a step is the only one on its way while all is calm.
LEMMA OnlyCall ==
    ASSUME TypeOK, calm => Agreement, calm', NEW c \in Callers, Handle(c)
    PROVE  /\ calm /\ Agreement
           /\ \A d \in Callers \ {c} : at[d] = "idle" /\ at'[d] = "idle"
<1>1. calm
  BY DEF Handle, StartRead, StartCheck, StartFails, StartConflict, StartScan, StopRead, StatusRead,
     UpsertFind, UpsertSave, UpsertFails, Answer, Begin, history
<1>2. \A d \in Callers \ {c} : at[d] = "idle"
  BY <1>1 DEF Agreement, Begin, Quiet, Handle, StartRead, StartCheck, StartFails, StartConflict,
     StartScan, StopRead, StatusRead, UpsertFind, UpsertSave, UpsertFails, Answer
<1>3. \A d \in Callers \ {c} : at'[d] = at[d]
  BY DEF TypeOK, Goto, Persist, Return, Launch, Handle, StartRead, StartCheck, StartFails, StartConflict,
     StartScan, StopRead, StatusRead, UpsertFind, UpsertSave, UpsertFails, Answer
<1> QED BY <1>1, <1>2, <1>3

\* While all is calm, every step of a call keeps what table, memory and answers
\* have to do with each other.
LEMMA HandleStep ==
    ASSUME SInv, TypeOK', CurrentIsRunning', NEW c \in Callers, Handle(c)
    PROVE  SInv'
<1> SUFFICES ASSUME calm' PROVE Agreement'
  BY DEF SInv
<1>1. /\ calm /\ Agreement
      /\ \A d \in Callers \ {c} : at[d] = "idle" /\ at'[d] = "idle"
  BY OnlyCall DEF SInv
<1> DEFINE StoredRows == \A i \in Configs : table[i] # "absent" => i \in stored
<1>2. SUFFICES OneEach' /\ MemoryInv' /\ CallInv(c)' /\ StoredRows' /\ AnswersInv'
  BY <1>1 DEF Agreement, CallInv, Upserting, Answers
<1>a. ~Answers(c) /\ ~Answers(c)' => \A d \in Callers : ~Answers(d) /\ ~Answers(d)'
  BY <1>1 DEF Answers
<1> USE <1>1, ControlAssumption
    DEF SInv, TypeOK, Agreement, OneEach, AnswersInv, MemoryInv, CallInv, Upserting, Answers, Rivals,
        Others, Goto, memory, database, history
<1>3. CASE StartRead(c)
  BY <1>3 DEF StartRead
<1>4. CASE StartCheck(c)
  BY <1>4 DEF StartCheck, Persist
<1>5. ASSUME at[c] \in {"conflict", "scan"}, Launch(c), UNCHANGED <<database, told, calm>>,
             passed \subseteq passed', Rivals(arg[c]) = {} \/ PortfolioOf[arg[c]] \in passed'
      PROVE  Agreement'
  BY <1>2, <1>5 DEF Launch, Persist
<1>13. CASE StartFails(c)
  BY <1>13 DEF StartFails, Return
<1>6. CASE StartConflict(c)
  <2>1. CASE Return(c) /\ UNCHANGED memory
    BY <1>6, <2>1 DEF StartConflict, Return
  <2>2. CASE Launch(c) /\ Others(arg[c]) = {}
    BY <1>5, <1>6, <2>2 DEF StartConflict
  <2>3. CASE /\ Goto(c, "scan") /\ rivals' = [rivals EXCEPT ![c] = Rivals(arg[c])]
             /\ UNCHANGED <<memory, arg, kind>> /\ arg[c] \in stored
    BY <1>6, <2>3 DEF StartConflict
  <2> QED BY <1>6, <2>1, <2>2, <2>3 DEF StartConflict
<1>7. CASE StartScan(c)
  <2>1. rivals[c] = Rivals(arg[c]) /\ rivals[c] \cap stored = rivals[c]
    BY <1>7 DEF StartScan, Rows
  <2>2. CASE Return(c) /\ UNCHANGED <<memory, passed>>
    BY <1>7, <2>2 DEF StartScan, Return
  <2>3. CASE ~(Return(c) /\ UNCHANGED <<memory, passed>>)
    <3>1. /\ Launch(c) /\ passed \subseteq passed'
          /\ rivals[c] = {} \/ PortfolioOf[arg[c]] \in passed'
      BY <1>7, <2>1, <2>3 DEF StartScan
    <3> QED BY <1>5, <1>7, <2>1, <3>1 DEF StartScan
  <2> QED BY <2>2, <2>3
<1>8. CASE StopRead(c)
  BY <1>8 DEF StopRead, Persist
<1>9. CASE StatusRead(c)
  BY <1>9 DEF StatusRead, Persist
<1>10. CASE UpsertFind(c)
  BY <1>10 DEF UpsertFind
<1>11. ASSUME at[c] \in {"insert", "update"}, Goto(c, "answer"),
              UNCHANGED <<memory, stored, arg, kind, rivals, history>>,
              IF Writable(c) THEN table' = Mark(c) ELSE UNCHANGED table
       PROVE  Agreement'
  <2>1. at'[c] = "answer" /\ Upserting(c)
    BY <1>11
  <2>2. CASE Writable(c)
    <3>1. /\ table'[arg[c]] = IF kind[c] = "start" THEN "running" ELSE "stopped"
          /\ \A i \in Configs \ {arg[c]} : table'[i] = table[i]
          /\ arg[c] \in Configs
      BY <1>11, <2>2 DEF Mark
    <3>2. AnswersInv'
      <4>1. ASSUME NEW i \in Configs, i # arg[c]
            PROVE  told'[i] = "unknown" \/ (table'[i] = "running" <=> told'[i] = "running")
        BY <1>11, <2>1, <3>1, <4>1
      <4>2. CASE kind[c] = "status"
        <5>1. table[arg[c]] # "running" /\ table'[arg[c]] # "running"
          BY <2>1, <3>1, <4>2
        <5>2. told'[arg[c]] = "unknown" \/ told'[arg[c]] # "running"
          BY <1>11, <2>1, <5>1
        <5> QED BY <4>1, <5>1, <5>2
      <4>3. CASE kind[c] # "status"
        <5>1. Answers(c)' /\ arg'[c] = arg[c]
          BY <1>11, <2>1, <4>3
        <5> QED BY <4>1, <5>1
      <4> QED BY <4>2, <4>3
    <3>3. OneEach'
      BY <1>11, <2>1, <3>1
    <3>4. MemoryInv'
      BY <1>11, <2>1, <3>1 DEF CurrentIsRunning, Kinds
    <3>5. StoredRows'
      BY <1>11, <2>2, <3>1 DEF Writable
    <3>6. CallInv(c)'
      BY <1>11, <2>1, <3>1
    <3> QED BY <1>2, <3>2, <3>3, <3>4, <3>5, <3>6
  <2>3. CASE ~Writable(c)
    <3>1. arg[c] \notin stored /\ kind[c] \in {"refused", "status"} /\ table[arg[c]] = "absent"
      BY <1>11, <2>3 DEF Writable, Kinds
    <3>2. table' = table
      BY <1>11, <2>3
    <3>3. AnswersInv'
      BY <1>11, <2>1, <3>1, <3>2
    <3>4. OneEach' /\ MemoryInv' /\ StoredRows' /\ CallInv(c)'
      BY <1>11, <2>1, <3>1, <3>2
    <3> QED BY <1>2, <3>3, <3>4
  <2> QED BY <2>2, <2>3
<1>14. CASE UpsertSave(c)
  BY <1>11, <1>14 DEF UpsertSave
<1>12. CASE UpsertFails(c)
  <2>1. kind[c] = "status" /\ at'[c] = "answer" /\ Upserting(c)
    BY <1>12 DEF UpsertFails
  <2>2. UNCHANGED <<memory, stored, arg, kind, rivals, told, passed>>
    BY <1>12 DEF UpsertFails
  <2>3. CASE UNCHANGED table
    BY <1>12, <2>1, <2>2, <2>3
  <2>4. CASE at[c] # "find" /\ Writable(c) /\ table' = Mark(c)
    BY <1>11, <1>12, <2>1, <2>4 DEF UpsertFails
  <2> QED BY <1>12, <2>3, <2>4 DEF UpsertFails
<1>15. CASE Answer(c)
  <2>1. at'[c] = "idle" /\ UNCHANGED <<memory, database, passed, calm>> /\ at[c] = "answer"
    BY <1>15 DEF Answer, Return
  <2>2. CASE Answers(c)
    <3>1. /\ told'[arg[c]] = IF kind[c] = "start" THEN "running" ELSE "stopped"
          /\ \A i \in Configs \ {arg[c]} : told'[i] = told[i]
          /\ table[arg[c]] = "running" <=> kind[c] = "start"
      BY <1>15, <2>2 DEF Answer
    <3>2. AnswersInv'
      BY <2>1, <3>1
    <3> QED BY <2>1, <3>2
  <2>3. CASE ~Answers(c)
    BY <1>15, <2>1, <2>3 DEF Answer
  <2> QED BY <2>2, <2>3
<1> QED BY <1>3, <1>4, <1>6, <1>7, <1>8, <1>9, <1>10, <1>12, <1>13, <1>14, <1>15 DEF Handle

\* A process that starts finds table, memory and answers in agreement: what
\* nobody saved is forgotten by all of them, and what was saved but not answered
\* is known to be unknown.
LEMMA BootInv == ASSUME SInv, Boot PROVE SInv'
<1>1. TypeOK' /\ CurrentIsRunning'
  BY ControlAssumption
     DEF SInv, Boot, NoCall, CutOff, Told, Marked, TypeOK, CurrentIsRunning, database, At, Kinds
<1>2. calm' = calm /\ table' = table /\ stored' = stored /\ passed' = passed
  BY DEF Boot, database
<1>3. \A c \in Callers : at'[c] = "idle"
  BY DEF Boot, NoCall
<1>4. SUFFICES ASSUME calm PROVE Agreement'
  BY <1>1, <1>2 DEF SInv
<1>5. Agreement
  BY <1>4 DEF SInv
<1>6. AnswersInv'
  BY <1>2, <1>5 DEF SInv, TypeOK, Boot, CutOff, Agreement, AnswersInv
<1>7. MemoryInv'
  BY <1>2 DEF Boot, Marked, MemoryInv
<1>8. OneEach' /\ \A i \in Configs : table'[i] # "absent" => i \in stored'
  BY <1>2, <1>5 DEF Agreement, OneEach
<1>9. \A c \in Callers : CallInv(c)'
  BY <1>3 DEF CallInv, Upserting, Answers
<1> QED BY <1>3, <1>6, <1>7, <1>8, <1>9 DEF Agreement

\* So do a restart and the deletion of a configuration.
LEMMA InvStep == ASSUME SInv, [Next]_vars PROVE SInv'
<1>1. TypeOK' /\ CurrentIsRunning'
  BY TypeStep, TogetherStep DEF SInv
<1>2. CASE Restart
  BY <1>2, BootInv DEF Restart
<1>3. CASE UNCHANGED vars
  BY <1>1, <1>3
     DEF SInv, vars, Agreement, OneEach, AnswersInv, MemoryInv, CallInv, Upserting, Answers, Rivals,
         Others
<1>4. ASSUME NEW i \in Configs, DeleteConfig(i) PROVE SInv'
  <2> SUFFICES ASSUME calm' PROVE Agreement'
    BY <1>1 DEF SInv
  <2>1. Agreement /\ \A c \in Callers : at[c] = "idle" /\ at'[c] = "idle"
    BY <1>4 DEF SInv, DeleteConfig, call, Quiet
  <2>2. \A c \in Callers : CallInv(c)'
    BY <2>1 DEF CallInv, Upserting, Answers
  <2> QED BY <1>4, <2>1, <2>2
      DEF SInv, TypeOK, DeleteConfig, memory, call, Agreement, OneEach, AnswersInv, MemoryInv, Upserting,
          Answers
<1> QED BY <1>1, <1>2, <1>3, <1>4, HandleStep DEF Next

\* Types, and a call that is on its way has a configuration.
THEOREM ControlTypeCorrect == Spec => []TypeOK
<1>1. Init => TypeOK
  BY InitInv DEF SInv
<1> QED BY <1>1, TypeStep, PTL DEF Spec

\* However many calls overlap, wherever the process dies and whatever fails to be
\* persisted, the flag the workers test has a configuration with it.
THEOREM FlagHasConfiguration == Spec => []CurrentIsRunning
<1>1. Init => CurrentIsRunning
  BY InitInv DEF SInv
<1> QED BY <1>1, TogetherStep, ControlTypeCorrect, PTL DEF Spec

\* Calm or not, the inductive invariant holds.
THEOREM ControlInductive == Spec => []SInv
<1> QED BY InitInv, InvStep, PTL DEF Spec

\* Until calls overlap no two configurations of one portfolio run, also across a
\* restart, a refused start and a status, unless a start could not read its rival.
THEOREM OneBot == Spec => []OneBotPerPortfolio
<1>1. SInv => OneBotPerPortfolio
  BY DEF SInv, Agreement, OneEach, OneBotPerPortfolio
<1> QED BY <1>1, ControlInductive, PTL

\* The row of a configuration says what its last start or stop answered, unless the
\* process died between the save and the answer.
THEOREM TableIsAnswer == Spec => []TableMatchesAnswers
<1>1. SInv => TableMatchesAnswers
  BY DEF SInv, Agreement, AnswersInv, Answers, Quiet, TableMatchesAnswers
<1> QED BY <1>1, ControlInductive, PTL

\* A bot that runs in memory has a row that says so once the calls are answered.
THEOREM BotIsInTable == Spec => []MemoryIsInTable
<1>1. SInv => MemoryIsInTable
  BY DEF SInv, Agreement, MemoryInv, MemoryIsInTable, Quiet, Upserting
<1> QED BY <1>1, ControlInductive, PTL

\* A process that starts brings back a bot that some caller was told is running,
\* or one of an answer that was cut off, and some bot whenever somebody was told so.
LEMMA BootBringsBack ==
    ASSUME SInv, Boot, calm, Quiet
    PROVE  IF running' THEN told[current'] # "stopped" ELSE \A i \in Configs : told[i] # "running"
<1>1. \A i \in Configs : told[i] = "unknown" \/ (table[i] = "running" <=> told[i] = "running")
  BY DEF SInv, Agreement, AnswersInv, Answers, Quiet
<1> QED BY <1>1 DEF Boot, Marked

\* Between calls only a start of the process writes the memory.
LEMMA MemoryBetweenCalls ==
    ASSUME SInv, Next \/ Boot, Quiet, memory' # memory, Quiet'
    PROVE  Boot
<1>1. ASSUME NEW c \in Callers, Handle(c) PROVE FALSE
  BY <1>1 DEF Handle, Quiet, SInv, TypeOK, StartRead, StartCheck, StartFails, StartConflict, StartScan,
     StopRead, StatusRead, UpsertFind, UpsertSave, UpsertFails, Answer, Persist, Goto, memory
<1> QED BY <1>1 DEF Next, DeleteConfig, Restart

\* Between calls the memory changes by a restart only, which brings back a bot that
\* some caller was told is running or whose last answer was cut off.
THEOREM RestartBringsBack == Spec => RehydratesWhatWasTold
<1> DEFINE Back == calm /\ Quiet /\ memory' # memory /\ Quiet' =>
                     IF running' THEN told[current'] # "stopped"
                                 ELSE \A i \in Configs : told[i] # "running"
<1>1. SInv /\ [Next]_vars => [Back]_vars
  BY MemoryBetweenCalls, BootBringsBack
<1>2. [][Back]_vars => RehydratesWhatWasTold
  BY DEF RehydratesWhatWasTold
<1> QED BY <1>1, <1>2, ControlInductive, PTL DEF Spec
=============================================================================
