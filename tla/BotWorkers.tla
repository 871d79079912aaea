----------------------------- MODULE BotWorkers -----------------------------
(***************************************************************************)
(* The worker loops under the control of the bot: runWorkerLoop of         *)
(* demandsPendingSync.service.ts and the head of runOnce of                *)
(* demandsOnlineAutomation.service.ts, interleaved with every call of      *)
(* BotControl, with deletions of the configuration they work for and with  *)
(* restarts. BotControl gives the flag and the id the loops read; between  *)
(* reading the conditions of one id and using another a worker awaits.     *)
(*                                                                         *)
(* What a worker does with a demand it took is DemandQueue; here it is     *)
(* busy until its session ends.                                            *)
(***************************************************************************)
EXTENDS BotControl

CONSTANT Workers   \* the loops, one per BROWSERLESS_CONCURRENT_BROWSERS

VARIABLES
    pc,        \* where each worker is
    asked,     \* the configuration whose conditions it awaits
    used,      \* currentDataBasesId as runOnce read it
    approved,  \* History: configurations found in their conditions since the
               \* worker last asked, by its own answer or by a start
    late       \* History: configurations the worker took a demand of after they
               \* were stopped, switched away from or deleted

mine    == <<pc, asked, used, approved, late>>
allVars == <<vars, mine>>

PC == {"asleep", "loop", "once", "record", "choose", "busy"}

Move(w, p) == pc' = [pc EXCEPT ![w] = p]

\* Mutant: what runOnce read survives its return.
SleepKeepsId(w) ==
    /\ Move(w, "asleep")
    /\ asked' = [asked EXCEPT ![w] = NoConfig]
    /\ approved' = [approved EXCEPT ![w] = {}]
    /\ UNCHANGED <<used, late>>

\* The loop sleeps, whatever sent it there, and forgets the locals of runOnce.
Sleep(w) ==
    /\ Move(w, "asleep")
    /\ asked' = [asked EXCEPT ![w] = NoConfig]
    /\ used' = [used EXCEPT ![w] = NoConfig]
    /\ approved' = [approved EXCEPT ![w] = {}]
    /\ UNCHANGED late

\* checkRuntimeConditions begins: it looks at the id current now.
Ask(w, p) ==
    /\ Move(w, p)
    /\ asked' = [asked EXCEPT ![w] = current]
    /\ approved' = [approved EXCEPT ![w] = {}]
    /\ UNCHANGED <<used, late>>

NoWork ==
    /\ pc' = [w \in Workers |-> "asleep"]
    /\ asked' = [w \in Workers |-> NoConfig]
    /\ used' = [w \in Workers |-> NoConfig]
    /\ approved' = [w \in Workers |-> {}]
    /\ late' = [w \in Workers |-> {}]

WorkersInit ==
    /\ Init
    /\ pc = [w \in Workers |-> "asleep"]
    /\ asked = [w \in Workers |-> NoConfig]
    /\ used = [w \in Workers |-> NoConfig]
    /\ approved = [w \in Workers |-> {}]
    /\ late = [w \in Workers |-> {}]

----------------------------------------------------------------------------
\* The sleep is over; a stopped bot makes the loop sleep again.
Wake(w) ==
    /\ pc[w] = "asleep"
    /\ running
    /\ Ask(w, "loop")
    /\ UNCHANGED vars

\* The conditions can be met only by a configuration that is stored.
MayWork(w) == asked[w] \in stored

\* The loop's answer: within the conditions runOnce starts in the same turn,
\* tests the flag again and asks again; otherwise the loop sleeps.
LoopAnswer(w) ==
    /\ pc[w] = "loop"
    /\ \/ MayWork(w) /\ IF running THEN Ask(w, "once") ELSE Sleep(w)
       \/ Sleep(w)
    /\ UNCHANGED vars

\* A query of the loop's conditions fails. The loop awaits them outside its try
\* block and nobody awaits the loop: the rejection ends the process, with the
\* sessions of all workers, and the container starts it again.
LoopFails(w) ==
    /\ "read" \in Faults
    /\ pc[w] = "loop"
    /\ Boot
    /\ NoWork

\* Mutant: the second answer is not looked at.
OnceIgnores(w) ==
    /\ pc[w] = "once"
    /\ IF current # NoConfig
         THEN /\ Move(w, "record")
              /\ used' = [used EXCEPT ![w] = current]
              /\ asked' = [asked EXCEPT ![w] = NoConfig]
              /\ \/ approved' = [approved EXCEPT ![w] = @ \cup {asked[w]}]
                 \/ UNCHANGED approved
              /\ UNCHANGED late
         ELSE Sleep(w)
    /\ UNCHANGED vars

\* The answer runOnce waits for: only now it reads the current id, which may
\* have been cleared or switched to a configuration it did not ask about.
\* Otherwise, or when a query fails, the loop sleeps.
OnceAnswer(w) ==
    /\ pc[w] = "once"
    /\ \/ /\ MayWork(w)
          /\ current # NoConfig
          /\ Move(w, "record")
          /\ used' = [used EXCEPT ![w] = current]
          /\ asked' = [asked EXCEPT ![w] = NoConfig]
          /\ approved' = [approved EXCEPT ![w] = @ \cup {asked[w]}]
          /\ UNCHANGED late
       \/ Sleep(w)
    /\ UNCHANGED vars

\* The data_bases record gives the portfolio and the PDF services.
Record(w) ==
    /\ pc[w] = "record"
    /\ \/ used[w] \in stored /\ Move(w, "choose") /\ UNCHANGED <<asked, used, approved, late>>
       \/ used[w] \notin stored /\ Sleep(w)
    /\ UNCHANGED vars

Current(i) == running /\ current = i /\ i \in stored

\* A demand of the portfolio of used is taken.
Take(w) ==
    /\ pc[w] = "choose"
    /\ Move(w, "busy")
    /\ late' = [late EXCEPT ![w] = IF Current(used[w]) THEN @ ELSE @ \cup {used[w]}]
    /\ UNCHANGED <<vars, asked, used, approved>>

\* No demand is pending, or the queries fail.
NothingToTake(w) ==
    /\ pc[w] = "choose"
    /\ Sleep(w)
    /\ UNCHANGED vars

\* Mutant: the worker goes on to the next demand of the same configuration.
SessionRepeats(w) ==
    /\ pc[w] = "busy"
    /\ Move(w, "choose")
    /\ UNCHANGED <<vars, asked, used, approved, late>>

SessionEnds(w) ==
    /\ pc[w] = "busy"
    /\ Sleep(w)
    /\ UNCHANGED vars

----------------------------------------------------------------------------
Launches(c) == at[c] \in {"conflict", "scan"} /\ at'[c] = "find"

\* A call of the API. A start found the conditions of its configuration met, and
\* makes it the bot's again.
Call(c) ==
    /\ Handle(c)
    /\ IF Launches(c)
         THEN /\ approved' = [w \in Workers |-> IF pc[w] = "once" THEN approved[w] \cup {arg[c]}
                                                ELSE approved[w]]
              /\ late' = [w \in Workers |-> late[w] \ {arg[c]}]
         ELSE UNCHANGED <<approved, late>>
    /\ UNCHANGED <<pc, asked, used>>

\* The process dies with its workers and is started again.
Crash == Restart /\ NoWork

Delete(i) == DeleteConfig(i) /\ UNCHANGED mine

Worker(w) == \/ Wake(w) \/ LoopAnswer(w) \/ LoopFails(w) \/ OnceAnswer(w) \/ Record(w)
             \/ Take(w) \/ NothingToTake(w) \/ SessionEnds(w)

WorkersNext ==
    \/ \E c \in Callers : Call(c)
    \/ \E i \in Configs : Delete(i)
    \/ \E w \in Workers : Worker(w)
    \/ Crash

WorkersSpec == WorkersInit /\ [][WorkersNext]_allVars

\* Timers fire and every await of a worker ends; a session ends as long as the
\* portal, the browser service and the PDF service answer or hang up.
FairSpec == WorkersSpec /\ \A w \in Workers : WF_allVars(Worker(w))

----------------------------------------------------------------------------
WorkersTypeOK ==
    /\ TypeOK
    /\ pc \in [Workers -> PC]
    /\ asked \in [Workers -> Configs \cup {NoConfig}]
    /\ used \in [Workers -> Configs \cup {NoConfig}]
    /\ approved \in [Workers -> SUBSET Configs]
    /\ late \in [Workers -> SUBSET Configs]
    /\ \A w \in Workers : pc[w] \in {"loop", "once"} <=> asked[w] # NoConfig
    /\ \A w \in Workers : pc[w] \in {"record", "choose", "busy"} <=> used[w] # NoConfig

\* Workers read the control of the bot and never write it: all they may do to it is
\* end the process, which starts again as after a crash.
ControlOfTheBot == Init /\ [][Next \/ ("read" \in Faults /\ Boot)]_vars

\* What callers were promised of the bot holds with the workers in its process, the
\* restarts their failing queries cause included.
PromisesKept ==
    /\ [](OneBotPerPortfolio /\ TableMatchesAnswers /\ MemoryIsInTable)
    /\ RehydratesWhatWasTold

\* A worker works only for a configuration that was found in its conditions, by
\* the worker itself or by the start that switched to it, since the worker last
\* asked: reading the id after the await never makes it work for one whose
\* hours nobody looked at.
WorksWithinConditions ==
    \A w \in Workers : pc[w] \in {"record", "choose", "busy"} => used[w] \in approved[w]

\* Once a configuration is stopped, switched away from or deleted, a worker takes
\* at most one more demand of it before it is started again.
AtMostOneMore ==
    [][\A w \in Workers : pc[w] = "choose" /\ pc'[w] = "busy" /\ ~Current(used[w])
          => used[w] \notin late[w]]_allVars

\* If from some time on nothing runs, or what runs in memory was deleted, the
\* workers come to rest: none takes a demand any more.
ComesToRest ==
    <>[](\A i \in Configs : ~Current(i))
       => <>[](\A w \in Workers : pc[w] \notin {"choose", "busy"})
=============================================================================
