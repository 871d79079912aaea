----------------------------- MODULE BotControl -----------------------------
(***************************************************************************)
(* Starting and stopping the bot (botControl.service.ts): the flag and the *)
(* data_bases id kept in memory, which the workers obey, and the table     *)
(* bot_control, which holds one row per data_bases configuration and is    *)
(* read back when the process starts.                                      *)
(*                                                                         *)
(* A configuration may be deleted at any time: its row of bot_control goes *)
(* with it (ON DELETE CASCADE) and the memory is not told.                 *)
(*                                                                         *)
(* HTTP calls interleave at every await; a step is the code between two.   *)
(***************************************************************************)
EXTENDS Integers, FiniteSets

CONSTANTS
    Configs,      \* ids of data_bases
    NoConfig,     \* null
    Portfolios,   \* ids of portfolio_type
    PortfolioOf,  \* portfolio_type_id of each configuration
    Callers,      \* HTTP calls of bot_control in progress at once
    Faults        \* subset of {"crash", "persist", "read"}

ASSUME ControlAssumption ==
    /\ NoConfig \notin Configs
    /\ PortfolioOf \in [Configs -> Portfolios]
    /\ Faults \subseteq {"crash", "persist", "read"}

Rows  == {"absent", "stopped", "running"}
Kinds == {"start", "refused", "stop", "status"}
Told  == {"running", "stopped", "unknown"}
At    == {"idle", "check", "conflict", "scan", "find", "insert", "update", "answer"}

VARIABLES
    running,   \* BotControlService.running
    current,   \* BotControlService.currentDataBasesId
    stored,    \* the rows of data_bases
    table,     \* bot_control
    at,        \* where each call is
    arg,       \* its data_bases_id
    kind,      \* why it persists: a start, a start refused by the conditions...
    rivals,    \* the running rows of its portfolio a start still has to look up
    told,      \* History: what the last start or stop of each answered; "unknown"
               \* if the process died after it was saved and before the answer
    passed,    \* History: portfolios in which a start could not look a rival up
    calm       \* History: no two calls overlapped, no start or stop went unsaved

memory   == <<running, current>>
database == <<stored, table>>
call     == <<at, arg, kind, rivals>>
history  == <<told, passed, calm>>
vars     == <<running, current, stored, table, at, arg, kind, rivals, told, passed,
              calm>>

Quiet == \A c \in Callers : at[c] = "idle"

Goto(c, p) == at' = [at EXCEPT ![c] = p]

\* persistState(id, k = "start") begins.
Persist(c, id, k) ==
    /\ Goto(c, "find")
    /\ arg' = [arg EXCEPT ![c] = id]
    /\ kind' = [kind EXCEPT ![c] = k]
    /\ rivals' = [rivals EXCEPT ![c] = {}]

\* The call is answered.
Return(c) ==
    /\ Goto(c, "idle")
    /\ arg' = [arg EXCEPT ![c] = NoConfig]
    /\ kind' = [kind EXCEPT ![c] = "status"]
    /\ rivals' = [rivals EXCEPT ![c] = {}]

NoCall ==
    /\ at' = [c \in Callers |-> "idle"]
    /\ arg' = [c \in Callers |-> NoConfig]
    /\ kind' = [c \in Callers |-> "status"]
    /\ rivals' = [c \in Callers |-> {}]

Init ==
    /\ running = FALSE
    /\ current = NoConfig
    /\ stored = Configs
    /\ table = [i \in Configs |-> "absent"]
    /\ at = [c \in Callers |-> "idle"]
    /\ arg = [c \in Callers |-> NoConfig]
    /\ kind = [c \in Callers |-> "status"]
    /\ rivals = [c \in Callers |-> {}]
    /\ told = [i \in Configs |-> "stopped"]
    /\ passed = {}
    /\ calm = TRUE

----------------------------------------------------------------------------
\* A call begins.
Begin == calm' = (calm /\ Quiet)

\* Mutant: data_bases_id is not validated.
StartUnvalidated(c) ==
    /\ at[c] = "idle"
    /\ \E i \in Configs \cup {NoConfig} :
          /\ i \in Configs => table[i] # "running"
          /\ arg' = [arg EXCEPT ![c] = i]
    /\ Goto(c, "check")
    /\ Begin
    /\ UNCHANGED <<memory, database, kind, rivals, told, passed>>

\* POST start: a row that says running is answered 409, which changes nothing.
StartRead(c) ==
    /\ at[c] = "idle"
    /\ \E i \in Configs :
          /\ table[i] # "running"
          /\ arg' = [arg EXCEPT ![c] = i]
    /\ Goto(c, "check")
    /\ Begin
    /\ UNCHANGED <<memory, database, kind, rivals, told, passed>>

\* checkRuntimeConditions may answer either way, if the configuration exists.
\* Outside its conditions the start is refused: the memory is cleared, whatever
\* configuration it held, and the refusal is persisted.
StartCheck(c) ==
    /\ at[c] = "check"
    /\ \/ arg[c] \in stored /\ Goto(c, "conflict") /\ UNCHANGED <<memory, arg, kind, rivals>>
       \/ /\ running' = FALSE
          /\ current' = NoConfig
          /\ Persist(c, arg[c], "refused")
    /\ UNCHANGED <<database, history>>

\* A query fails before the start takes effect: it is answered 500.
StartFails(c) ==
    /\ "read" \in Faults
    /\ at[c] \in {"check", "conflict"}
    /\ Return(c)
    /\ UNCHANGED <<memory, database, history>>

Others(i) == {j \in Configs \ {i} : table[j] = "running"}

Launch(c) ==
    /\ running' = TRUE
    /\ current' = arg[c]
    /\ Persist(c, arg[c], "start")

\* Mutant: the rule of one bot per portfolio is not looked at.
StartUnchecked(c) ==
    /\ at[c] = "conflict"
    /\ Launch(c)
    /\ UNCHANGED <<database, history>>

Rivals(i) == {j \in Others(i) : PortfolioOf[j] = PortfolioOf[i]}

\* A configuration deleted meanwhile is answered 404. Without other running rows
\* the start goes on in the same turn; otherwise it looks each of them up.
StartConflict(c) ==
    /\ at[c] = "conflict"
    /\ IF arg[c] \notin stored
         THEN Return(c) /\ UNCHANGED memory
         ELSE IF Others(arg[c]) = {}
                THEN Launch(c)
                ELSE /\ Goto(c, "scan")
                     /\ rivals' = [rivals EXCEPT ![c] = Rivals(arg[c])]
                     /\ UNCHANGED <<memory, arg, kind>>
    /\ UNCHANGED <<database, history>>

\* A rival that is found is answered 409. One whose data_bases record is gone is
\* passed over, and so is one whose record cannot be read.
StartScan(c) ==
    /\ at[c] = "scan"
    /\ LET left == rivals[c] \cap stored IN
         \/ left # {} /\ Return(c) /\ UNCHANGED <<memory, passed>>
         \/ left = {} /\ Launch(c) /\ UNCHANGED passed
         \/ /\ left # {} /\ "read" \in Faults
            /\ Launch(c)
            /\ passed' = passed \cup {PortfolioOf[arg[c]]}
    /\ UNCHANGED <<database, told, calm>>

\* Mutant: the stop leaves currentDataBasesId.
StopHalf(c) ==
    /\ at[c] = "idle"
    /\ \E i \in Configs :
          /\ table[i] = "running"
          /\ Persist(c, i, "stop")
    /\ running' = FALSE
    /\ Begin
    /\ UNCHANGED <<current, database, told, passed>>

\* POST stop, of the given or the current configuration: one that is not stored
\* is answered 404, and a row that does not say running 409; otherwise the
\* memory is cleared, whatever configuration it held.
StopRead(c) ==
    /\ at[c] = "idle"
    /\ \E i \in Configs :
          /\ table[i] = "running"
          /\ Persist(c, i, "stop")
    /\ running' = FALSE
    /\ current' = NoConfig
    /\ Begin
    /\ UNCHANGED <<database, told, passed>>

\* GET status: a configuration without a row gets a stopped one.
StatusRead(c) ==
    /\ at[c] = "idle"
    /\ \E i \in Configs :
          /\ table[i] = "absent"
          /\ Persist(c, i, "status")
    /\ Begin
    /\ UNCHANGED <<memory, database, told, passed>>

\* upsertForDataBases: findOne, then an insert or an update by id.
UpsertFind(c) ==
    /\ at[c] = "find"
    /\ Goto(c, IF table[arg[c]] = "absent" THEN "insert" ELSE "update")
    /\ UNCHANGED <<memory, database, arg, kind, rivals, history>>

\* The upsert goes through: not an insert that lost the race (unique key), nor a
\* row of a configuration deleted meanwhile (foreign key).
Writable(c) ==
    /\ arg[c] \in stored
    /\ at[c] = "insert" => table[arg[c]] = "absent"

Mark(c) == [table EXCEPT ![arg[c]] = IF kind[c] = "start" THEN "running" ELSE "stopped"]

\* Mutant: an existing row keeps its state.
UpsertIgnore(c) ==
    /\ at[c] \in {"insert", "update"}
    /\ table' = IF Writable(c) /\ table[arg[c]] = "absent" THEN Mark(c) ELSE table
    /\ Goto(c, "answer")
    /\ UNCHANGED <<memory, stored, arg, kind, rivals, history>>

\* save; its error is swallowed.
UpsertSave(c) ==
    /\ at[c] \in {"insert", "update"}
    /\ table' = IF Writable(c) THEN Mark(c) ELSE table
    /\ Goto(c, "answer")
    /\ UNCHANGED <<memory, stored, arg, kind, rivals, history>>

\* Any other failure of the upsert is swallowed too, and the call answers as
\* if it had been persisted. (It may have been: what is lost may be the reply.)
UpsertFails(c) ==
    /\ "persist" \in Faults
    /\ at[c] \in {"find", "insert", "update"}
    /\ \/ UNCHANGED table
       \/ at[c] # "find" /\ Writable(c) /\ table' = Mark(c)
    /\ Goto(c, "answer")
    /\ calm' = (calm /\ kind[c] = "status")
    /\ UNCHANGED <<memory, stored, arg, kind, rivals, told, passed>>

Answers(c) == at[c] = "answer" /\ kind[c] # "status"

\* The caller hears what the row now says, or would say.
Answer(c) ==
    /\ at[c] = "answer"
    /\ told' = IF Answers(c)
                 THEN [told EXCEPT ![arg[c]] = IF kind[c] = "start" THEN "running" ELSE "stopped"]
                 ELSE told
    /\ Return(c)
    /\ UNCHANGED <<memory, database, passed, calm>>

\* Nobody hears what a call had already saved.
CutOff ==
    told' = [i \in Configs |-> IF \E c \in Callers : Answers(c) /\ arg[c] = i
                              THEN "unknown" ELSE told[i]]

Marked == {i \in Configs : table[i] = "running"}

\* Mutant: a restart waits for a new start.
RestartStopped ==
    /\ "crash" \in Faults
    /\ NoCall
    /\ CutOff
    /\ running' = FALSE
    /\ current' = NoConfig
    /\ UNCHANGED <<database, passed, calm>>

\* The process starts: onModuleInit takes the first of the running rows, and the
\* calls that were in progress are gone.
Boot ==
    /\ NoCall
    /\ CutOff
    /\ running' = (Marked # {})
    /\ IF Marked = {} THEN current' = NoConfig ELSE current' \in Marked
    /\ UNCHANGED <<database, passed, calm>>

\* The process dies and is started again.
Restart == "crash" \in Faults /\ Boot

\* DELETE data_bases/:id, and its row of bot_control by ON DELETE CASCADE. Nobody
\* is told any more that it runs; the memory still names it when it did.
DeleteConfig(i) ==
    /\ i \in stored
    /\ stored' = stored \ {i}
    /\ table' = [table EXCEPT ![i] = "absent"]
    /\ told' = [told EXCEPT ![i] = "stopped"]
    /\ calm' = (calm /\ Quiet)
    /\ UNCHANGED <<memory, call, passed>>

Handle(c) ==
    \/ StartRead(c) \/ StartCheck(c) \/ StartFails(c)
    \/ StartConflict(c) \/ StartScan(c)
    \/ StopRead(c) \/ StatusRead(c)
    \/ UpsertFind(c) \/ UpsertSave(c) \/ UpsertFails(c) \/ Answer(c)

Next ==
    \/ \E c \in Callers : Handle(c)
    \/ Restart
    \/ \E i \in Configs : DeleteConfig(i)

Spec == Init /\ [][Next]_vars

----------------------------------------------------------------------------
TypeOK ==
    /\ running \in BOOLEAN
    /\ current \in Configs \cup {NoConfig}
    /\ stored \in SUBSET Configs
    /\ table \in [Configs -> Rows]
    /\ at \in [Callers -> At]
    /\ arg \in [Callers -> Configs \cup {NoConfig}]
    /\ kind \in [Callers -> Kinds]
    /\ rivals \in [Callers -> SUBSET Configs]
    /\ told \in [Configs -> Told]
    /\ passed \in SUBSET Portfolios
    /\ calm \in BOOLEAN
    /\ \A c \in Callers : at[c] # "idle" => arg[c] \in Configs

\* However calls interleave, the flag the workers test and the id runSync and
\* runOnce read are set and cleared in one turn: a worker that finds the bot
\* running always finds its configuration.
CurrentIsRunning == running <=> current # NoConfig

\* The rule of botControl.service.ts on starts: no two configurations of one
\* portfolio run at once. It holds until calls overlap, as no rule keeps a second
\* start from reading the table before the first has written it, and in each
\* portfolio until a start of it cannot read the record of a rival, which it takes
\* for one that was deleted.
OneBotPerPortfolio ==
    calm => \A i, j \in Configs :
               table[i] = "running" /\ table[j] = "running" /\ i # j
                  => PortfolioOf[i] # PortfolioOf[j] \/ PortfolioOf[i] \in passed

\* Between calls the row of a configuration says what the last start or stop of
\* it answered, whatever starts of other configurations were refused since and
\* wherever the process died, unless it died between the save and the answer.
TableMatchesAnswers ==
    calm /\ Quiet => \A i \in Configs :
       told[i] # "unknown" => (table[i] = "running" <=> told[i] = "running")

\* Between calls a bot that runs in memory has a row that says so, unless its
\* configuration was deleted: it can be stopped and it survives a restart.
MemoryIsInTable ==
    calm /\ Quiet /\ running /\ current \in stored => table[current] = "running"

\* A restart brings back a bot some caller was told is running, or one whose last
\* start or stop was saved and never answered, and brings one back whenever a
\* caller was told that one is running.
RehydratesWhatWasTold ==
    [][calm /\ Quiet /\ memory' # memory /\ Quiet' =>
         IF running' THEN told[current'] # "stopped"
                     ELSE \A i \in Configs : told[i] # "running"]_vars
============================================================================
