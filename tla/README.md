# Verification of the demandas-en-línea bot

The program (`src/v1`, a NestJS service) files lawsuits on the court portal *demanda en línea*. It copies
pending lawsuits from portfolio databases into its own table `management_demands_online`, and worker loops
take demands from that table, drive a remote browser through the portal's form, and write the result back to
both databases. This directory holds TLA+ models of that behaviour, the TLC configurations that check them
and TLAPS proofs of the properties that matter most.

Paths below are relative to `src/v1/src`.

## 1. The system

| Part | State | Operations | Talks to |
|---|---|---|---|
| Queue (`managementDemandsOnline.repositories.ts`) | rows with `management_status` Abierta / En proceso / Novedad / Registrada and `detail` | `findNextPending`, `markInProcess`, whole-row `update`, `create`, `delete` | workers, adapter, sync, operators |
| Workers (`demandsPendingSync.service.ts: runWorkerLoop`, `demandsOnlineAutomation.service.ts: runOnce`) | `currentRunning`, the locals of each session | wake, test conditions, choose, claim, run a session, write back, update three external tables | queue, bot control, adapter, portfolio database |
| Bot control (`botControl.service.ts`) | `running`, `currentDataBasesId` in memory; `bot_control` in the database | `start`, `stop`, `status`, `checkRuntimeConditions`, `onModuleInit` | HTTP callers, workers, sync |
| Pending sync (`demandsPendingSync.service.ts: tick, runSync`) | the locals of each tick | query each base, look for a row, look up the amount, insert | portfolio databases, queue |
| Attention schedules (`attentionSchedule.service.ts`) | `attention_schedule` | create, update, delete; read by the runtime conditions | HTTP callers, bot control |
| Portal session (`browserlessPuppeteer.adapter.ts`) | browser, page, temporary folder, flags | form sections, PDF, reCAPTCHA, ENVIAR, dialogs, catch and finally | portal, Browserless, PDF services, queue |
| Configuration services (`data_bases`, `environment_type`, `state_type`, `portfolio_type`, `amount_type`, `company_type`, `lawyer_data`, `holiday`, `portfolio_city_config`) | a table each, referring to one another | create, update, delete | HTTP callers; read by all other parts |
| Calls to other services (`browserlessHealth.service.ts`, `demandPdfHttp.adapter.ts`) | one exchange, the count of redirects, the downloaded file | health check, connect, generate, download | Browserless, PDF services; called by the session |
| Logs, HTTP layer | little or none | files, routing | see section 7 |

Everything runs in one Node process: a step is the code between two `await`s, and anything else may run at
an `await`. The hard behaviours are therefore:

* *interleavings*: several workers on one table, overlapping HTTP calls, overlapping ticks, the bot stopped
  at any moment, operators that PUT and DELETE rows a worker holds or POST rows in any status;
* *stale state*: whole rows are saved back long after they were read, and a row deleted meanwhile is inserted
  again by that;
* *failures*: the process dies between two statements, or because one query of a worker fails outside its try
  block; a configuration is deleted while the bot runs it; a session fails after the portal has filed; one of
  three external updates fails, and then perhaps what the catch block does about it; a base is down; errors
  are swallowed;
* *ordering and timeouts*: dialogs that open or close late, the race of the captcha's event and token,
  bounded and unbounded waits, answers that redirect, break off or never come.

What makes each part correct, in a sentence: the **queue** hands a demand to one worker, files it at most
once per opening, and loses it only where a worker dies, gives up on missing data or cannot write; the **workers** give their slot back on every path; **bot
control** runs one bot per portfolio and its memory, table and answers agree, while calls do not overlap and what it asks is answered; the **sync** inserts one row per
assignment, and does so in the end; the **configuration services** check what they save, so that they answer with an internal error only when overtaken or where a check is missing, and bring no
row back but one they had found or were given the id of; the **conditions** let the bot work exactly in the stated hours, and give a row that the portal
restricted to other hours its turn; a worker works only for a configuration found in its conditions, and **comes
to rest** when nothing runs; a **session** files only when told to, reports what happened, and tries to undo
what it opened; the **remote calls** attach nothing but a whole PDF, and end unless a service leaves them waiting.

## 2. Modules

| Module | Models | Lines of code it stands for |
|---|---|---|
| `DemandQueue` | queue, workers, write-back, operators, crash | `runOnce`, `runWorkerLoop`, the repository |
| `DemandLease` | what the queue promises: an abstract lease on demands | – |
| `DemandQueueLease` | the refinement of the lease by the queue | – |
| `BotControl` | start / stop / status, `bot_control`, deletions of configurations, rehydration | `botControl.service.ts` and its repository |
| `BotWorkers` | composes `BotControl` with the worker loops that obey it | `runWorkerLoop`, the head of `runOnce`, `onModuleInit` |
| `PendingSync` | ticks | `tick`, `runSync` |
| `AttentionSchedule` | writers of the schedules; the decision | `attentionSchedule.service.ts`, `checkRuntimeConditions`, `getStandbyReason` |
| `PortalHours` | the hours of the portal beside those of the bot, on the tables of `AttentionSchedule` | the catch of `runOnce`, `parsePortalSchedule`, `isCurrentTimeAllowedForPortalRestriction` |
| `Catalog` | create, update and delete of the nine configuration services | the services `amountType` … `stateType`, their repositories and migrations |
| `PortalSession` | one session on the portal | `browserlessPuppeteer.adapter.ts` |
| `SessionContract` | what the queue expects of a session | `runOnce` around `procesarLugarEnvioYEspecialidadYClase` |
| `PortalSessionContract` | the refinement of the contract by the session | – |
| `RemoteCalls` | the calls a session makes to Browserless and the PDF services | `browserlessHealth.service.ts`, `createBrowser`, `demandPdfHttp.adapter.ts` |
| `DemandQueueProofs`, `BotControlProofs`, `BotWorkersProofs`, `PendingSyncProofs`, `AttentionScheduleProofs`, `CatalogProofs`, `PortalSessionProofs`, `RemoteCallsProofs` | proofs | – |
| `MC*` | symmetry sets and constant functions for TLC | – |

`PROJECT.json` maps every definition to the lines it is translated from. Definitions whose comment starts
with *Mutant:* are deliberately wrong variants of the definition that follows them; they are used only to
see each property fail.

### DemandQueue

`row[d]` is a row reduced to its status and the class of its `detail`: `"hours"` (a schedule restriction of
the portal with `Horario:`), `"nohours"` (one without it) or `"plain"`. `Selectable`
are the rows that `findNextPending` may return at all: active ones of the bot's portfolio. `before` orders rows
by `updated_at` and then `id`. The column has whole seconds, so a write puts its row (`Touch`) after every row that
was not written just before, and anywhere among those that were: `fresh`, which `Age` leaves as seconds pass.
`SavePath` saves the `updated_at` it read as well, and may put its row anywhere. `editing` holds the rows that a
PUT has found and not saved yet.
Each worker has a control state `pc`; from `"taken"` to `"failing"` it holds the demand `item`. `snap` is the
row it read and will save back, `excl` is `excludeIds`, `outcome` how its session ended.

| Actions | Code |
|---|---|
| `Wake`, `Gate`, `Check` | the loop's two tests, the slot, the second evaluation of the conditions |
| `Skip`, `Pick`, `GiveUp`, `Claim`, `ChoosingFails` | the candidate loop; `Claim` is `markInProcess`, one conditional UPDATE; a statement fails, perhaps only its answer |
| `NoPdfService`, `NoPdfServiceFails`, `EarlyEnd`, `ReadForPath`, `SavePath`, `SavingFails`, `LateEnd`, `FileAtPortal`, `AfterFiling` | the session as the queue sees it; the update before it lies outside the `try` |
| `Refresh`, `Finish`, `WriteFails`, `SyncStep`, `SyncFails`, `ReadAfterError`, `SaveNovedad`, `CatchFails` | the write-back, the three external updates, the catch block, and what happens when their statements fail |
| `Arrive`, `OperatorPost`, `PutFinds`, `OperatorPut`, `OperatorDelete`, `Crash`, `Environment`, `Age` | sync, operators (a PUT finds the row and saves it some awaits later), restart, start/stop and the clock |

`filings`, `orphaned` and `overridden` are history variables: filings since the last opening (capped at 2, so
that a second one is seen and no more), demands whose last worker died, gave up on missing defendant data or left
`runOnce` by an error of the database (`Abandon`, `ChoosingFails`), and demands an operator's PUT or POST took out of
the bot's hands. No action reads them.

### DemandLease and its refinement

A demand is absent, pending, taken, done, deleted or withdrawn, has at most one owner and is filed or not.
`DemandQueueLease` maps the status of a row to the stage, the holding worker to the owner and `filings` to filed;
TLC checks `Lease!Spec` as a property of the queue. Operators are steps of the lease too, and what each may do is
the point: `Open` a demand that never was, `Reissue` one that nobody has – one deleted since it was looked up too, as
a PUT that saves such a row inserts it again –, `Delete` any – its holder works on, and
may `Restore` it by saving what it read – and `Withdraw` one, when a PUT overwrites a row that a worker holds, or a
PUT or POST gives one a status that is the workers' to give. `Lose` is the claim whose answer never
reaches the worker. Only of a withdrawn demand (`overridden` in the queue) is nothing promised any more.

### BotControl

`memory` is the pair `running`, `currentDataBasesId`; `table` is `bot_control`, `stored` the rows of `data_bases`.
A call moves through `"check"`, `"conflict"`, `"scan"` – where a start looks up the running rows of its portfolio,
`rivals` – , the two statements of the upsert and `"answer"`: a restart may come between any two, also after the
upsert is committed and before the caller hears of it. The runtime
conditions may answer either way at any moment, as the clock, the holidays and the schedules make them.
`DeleteConfig` deletes a configuration and, by the foreign key, its row of `bot_control`; the memory is not told.
`"read"` and `"persist"` of `Faults` let queries fail: before a start takes effect it is answered 500, later the
error is swallowed; in the scan it is swallowed too, and the start takes the rival for one that was deleted.
`told` is history: what the last start or stop of a configuration answered, or `"unknown"` if it was saved and the
process died before it answered (`CutOff`). So is `passed`, the portfolios in which a start could not read a rival, and `calm`:
no two calls have overlapped so far and no start or stop went unsaved; the properties that the code keeps only
for calls that come one at a time say so by it, and everything else may still happen in every behaviour. Calls
that are refused and change nothing are not steps.

### BotWorkers

Extends `BotControl` with worker loops. A worker that finds the bot running awaits the conditions of the
configuration current then (`"loop"`), and again in `runOnce` (`"once"`); only then it reads
`currentDataBasesId` (`used`), its `data_bases` record (`"record"`), chooses a demand and is `"busy"` with it.
Calls, deletions and restarts come between any two steps. `LoopFails` is the query that fails outside the try
block: `onModuleInit` starts the loops without awaiting them, so the rejection is unhandled, ends the process and
the container starts it again. `approved` and `late` are history: the configurations found in their conditions
since a worker last asked, and those it took a demand of after they were stopped, switched away from or deleted.
The workers share `BotControl`'s variables and do nothing to them but start the process again
(`ControlOfTheBot`, a lemma of the proofs); `PromisesKept` states that the properties of `BotControl` hold beside
them and beside those restarts, which `BotControl` alone does not have.

### PendingSync

One control state per tick; `Ticks` bounds how many overlap. `bases`, `todo` and `cur` are the bases still to
visit, the rows still to process and the row in hand. Bases and rows are visited in any order (the order of
the keys and of the query's rows is not specified).

### AttentionSchedule

Writers (`CreateCheck` … `DeleteRow`) interleave; `KeyTaken` is the UNIQUE key of the migration, while
`FoundDuplicate` is the service's own search, which compares the text of a request (`08:00`) with that of a
column (`08:00:00`) – `RequestText` and `ColumnText`. `Open`, `Standby` and `Refusal` are the decision, pure
operators on the table, for every day and minute.

### PortalHours

A message of the portal is the sequence of the times it mentions; the first two become ` Horario: a-b.` of the
row's detail, the next two ` Receso: c-d.`. `Allowed` reads them back, `Skipped` is the test that passes the row
over in the candidate loop, and `Takes` puts it beside the decision of `AttentionSchedule`.

### Catalog

The nine services have one shape – look up what is referred to, search for a duplicate, save – and differ in
what they check; `kind`, chosen in `Init`, is the service, and `SearchesOnCreate`, `SearchesOnUpdate`,
`RefersOnUpdate` and `RereadsState` are the differences. Every `await` is a step (`at[c]`), so calls overtake
one another. A row is its unique key, the key its service searches for (another one only in `company_type`)
and one reference; its other columns are the choice `other` of `FoundForUpdate`. A POST may carry an id, and the
services of `TakesId` hand it to the database, which then writes over the row that has it or inserts one under
it, a deleted row's id included (`Target`, `Insert`). `Accepts` is the database's unique and foreign key. `raced` remembers that another call wrote meanwhile.

### PortalSession

`pc` walks through the form, the attachments and the dialogs; `dialogs` is the portal's own, changed by the
`Portal*` actions at any moment the portal may. `flags` becomes the result, `Caught` is the catch block by
its branches. `"sent"` is the await between the click on ENVIAR and the flag that says so (`ReportSent`), where a
failure is of another kind. `failed` is history: what could not be opened, removed or closed, since the code only
logs the errors of `rmSync`, `page.close` and `browser.close`. A form section is one step: filled in or thrown. `MaxContinuar` is 8, the code's own bound.

### SessionContract and its refinement

What `DemandQueue` takes a session to be: it holds the demand, may save the path of its PDF, may have the portal
file, and ends once, with a result. Its steps are those of `DemandQueue!InPortal`:

| `SessionContract` | `DemandQueue` | `PortalSession` |
|---|---|---|
| `EarlyEnd` | `EarlyEnd` | a return or a throw before the temporary folder is made |
| `SavePath` | `ReadForPath`, `SavePath` | `SavePath` |
| `LateEnd` | `LateEnd` | a return or a throw before the second confirmation |
| `File` | `FileAtPortal` | `ClickSure` |
| `AfterFiling` | `AfterFiling` | a return after it |

`PortalSessionContract` maps the adapter's flags to them; TLC checks and TLAPS proves that every session
implements the contract. Two sides of the code that know each other by eleven optional fields and the text of
errors thus agree: the adapter never parks a demand, nor blames the hours, after the attachments.

### RemoteCalls

`pc` is the call – `config` and `usage` of the health check, `connect`, `generate`, `download`, then the file –
and `wire` how far its exchange is: asked, answering, or `"cut"`, when the connection is lost within an answer.
Then nothing more happens: neither adapter listens to the errors of a response, and the timeout of a health
check is its socket's and goes with it. An answer is a status and what the adapters look at in it. `Fails` is
what an error of each call comes to; an error of `/usage` is not critical. `hops` is `redirectCount`.

## 3. Runs

| Run | Shows | Bounds |
|---|---|---|
| `queue_safety` | Registrada was filed and synced, and is final then; in-process rows are accounted for, slots match; `runOnce` comes nearer its end with every step, and nobody overtakes a row pending for a second | 2 demands (one without PDF service), 2 workers, 2 slots, 1 candidate per cycle, crashes, failing statements in both databases |
| `queue_operator` | the queue implements the lease with POST, PUT and DELETE at any moment: one holder, one filing an opening | 1 demand, 2 workers, crashes, failing statements; not continued once the demand is overridden, of which nothing is promised |
| `queue_live` | pending demands are taken; workers drain after a stop | 2 demands (one without PDF service), 2 workers, 100 candidates, no failing statements of the database |
| `control` | the flag has its configuration; one bot per portfolio, table = answers, memory in table, rehydration | 3 configurations of 2 portfolios, 2 overlapping callers, deletions, crashes, failing reads and upserts; the callers, and the two configurations of one portfolio, are interchangeable |
| `workers` | work within conditions, at most one more demand, rest | 2 configurations, 1 caller, 1 worker, deletions, crashes, failing reads and upserts |
| `sync` | at most one row per overlapping tick; every pending lawsuit gets its row although a base is down | 2 ticks, 2 assignments, 2 bases (one down for ever, the other failing for a while), crashes, deletions |
| `schedule` | works exactly in hours; reasons are true; a row restricted to stated hours gets its turn | 2 callers, 2 rows, 2 days, 5 minutes, 1 portfolio, 4 messages: one time, hours, hours with a recess, hours across midnight |
| `catalog` | an internal error is a race; a row returns only by a raced update or by a POST that gives its id | 2 callers, 2 rows, 2 keys, 2 rows to refer to, every kind of table |
| `portal_session` | files only when told, registered is filed, the failures after which a retry may file twice are three, only what could not be closed or removed is left; a session never goes back, ends or waits for a service, and implements `SessionContract` | the whole session |
| `remote` | only a PDF is attached; no redirect or error leads the calls back; they end or a service leaves them waiting | 8 statuses, one of each class an adapter tells apart, every kind of body, type and location; 3 redirects, the code's bound |

Why these are enough: the queue's races are between two workers, or a worker and an operator, on one row, and
its fairness questions between two rows; a third worker adds no new pair. A second slot is needed for the
race, and `MaxCandidates = 1` makes its bound reachable. Two configurations of one portfolio and one of
another are what the rule of one bot per portfolio tells apart; two callers are the smallest overlap. Workers share
nothing of `BotWorkers` but what they read, so one worker beside the calls has every interleaving of a worker with
them; two configurations are enough for a switch. The proofs cover any number of each. Two overlapping ticks are the smallest overlap;
the proofs cover any number. The decision compares four times and one minute, so a day with a few more
minutes than that has every order of them; that schedules of two portfolios do not touch one another is left
to the proofs. A race in `Catalog` is one of two calls, over one row or two with the same key.

### Disagreements between the code and what is said of it

Two have a run, which checks one property and which TLC finds violated:

| Run | What happens |
|---|---|
| `queue_registered_final` | a failing external update turns a registered row back into Novedad, and it is filed again |
| `sync_duplicates` | overlapping ticks insert an assignment twice |

The others were met while modelling and are part of the models as the code has them. They have no run:

| Where | What happens | What is said |
|---|---|---|
| `demandsOnlineAutomation.service.ts:597` | a session without defendant data leaves its row En proceso, which nothing selects again | `src/v1/README.md:367`: a partial failure ends in Novedad |
| `demandsOnlineAutomation.service.ts:736` and `:405` | an error of the database in the catch block, or in the update outside the `try`, leaves the row En proceso, or Registrada without its external updates | the same |
| `browserlessPuppeteer.adapter.ts:2653` | the catch block cannot write the row and throws after the portal was told to file; `runOnce` stores Novedad, and the demand is filed again | the same: the detail is to name the point of failure |
| `demandsOnlineAutomation.service.ts:215` | a schedule restriction without two hours is taken again in every cycle | `src/v1/README.md:206`: it is omitted until the hours are valid |
| `botControl.service.ts:172` | two overlapping starts of one portfolio both run (`OneBotPerPortfolio` is stated until calls overlap) | `botControl.service.ts:146`: only one bot per portfolio |
| `botControl.service.ts:498` | a rival whose record cannot be read is passed over, and both run (`OneBotPerPortfolio` names the portfolio in `passed`) | the same, and the comment at `:499`, which speaks of configurations that do not exist |
| `botControl.service.ts:222` | stopping one configuration clears the memory of another | `botControl.controller.ts:44` |
| `botControl.service.ts:130` | a refused start stops the running bot while its row says running | `botControl.service.ts:523` |
| `attentionSchedule.service.ts:252` | an update of the recess alone is refused as no change | its message, "No changes to update" |
| `botControl.service.ts:469` | "En receso." because of another day's schedule | the comment at `:449` |
| `managementDemandsOnline.service.ts:121` | a PUT brings back a row deleted since it was found | `:99`, which answers 404 for such a row |
| `amountType.repositories.ts:22` | a POST with an id writes over that row, or brings it back | `stateType.dto.ts:7`: the database generates the id |
| `attentionSchedule.repositories.ts:181` | an update brings a deleted schedule back | `attentionSchedule.service.ts:212` |
| `companyType.service.ts:108` | a company the search does not find is refused by the unique key as an internal error | the conflict "Company with the same document already exists" |
| `companyType.service.ts:198` | an update of `document_name` alone is refused as no change | its message, "No changes to update" |
| `browserlessHealth.service.ts:328` | a 429, 500 or 504 at the handshake is of unknown cause | `:134` and `:150`: as an answer of the health check it is a spent quota, or a service that is down |
| `browserlessPuppeteer.adapter.ts:2675` | an error after SI is reported as "Confirmar Datos" not detected | `src/v1/README.md:367` |
| `browserlessPuppeteer.adapter.ts:2274` | a slow "Confirmar Datos" receives the second click; the real confirmation receives none | the comment at `:2272` |

## 4. Fairness

* `DemandQueue!FairSpec`: weak fairness of each worker. Node runs every loop again after a bounded sleep, and
  the waits of a session are bounded by timeouts of the adapter – except the calls of the PDF services, so the
  liveness of the queue assumes that those close their connections. Nothing is assumed of operators, the
  schedules, crashes or the portal. `PendingIsTaken` needs the bot to stay started and both schedules open from
  some moment on: a demand is then taken because `findNextPending` orders by `updated_at`, and every failure
  puts a row behind all that were not written in the same second. That seconds pass is the fairness of `Age`.
* `BotWorkers!FairSpec`: weak fairness of each worker, for the same reason: timers fire and every await of a
  worker ends, a session as long as the services answer or hang up. `ComesToRest` assumes nothing of callers.
* `PendingSync!FairSpec`: the interval timer keeps firing, and a tick's statements return. `PendingGetsRow`
  also assumes that crashes and failures of the bases that are up cease (`unstable`).
* `PortalSession!FairSpec`: weak fairness of the steps whose awaits the adapter bounds, and of none of the
  portal's, of Browserless's or of the PDF services'. Hence the conclusion of `EndsOrAwaitsService`.
* `RemoteCalls!FairSpec`: weak fairness of the adapters' own steps and timers (`Local`), and of none of the
  services'. `EndsOrIsLeft` names what may then last for ever.

## 5. Proofs

The theorems hold for every value of the constants that satisfies the named assumptions of the modules
(`QueueAssumption`, `SyncAssumption`, `ScheduleAssumption`, `CatalogAssumption`, `ContinuarAssumption`,
`ControlAssumption`, `NoneAssumption`, `NoWorkerAssumption`, `MessagesAssumption`, `RemoteAssumption`), which TLC evaluates on every run.

* **DemandQueueProofs.** Every statement may fail, those of the catch block included. `IInv` is `TypeOK` and, for each demand no operator overrode, `DemandInv`: it has one
  holder; the row of a held demand is never pending (which is what makes the claim a lock: a second `Claim`
  would need a pending row); where the holder is tells whether the portal has filed it; and a pending or
  missing row has no filing since its opening. Mutual exclusion alone is not inductive, because nothing in it
  forbids a held row to be pending, and one filing per opening is not, because nothing in it says that a
  worker before the confirmation has not filed yet. `Inductive` is `Spec => []IInv`, and `ExclusiveHolder`,
  `NoSilentRefiling` and `RegisteredMeansFiled` follow from it.
  `Accounted` is the invariant of the write-back: the row of a holder that
  runs the external updates says Registrada, and a row that nobody holds is not En proceso and, if Registrada, has
  had all three updates, unless its last worker died, gave up on missing data or got an error of the database where
  nothing catches it; `DemandsAccounted`
  gives `InProcessAccounted` and `RegisteredSynced`. `SlotsAreCounted` counts: `SlotsInv` adds that the workers inside
  `runOnce` are finitely many, so that one that enters or leaves `runOnce` changes a cardinality by one.
  `QueueIsALease` is the refinement, whatever operators do. The owner of the lease is a CHOOSE over the holders,
  which `IInv` makes a definite worker (`Owners`); each action then maps to one step of the lease or to a stutter,
  those of operators to `Open`, `Reissue`, `Delete` and `Withdraw`, a claim whose answer is lost to `Lose`, and what
  happens to an overridden demand to a stutter (`Unseen`). `EditInv` says that a row a PUT has found, or a worker is about to
  save back, is not one the table has never had, so that its save is a `Reissue` or `Restore` of a deleted demand at most.
  `OneAnswer` says that `findNextPending` has one answer whenever a candidate is left: `OrderInv`, that `before`
  orders the rows totally, is kept by whatever places a row somewhere in it, and a finite set of rows (hence
  `IsFiniteSet(Demands)`) then has an oldest. `TurnIsKept` builds on it: a row that is written goes behind all that are
  not `fresh`, so those before a row that has been pending for a second only become fewer; among rows of one second
  the lower id wins, and nothing is claimed. `EveryRunOnceEnds` counts the candidates a worker may still set aside (`LoopInv`: they
  are finitely many, and at most `MaxCandidates`) and the stations behind them. The two are the halves of
  `PendingIsTaken` and `DrainsAfterStop` that need no fairness: what is still needed is that workers go on.
  `OrphansAreLeft` is the other side of the coin: a row left En proceso is not recovered by anyone.
  `SyncedStaysRegistrada` follows a row through the write-back; of a row whose updates are not complete the same
  is false (`queue_registered_final`).
* **BotControlProofs.** `CurrentIsRunning` is inductive with the types alone and holds for any overlap and any
  failure. The rest holds until calls overlap or a state goes unsaved (`calm`): `SInv` adds what a call on its way
  knows (`CallInv`) – a start has no rival in its portfolio but one it could not read, nothing runs while a stop or a
  refusal is persisted, the row an insert found missing still is, what is about to be answered is in the row – and that a bot in memory has its row, or the call about to write it,
  or no configuration any more (`MemoryInv`). The rule of one bot per portfolio is not inductive without the first,
  which is what overlapping starts break.
* **BotWorkersProofs.** `PromisesAreKept` carries the properties of `BotControl` over to its composition with the
  workers: a step of `BotWorkers` is one of `BotControl`, or leaves its variables alone, or is the restart after a
  worker's failing query (lemma `WorkersObeyControl`, which holds by the shape of the definitions), and `SInv`
  survives that restart, at whatever statement a call is cut off (`BootInv`). What makes `WorksWithinConditions` inductive is what a worker in
  `"once"` knows: the configuration current now is the one it asked about, or a start made it current since and is
  in `approved`. `AtMostOneMore` follows from `LateInv`: `late` holds no configuration that runs, and none a worker is
  choosing for – a worker that still comes from the record of one in `late` finds it deleted.
* **PendingSyncProofs.** A tick holds at most one row in hand, and only between its search and its insert, so
  rows plus creators of an assignment never exceed the number of ticks: a tick becomes a creator only when the
  assignment has no row. `NoOverlapNoDuplicates` is the case of one tick; it counts what the sync inserts, not an
  operator's POST, which looks for no duplicate, nor a session's save of a row deleted meanwhile. Cardinality lemmas (`Shrinks`,
  `BoundStep`) carry the counting. `EveryTickEnds` weighs what a tick has before it – a base more than all the rows
  it can hold, a row more than the statements it takes – for finite sets of bases and assignments; other ticks and
  new lawsuits do not add to it (`TickFalls`). `TickDropsNothing` says that a lawsuit the tick has read is let go of only
  with its row in the table, without an amount type, or when its base or the process fails. They are the halves
  of `PendingGetsRow` that need no fairness.
* **AttentionScheduleProofs.** The invariant keeps the four times of every row in order and no two rows with
  the key of another; from it the decision operators are shown to agree with the definition of being in hours
  (`WorksInHours`), the reasons to be true (`ReasonsHold`) and the hours unique (`HoursAreUnique`). `RowsGetTheirTurn` puts the
  portal's hours beside them.
* **CatalogProofs.** `IInv` is `TypeOK` and for each call `CallInv`: while nothing has raced it, the
  row it updates is there (`Found`), what it refers to is there (`RefThere`) and, where its service searched, its
  key is free (`KeyFree`); and `IdGiven`: a POST carries an id only where the service takes one. The two properties
  are not inductive without them, since nothing in them says that a check made some awaits ago still holds at the
  save. `Frame` says what a step of one call leaves to another; `ReadsKnow` and `WritesKnow` follow a call.
* **PortalSessionProofs.** What the portal was told follows from where the session is (`ToldInv`): it files only
  once confirmed, is confirmed only once asked, and is asked only where the setting is `false` and the wait
  for *Confirmar Datos* is over; from the second SI on only *finalizar* and an unnamed error can be raised. What
  is reported then follows (`ReportStep`), the catch block by its branches (`CaughtReports`), also where it throws. The simulation
  property alone is not inductive, since nothing in it ties the dialogs to the setting. `FlowInv`, `OpenInv`
  and `TokenInv` do the same for the flags, for what is open, or could not be closed, and for the captcha's token. `SessionMeetsContract` is
  the step simulation of `SessionContract`, with `SavedInv`: while a session goes on, its folder is there exactly
  from `SavePath` on. `EverySessionEnds` gives each place of the session its distance from the end (`MaxContinuar` + 30 at most); the only loop, the
  clicks of CONTINUAR, is bounded by `clicks`. It is the half of `EndsOrAwaitsService` that needs no fairness.
* **RemoteCallsProofs.** `Accepted` says what the property leaves out: from the moment the download is accepted its
  answer is a success and long enough, and a file that is judged by its type is whole. The bound on redirects is
  inductive as part of `TypeOK`. `TheCallsEnd` orders the calls and, within each, the redirects that are left; since the
  bound on redirects is any, the order is lexicographic, and `Outweighs` is the arithmetic it needs. It is the half of
  `EndsOrIsLeft` that needs no fairness.

Only model-checked, because out of the prover's reach: liveness (`PendingIsTaken`, `DrainsAfterStop`,
`ComesToRest`, `PendingGetsRow`, `EndsOrAwaitsService`, `EndsOrIsLeft`), which needs ENABLED. Of each the
half of the argument that is about single steps – the measure that falls, the turn that is kept, the one more demand of
`OneMoreAtMost` – is proved, as said above; that the system takes those steps is fairness and stays with TLC. Every other property of the passing
runs is a theorem.

Proved and in no run: the types of `PendingSync`, `AttentionSchedule`, `Catalog`, `PortalSession` and `RemoteCalls`;
`OneSchedulePerHours` and `SendsWithToken`, which the database's key or one wait give at once; `NoDuplicates`, for ticks that never overlap; `AnswersWithOne`, `OrphansStay`, `PromisesKept`,
`TickEnds` and `NoneIsDropped`, of which TLC found no counterexample on the instances of the runs. No module uses RECURSIVE operators.

## 6. Plan

1. A composition of `PendingSync` and `DemandQueue` with `BotControl` – the ticks that a start fires, the sync
   feeding the queue, the workers of `BotWorkers` running the sessions of `DemandQueue`.
2. The sections of the form with their selects and retries, as steps of `PortalSession`.
3. The selection of log files and lines by day and offset, as operators against a reference.

## 7. Not modelled

* Selectors, texts, logging and the reads that fill in the form: a form section is filled in or throws.
* The SQL filters of the sync's query (amount, dues state, manual mode): they decide which lawsuits are
  pending.
* The HTTP layer (routing, validation, envelope of responses) and the log files: stateless or read by nothing.
* Values too long for their column and database errors in the configuration services: any statement of theirs
  may fail so, and is answered with an internal error.
* An update of `data_bases` that gives a running configuration another portfolio: `PortfolioOf` is a constant. One
  that races a delete and brings the configuration back is in `Catalog`, and not composed with `BotControl`.
* What a session writes of its progress into `detail` and `updated_at` of its row, except where its failure decides
  the session's end: the row is En proceso then, and its place in the order is not looked at. A statement of the
  database counts as bounded in every fairness condition, though the adapter sets it no timeout of its own.
* The portal shows the *Finalizar* dialog only after it has filed: the code also takes one without a number for a
  registration (`browserlessPuppeteer.adapter.ts:2361-2369`), and the model would not notice a portal that does otherwise.
* Rows of an assignment that a POST or a session's save inserts: `DuplicatesBounded` counts the sync's own.
* `fetchWithCaFallback` of the PDF adapter, which nothing calls; the local, visible browser of
  `BROWSERLESS_SHOW_BROWSER`; what `/usage` says, which is only logged; methods and bodies of redirected requests;
  an answer that trickles in without end, which is `"answering"` for ever; a body that only the end of the
  connection delimits and that is cut, which passes as whole.
