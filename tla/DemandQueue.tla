---------------------------- MODULE DemandQueue ----------------------------
(***************************************************************************)
(* The table management_demands_online used as a work queue, the worker    *)
(* loops that take demands from it (demandsPendingSync.service.ts,         *)
(* runWorkerLoop; demandsOnlineAutomation.service.ts, runOnce), what a     *)
(* worker writes back when a portal session ends, and the three updates of *)
(* the external portfolio database that follow a registration.             *)
(*                                                                         *)
(* A step is one database statement or one portal effect together with the *)
(* synchronous code around it: the process is single threaded and yields   *)
(* at every await.                                                         *)
(***************************************************************************)
EXTENDS Integers, FiniteSets

CONSTANTS
    Demands,        \* ids of rows of management_demands_online
    Selectable,     \* the active rows (state_type_id = 1) of the bot's portfolio
    NoDemand,       \* stands for "no row"
    Workers,        \* the worker loops, one per concurrent browser
    MaxConcurrent,  \* BROWSERLESS_CONCURRENT_BROWSERS as runOnce reads it
    MaxCandidates,  \* maxCandidates of runOnce (100 in the code)
    WithPdfConfig,  \* rows whose base has a generate_pdf_demand_service url
    Simulated,      \* DEMANDS_PENDING_SYNC_SIMULATED_PORTAL # 'false'
    Operator,       \* which HTTP calls operators make: subset of
                    \* {"post", "put", "delete"}
    Faults          \* which failures happen: subset of {"crash", "extfail",
                    \* "dbfail"}: the process, the external tables, the table

ASSUME QueueAssumption ==
    /\ NoDemand \notin Demands
    /\ Selectable \subseteq Demands
    /\ MaxConcurrent \in Nat \ {0}
    /\ MaxCandidates \in Nat \ {0}
    /\ WithPdfConfig \subseteq Demands
    /\ Simulated \in BOOLEAN
    /\ Operator \subseteq {"post", "put", "delete"}
    /\ Faults \subseteq {"crash", "extfail", "dbfail"}

(***************************************************************************)
(* The values of a row that the program tells apart. "none" is an id the   *)
(* table has not given yet, "deleted" one whose row is gone. The note is   *)
(* the class of the detail column: "hours" a schedule restriction that     *)
(* carries "Horario:", "nohours" one without it, "plain" anything else.    *)
(***************************************************************************)
Pending  == {"Abierta", "Novedad"}
Statuses == Pending \cup {"En proceso", "Registrada"}
Notes    == {"plain", "hours", "nohours"}
RowVal   == [status: Statuses \cup {"none", "deleted"}, note: Notes]

\* Where a worker is; the demand it took is its own from "taken" to "failing".
Outside  == {"loop", "woken"}
Choosing == {"checking", "scan", "cand"}
Session  == {"taken", "saving", "attached", "submitted"}
Syncing  == {"ext1", "ext2", "ext3"}
Settling == {"report", "writing", "failed", "failing"} \cup Syncing
Holding  == Session \cup Settling
PC       == Outside \cup Choosing \cup Holding

\* How a session ended: what the adapter returned, or the class of its error.
Returned == {"registered", "parked", "novedad"}
Thrown   == {"hours", "nohours", "error"}
Outcomes == Returned \cup Thrown \cup {"none"}

VARIABLES
    running,        \* BotControlService.running
    open,           \* what checkRuntimeConditions would answer now
    portalOpen,     \* now is inside the hours a "hours" note states
    editing,        \* rows that a PUT in progress has found
    row,            \* management_demands_online
    before,         \* <<d, e>>: row d comes before e by updated_at and id
    fresh,          \* rows written so lately that updated_at may not tell them apart
    ext,            \* external tables that show the current registration, 0..3
    pc,             \* control state of each worker
    item,           \* the candidate or demand of each worker
    snap,           \* the row a worker read and will save back
    excl,           \* excludeIds of the current runOnce
    outcome,        \* how the worker's session ended
    currentRunning, \* DemandsOnlineAutomationService.currentRunning
    (* History, read by no step of the program. *)
    filings,        \* times d was filed since it was last opened (capped at 2)
    orphaned,       \* demands whose last worker died, gave up or lost the database
    overridden      \* demands an operator took out of the bot's hands

env     == <<running, open, portalOpen, editing>>
history == <<filings, orphaned, overridden>>
vars    == <<running, open, portalOpen, editing, row, before, fresh, ext, pc, item,
             snap, excl, outcome, currentRunning, filings, orphaned, overridden>>

----------------------------------------------------------------------------
Exists(d)    == row[d].status \in Statuses
IsPending(d) == row[d].status \in Pending
Holds(w, d)  == pc[w] \in Holding /\ item[w] = d
Held(d)      == \E w \in Workers : Holds(w, d)
BlankRow     == [status |-> "none", note |-> "plain"]

\* Row d comes right after the rows of earlier, which must be the first ones.
Place(d, earlier) ==
    /\ \A e \in earlier, f \in Demands \ {d} : <<f, e>> \in before => f \in earlier
    /\ before' = {p \in before : d \notin {p[1], p[2]}}
                    \cup (earlier \X {d}) \cup ({d} \X ((Demands \ {d}) \ earlier))

\* Mutant: a write leaves updated_at as it was.
TouchNothing(d) == UNCHANGED <<before, fresh>>

\* updated_at := now. The column has whole seconds, which a Date is rounded to and
\* CURRENT_TIMESTAMP cut to, and rows of one second are ordered by id: d comes
\* after every row that was not written just before.
Touch(d) ==
    /\ \E earlier \in SUBSET (Demands \ {d}) :
          (Demands \ {d}) \ fresh \subseteq earlier /\ Place(d, earlier)
    /\ fresh' = fresh \cup {d}

\* The values of a row, as repo.save writes them: an insert when the row is gone.
Values(d, status, note) ==
    row' = [row EXCEPT ![d] = [status |-> status, note |-> note]]

Save(d, status, note) == Values(d, status, note) /\ Touch(d)

\* Worker w goes to p, and what it carries otherwise stays.
Goto(w, p) == pc' = [pc EXCEPT ![w] = p]

\* runOnce ends (finally): the slot is given back and its locals are dropped.
Leave(w) ==
    /\ Goto(w, "loop")
    /\ item' = [item EXCEPT ![w] = NoDemand]
    /\ snap' = [snap EXCEPT ![w] = BlankRow]
    /\ excl' = [excl EXCEPT ![w] = {}]
    /\ outcome' = [outcome EXCEPT ![w] = "none"]
    /\ currentRunning' = currentRunning - 1

Init ==
    /\ running \in BOOLEAN
    /\ open \in BOOLEAN
    /\ portalOpen \in BOOLEAN
    /\ editing = {}
    /\ row \in [Demands -> {BlankRow, [status |-> "Abierta", note |-> "plain"]}]
    /\ before \in SUBSET (Demands \X Demands)
    /\ \A d, e \in Demands : (<<d, e>> \in before) # (d = e \/ <<e, d>> \in before)
    /\ \A d, e, f \in Demands :
          <<d, e>> \in before /\ <<e, f>> \in before => <<d, f>> \in before
    /\ fresh = {}
    /\ ext = [d \in Demands |-> 0]
    /\ pc = [w \in Workers |-> "loop"]
    /\ item = [w \in Workers |-> NoDemand]
    /\ snap = [w \in Workers |-> BlankRow]
    /\ excl = [w \in Workers |-> {}]
    /\ outcome = [w \in Workers |-> "none"]
    /\ currentRunning = 0
    /\ filings = [d \in Demands |-> 0]
    /\ orphaned = {}
    /\ overridden = {}

----------------------------------------------------------------------------
(* The worker loop and the head of runOnce.                                *)

\* The loop finds the bot running and awaits the runtime conditions; a stopped
\* bot makes it sleep and look again, which changes nothing.
Wake(w) ==
    /\ pc[w] = "loop"
    /\ running
    /\ Goto(w, "woken")
    /\ UNCHANGED <<env, row, before, fresh, ext, item, snap, excl, outcome,
                   currentRunning, history>>

\* The conditions arrive; in the same turn runOnce takes a slot and tests the
\* running flag again. Whatever is missing sends the worker back to sleep.
Gate(w) ==
    /\ pc[w] = "woken"
    /\ IF open /\ running /\ currentRunning < MaxConcurrent
         THEN /\ Goto(w, "checking")
              /\ currentRunning' = currentRunning + 1
         ELSE /\ Goto(w, "loop")
              /\ UNCHANGED currentRunning
    /\ UNCHANGED <<env, row, before, fresh, ext, item, snap, excl, outcome, history>>

\* Mutant: the early return forgets the slot (no finally).
CheckKeepsSlot(w) ==
    /\ pc[w] = "checking"
    /\ Goto(w, IF open THEN "scan" ELSE "loop")
    /\ UNCHANGED <<env, row, before, fresh, ext, item, snap, excl, outcome,
                   currentRunning, history>>

\* The second evaluation of the conditions, with the data_bases record of the
\* bot: without both runOnce ends.
Check(w) ==
    /\ pc[w] = "checking"
    /\ IF open
         THEN /\ Goto(w, "scan")
              /\ UNCHANGED <<item, snap, excl, outcome, currentRunning>>
         ELSE Leave(w)
    /\ UNCHANGED <<env, row, before, fresh, ext, history>>

\* What findNextPending may return: the pending row of the least updated_at.
Candidates(w) == {d \in Selectable : IsPending(d) /\ d \notin excl[w]}

\* Mutant: no ORDER BY updated_at.
NextPendingUnordered(w, d) == d \in Candidates(w)

NextPending(w, d) ==
    /\ d \in Candidates(w)
    /\ \A e \in Candidates(w) \ {d} : <<d, e>> \in before

MayLook(w)    == pc[w] = "scan" /\ Cardinality(excl[w]) < MaxCandidates
OutOfHours(d) == row[d] = [status |-> "Novedad", note |-> "hours"] /\ ~portalOpen

\* Mutant: the skipped row is not added to excludeIds.
SkipForgets(w) ==
    /\ MayLook(w)
    /\ \E d \in Demands : NextPending(w, d) /\ OutOfHours(d)
    /\ UNCHANGED vars

\* findNextPending returned a row outside the hours its detail states.
Skip(w) ==
    /\ MayLook(w)
    /\ \E d \in Demands :
          /\ NextPending(w, d)
          /\ OutOfHours(d)
          /\ excl' = [excl EXCEPT ![w] = @ \cup {d}]
    /\ UNCHANGED <<env, row, before, fresh, ext, pc, item, snap, outcome,
                   currentRunning, history>>

\* Mutant: the test for "no candidate" is dropped.
PickNothing(w) ==
    /\ MayLook(w)
    /\ item' = [item EXCEPT ![w] = IF Candidates(w) = {} THEN NoDemand
                                   ELSE CHOOSE d \in Candidates(w) : NextPending(w, d)]
    /\ Goto(w, "cand")
    /\ UNCHANGED <<env, row, before, fresh, ext, snap, excl, outcome,
                   currentRunning, history>>

\* findNextPending returned a row to try.
Pick(w) ==
    /\ MayLook(w)
    /\ \E d \in Demands :
          /\ NextPending(w, d)
          /\ ~OutOfHours(d)
          /\ item' = [item EXCEPT ![w] = d]
    /\ Goto(w, "cand")
    /\ UNCHANGED <<env, row, before, fresh, ext, snap, excl, outcome,
                   currentRunning, history>>

\* No candidate is left, or maxCandidates were tried.
GiveUp(w) ==
    /\ pc[w] = "scan"
    /\ Cardinality(excl[w]) >= MaxCandidates \/ Candidates(w) = {}
    /\ Leave(w)
    /\ UNCHANGED <<env, row, before, fresh, ext, history>>

\* Mutant: markInProcess updates by id alone.
ClaimBlindly(w) ==
    /\ pc[w] = "cand"
    /\ Save(item[w], "En proceso", "plain")
    /\ orphaned' = orphaned \ {item[w]}
    /\ Goto(w, "taken")
    /\ UNCHANGED <<env, ext, item, snap, excl, outcome, currentRunning, filings,
                   overridden>>

\* Mutant: markInProcess takes any row that is not yet in process.
ClaimUnlessTaken(w) ==
    /\ pc[w] = "cand"
    /\ LET d == item[w] IN
         IF Exists(d) /\ row[d].status # "En proceso"
           THEN /\ Save(d, "En proceso", "plain")
                /\ orphaned' = orphaned \ {d}
                /\ Goto(w, "taken")
                /\ UNCHANGED <<item, excl>>
           ELSE /\ Goto(w, "scan")
                /\ item' = [item EXCEPT ![w] = NoDemand]
                /\ excl' = [excl EXCEPT ![w] = @ \cup {d}]
                /\ UNCHANGED <<row, before, fresh, orphaned>>
    /\ UNCHANGED <<env, ext, snap, outcome, currentRunning, filings, overridden>>

\* Mutant: a lost claim is not added to excludeIds.
ClaimForgets(w) ==
    /\ pc[w] = "cand"
    /\ LET d == item[w] IN
         IF IsPending(d)
           THEN /\ Save(d, "En proceso", "plain")
                /\ orphaned' = orphaned \ {d}
                /\ Goto(w, "taken")
                /\ UNCHANGED item
           ELSE /\ Goto(w, "scan")
                /\ item' = [item EXCEPT ![w] = NoDemand]
                /\ UNCHANGED <<row, before, fresh, orphaned>>
    /\ UNCHANGED <<env, ext, snap, excl, outcome, currentRunning, filings, overridden>>

\* markInProcess: one UPDATE guarded by the status, so of several workers that
\* read the same candidate at most one is told it affected the row.
Claim(w) ==
    /\ pc[w] = "cand"
    /\ LET d == item[w] IN
         IF IsPending(d)
           THEN /\ Save(d, "En proceso", "plain")
                /\ orphaned' = orphaned \ {d}
                /\ Goto(w, "taken")
                /\ UNCHANGED <<item, excl>>
           ELSE /\ Goto(w, "scan")
                /\ item' = [item EXCEPT ![w] = NoDemand]
                /\ excl' = [excl EXCEPT ![w] = @ \cup {d}]
                /\ UNCHANGED <<row, before, fresh, orphaned>>
    /\ UNCHANGED <<env, ext, snap, outcome, currentRunning, filings, overridden>>

\* A statement before the session fails, and its error leaves runOnce. What is lost
\* may be only the answer of an UPDATE that took effect.
ChoosingFails(w) ==
    /\ "dbfail" \in Faults
    /\ pc[w] \in Choosing
    /\ Leave(w)
    /\ \/ UNCHANGED <<row, before, fresh, orphaned>>
       \/ /\ pc[w] = "cand" /\ IsPending(item[w])
          /\ Save(item[w], "En proceso", "plain")
          /\ orphaned' = orphaned \cup {item[w]}
    /\ UNCHANGED <<env, ext, filings, overridden>>

----------------------------------------------------------------------------
(* The portal session, as far as the queue can tell: the steps of the       *)
(* browser adapter that touch the row or file the demand, and its results.  *)

End(w, result) ==
    /\ outcome' = [outcome EXCEPT ![w] = result]
    /\ Goto(w, IF result \in Returned THEN "report" ELSE "failed")

\* The base of the demand has no PDF service: the row read before the claim is
\* saved back as Novedad, outside the try block.
NoPdfService(w) ==
    /\ pc[w] = "taken"
    /\ item[w] \notin WithPdfConfig
    /\ Save(item[w], "Novedad", "plain")
    /\ filings' = [filings EXCEPT ![item[w]] = 0]
    /\ Leave(w)
    /\ UNCHANGED <<env, ext, orphaned, overridden>>

\* runOnce ends by an error of the database: the row stays as it is, and its demand
\* is nobody's.
Abandon(w) ==
    /\ "dbfail" \in Faults
    /\ Leave(w)
    /\ orphaned' = orphaned \cup {item[w]}
    /\ UNCHANGED <<env, row, before, fresh, ext, filings, overridden>>

\* That update has no catch block.
NoPdfServiceFails(w) ==
    /\ pc[w] = "taken"
    /\ item[w] \notin WithPdfConfig
    /\ Abandon(w)

\* The session ends before the PDF is attached: no defendant data ("parked"),
\* PDF service failure, the portal's schedule restriction, or any other error.
EarlyEnd(w) ==
    /\ pc[w] = "taken"
    /\ item[w] \in WithPdfConfig
    /\ \E r \in Outcomes \ {"registered", "none"} : End(w, r)
    /\ UNCHANGED <<env, row, before, fresh, ext, item, snap, excl, currentRunning, history>>

\* The adapter reads the row to add path_law_doc to it.
ReadForPath(w) ==
    /\ pc[w] = "taken"
    /\ item[w] \in WithPdfConfig
    /\ IF Exists(item[w])
         THEN /\ snap' = [snap EXCEPT ![w] = row[item[w]]]
              /\ Goto(w, "saving")
              /\ UNCHANGED outcome
         ELSE End(w, "novedad") /\ UNCHANGED snap
    /\ UNCHANGED <<env, row, before, fresh, ext, item, excl, currentRunning, history>>

\* It saves the whole row it read, with the updated_at it read: the row may come
\* back to the place it had then.
SavePath(w) ==
    /\ pc[w] = "saving"
    /\ Values(item[w], snap[w].status, snap[w].note)
    /\ \E earlier \in SUBSET (Demands \ {item[w]}) : Place(item[w], earlier)
    /\ fresh' = fresh \cup {item[w]}
    /\ snap' = [snap EXCEPT ![w] = BlankRow]
    /\ Goto(w, "attached")
    /\ UNCHANGED <<env, ext, item, excl, outcome, currentRunning, history>>

\* The adapter catches the error of that save, unless what it writes about it
\* fails too.
SavingFails(w) ==
    /\ "dbfail" \in Faults
    /\ pc[w] = "saving"
    /\ snap' = [snap EXCEPT ![w] = BlankRow]
    /\ \E r \in {"novedad", "error"} : End(w, r)
    /\ UNCHANGED <<env, row, before, fresh, ext, item, excl, currentRunning, history>>

\* Mutant: an unset DEMANDS_PENDING_SYNC_SIMULATED_PORTAL is read two ways.
LateEndRegisters(w) ==
    /\ pc[w] = "attached"
    /\ \E r \in {"novedad", "error", "registered"} : End(w, r)
    /\ UNCHANGED <<env, row, before, fresh, ext, item, snap, excl, currentRunning, history>>

\* The PDF is on the portal's grid, and the captcha, ENVIAR or a confirmation
\* dialog fails; a simulated session answers NO and reports success.
LateEnd(w) ==
    /\ pc[w] = "attached"
    /\ \E r \in {"novedad", "error"} \cup (IF Simulated THEN {"registered"} ELSE {}) :
          End(w, r)
    /\ UNCHANGED <<env, row, before, fresh, ext, item, snap, excl, currentRunning, history>>

\* Mutant: the confirmation is clicked again when no dialog answers it.
FileAgain(w) ==
    /\ pc[w] = "attached"
    /\ ~Simulated
    /\ \E p \in {"attached", "submitted"} : Goto(w, p)
    /\ filings' = [filings EXCEPT ![item[w]] = IF @ < 2 THEN @ + 1 ELSE 2]
    /\ UNCHANGED <<env, row, before, fresh, ext, item, snap, excl, outcome,
                   currentRunning, orphaned, overridden>>

\* The second confirmation is clicked: the portal files the lawsuit.
FileAtPortal(w) ==
    /\ pc[w] = "attached"
    /\ ~Simulated
    /\ Goto(w, "submitted")
    /\ filings' = [filings EXCEPT ![item[w]] = IF @ < 2 THEN @ + 1 ELSE 2]
    /\ UNCHANGED <<env, row, before, fresh, ext, item, snap, excl, outcome,
                   currentRunning, orphaned, overridden>>

\* The Finalizar dialog is closed, or it is never seen, or its handling throws.
AfterFiling(w) ==
    /\ pc[w] = "submitted"
    /\ \E r \in {"registered", "novedad", "error"} : End(w, r)
    /\ UNCHANGED <<env, row, before, fresh, ext, item, snap, excl, currentRunning, history>>

----------------------------------------------------------------------------
(* What runOnce writes back.                                                *)

\* The row is read again, unless the session stopped before the attachments.
Refresh(w) ==
    /\ pc[w] = "report"
    /\ IF outcome[w] = "parked" \/ Exists(item[w])
         THEN Goto(w, "writing") /\ UNCHANGED outcome
         ELSE End(w, "error")
    /\ UNCHANGED <<env, row, before, fresh, ext, item, snap, excl, currentRunning, history>>

\* The outcome is written. A registration goes on with the external tables.
Finish(w) ==
    /\ pc[w] = "writing"
    /\ LET d == item[w] IN
         CASE outcome[w] = "registered" ->
                /\ Save(d, "Registrada", "plain")
                /\ ext' = [ext EXCEPT ![d] = 0]
                /\ Goto(w, "ext1")
                /\ UNCHANGED <<item, snap, excl, outcome, currentRunning, history>>
           [] outcome[w] = "parked" ->
                /\ Save(d, "En proceso", "plain")
                /\ orphaned' = orphaned \cup {d}
                /\ Leave(w)
                /\ UNCHANGED <<ext, filings, overridden>>
           [] OTHER ->
                /\ Save(d, "Novedad", "plain")
                /\ filings' = [filings EXCEPT ![d] = 0]
                /\ Leave(w)
                /\ UNCHANGED <<ext, orphaned, overridden>>
    /\ UNCHANGED env

\* The read or the write fails: the error is caught like a failed session's.
WriteFails(w) ==
    /\ "dbfail" \in Faults
    /\ pc[w] \in {"report", "writing"}
    /\ End(w, "error")
    /\ UNCHANGED <<env, row, before, fresh, ext, item, snap, excl, currentRunning, history>>

\* lawsuits, then lawsuits_filings, then clients: three separate statements. A row
\* that names no base or no lawsuit has nothing to update there.
SyncStep(w) ==
    /\ pc[w] \in Syncing
    /\ \E i \in (CASE pc[w] = "ext1" -> {1, 3} [] pc[w] = "ext2" -> {2} [] OTHER -> {3}) :
          /\ ext' = [ext EXCEPT ![item[w]] = i]
          /\ IF i = 3
               THEN Leave(w)
               ELSE /\ Goto(w, IF i = 1 THEN "ext2" ELSE "ext3")
                    /\ UNCHANGED <<item, snap, excl, outcome, currentRunning>>
    /\ UNCHANGED <<env, row, before, fresh, history>>

\* Mutant: the error of an external update is swallowed.
SyncFailsSilently(w) ==
    /\ "extfail" \in Faults
    /\ pc[w] \in Syncing
    /\ Leave(w)
    /\ UNCHANGED <<env, row, before, fresh, ext, history>>

\* One of the three fails: its error is caught like a failed session.
SyncFails(w) ==
    /\ "extfail" \in Faults
    /\ pc[w] \in Syncing
    /\ End(w, "error")
    /\ UNCHANGED <<env, row, before, fresh, ext, item, snap, excl, currentRunning, history>>

\* The catch block reads the row; if it is gone the error leaves runOnce.
ReadAfterError(w) ==
    /\ pc[w] = "failed"
    /\ IF Exists(item[w])
         THEN /\ Goto(w, "failing")
              /\ UNCHANGED <<item, snap, excl, outcome, currentRunning>>
         ELSE Leave(w)
    /\ UNCHANGED <<env, row, before, fresh, ext, history>>

\* Mutant: the catch block logs and returns without closing the row.
SaveNothing(w) ==
    /\ pc[w] = "failing"
    /\ Leave(w)
    /\ UNCHANGED <<env, row, before, fresh, ext, history>>

\* It saves the row as Novedad, with the class of the error in the detail.
SaveNovedad(w) ==
    /\ pc[w] = "failing"
    /\ Save(item[w], "Novedad", IF outcome[w] \in Notes THEN outcome[w] ELSE "plain")
    /\ filings' = [filings EXCEPT ![item[w]] = 0]
    /\ Leave(w)
    /\ UNCHANGED <<env, ext, orphaned, overridden>>

\* The catch block has none of its own: when its read or its save fails, the row
\* stays En proceso or Registrada.
CatchFails(w) == pc[w] \in {"failed", "failing"} /\ Abandon(w)

----------------------------------------------------------------------------
(* The rest of the process, its operators and its clock.                    *)

\* runSync found a pending lawsuit and inserts its row.
Arrive(d) ==
    /\ row[d].status = "none"
    /\ Save(d, "Abierta", "plain")
    /\ UNCHANGED <<env, ext, pc, item, snap, excl, outcome, currentRunning, history>>

\* POST management_demands_online: a row by hand, in any status. (Its dates
\* cannot be given: no text passes IsDate.)
OperatorPost(d) ==
    /\ "post" \in Operator
    /\ row[d].status = "none"
    /\ \E s \in Statuses :
          /\ Save(d, s, "plain")
          /\ overridden' = IF s \in Pending THEN overridden ELSE overridden \cup {d}
    /\ UNCHANGED <<env, ext, pc, item, snap, excl, outcome, currentRunning,
                   filings, orphaned>>

\* PUT management_demands_online/:id finds the row...
PutFinds(d) ==
    /\ "put" \in Operator
    /\ Exists(d)
    /\ d \notin editing
    /\ editing' = editing \cup {d}
    /\ UNCHANGED <<running, open, portalOpen, row, before, fresh, ext, pc, item, snap,
                   excl, outcome, currentRunning, history>>

\* ... and some awaits later saves it with any status (without one the repository
\* writes Abierta), or brings it back when it was deleted meanwhile. A save that
\* changes nothing is not sent.
OperatorPut(d) ==
    /\ d \in editing
    /\ editing' = editing \ {d}
    /\ \E s \in Statuses :
          /\ Values(d, s, "plain")
          /\ Touch(d) \/ (row' = row /\ UNCHANGED <<before, fresh>>)
          /\ filings' = [filings EXCEPT ![d] = IF s \in Pending THEN 0 ELSE @]
          /\ overridden' = IF Held(d) \/ s \notin Pending
                             THEN overridden \cup {d} ELSE overridden
    /\ UNCHANGED <<running, open, portalOpen, ext, pc, item, snap, excl, outcome,
                   currentRunning, orphaned>>

\* DELETE management_demands_online/:id. (It looks for the row first; a row gone
\* since then stays gone.)
OperatorDelete(d) ==
    /\ "delete" \in Operator
    /\ Exists(d)
    /\ row' = [row EXCEPT ![d].status = "deleted"]
    /\ UNCHANGED <<env, before, fresh, ext, pc, item, snap, excl, outcome,
                   currentRunning, history>>

\* The process dies between two statements and is started again: the table
\* stays, every session and counter is gone, and running is read back from
\* bot_control.
Crash ==
    /\ "crash" \in Faults
    /\ pc' = [w \in Workers |-> "loop"]
    /\ item' = [w \in Workers |-> NoDemand]
    /\ snap' = [w \in Workers |-> BlankRow]
    /\ excl' = [w \in Workers |-> {}]
    /\ outcome' = [w \in Workers |-> "none"]
    /\ currentRunning' = 0
    /\ orphaned' = orphaned \cup {d \in Demands : Held(d)}
    /\ editing' = {}
    /\ UNCHANGED <<running, open, portalOpen, row, before, fresh, ext, filings,
                   overridden>>

\* Operators start and stop the bot; schedules and holidays come and go.
Environment ==
    /\ \/ running' = ~running /\ UNCHANGED <<open, portalOpen>>
       \/ open' = ~open /\ UNCHANGED <<running, portalOpen>>
       \/ portalOpen' = ~portalOpen /\ UNCHANGED <<running, open>>
    /\ UNCHANGED <<editing, row, before, fresh, ext, pc, item, snap, excl, outcome,
                   currentRunning, history>>

\* Seconds pass: what is written from now on comes after d.
Age(d) ==
    /\ d \in fresh
    /\ fresh' = fresh \ {d}
    /\ UNCHANGED <<env, row, before, ext, pc, item, snap, excl, outcome,
                   currentRunning, history>>

Choose(w)   == Wake(w) \/ Gate(w) \/ Check(w) \/ Skip(w) \/ Pick(w) \/ GiveUp(w) \/ Claim(w)
               \/ ChoosingFails(w)
InPortal(w) == NoPdfService(w) \/ NoPdfServiceFails(w) \/ EarlyEnd(w) \/ ReadForPath(w)
               \/ SavePath(w) \/ SavingFails(w) \/ LateEnd(w) \/ FileAtPortal(w)
               \/ AfterFiling(w)
Settle(w)   == Refresh(w) \/ Finish(w) \/ WriteFails(w) \/ SyncStep(w) \/ SyncFails(w)
               \/ ReadAfterError(w) \/ SaveNovedad(w) \/ CatchFails(w)
Worker(w)   == Choose(w) \/ InPortal(w) \/ Settle(w)

Next ==
    \/ \E w \in Workers : Worker(w)
    \/ \E d \in Demands : \/ Arrive(d) \/ OperatorPost(d) \/ PutFinds(d) \/ OperatorPut(d)
                         \/ OperatorDelete(d) \/ Age(d)
    \/ Crash
    \/ Environment

Spec == Init /\ [][Next]_vars

\* Node keeps running every worker loop, and every await of a session ends: the
\* browser adapter bounds its waits. (The call of the PDF service has no
\* timeout, so this also assumes that service closes its connections.)
FairSpec ==
    /\ Spec
    /\ \A w \in Workers : WF_vars(Worker(w))
    /\ \A d \in Demands : WF_vars(Age(d))

----------------------------------------------------------------------------
(* Properties.                                                              *)

TypeOK ==
    /\ running \in BOOLEAN /\ open \in BOOLEAN /\ portalOpen \in BOOLEAN
    /\ row \in [Demands -> RowVal]
    /\ editing \in SUBSET Demands
    /\ before \in SUBSET (Demands \X Demands)
    /\ fresh \in SUBSET Demands
    /\ ext \in [Demands -> 0..3]
    /\ pc \in [Workers -> PC]
    /\ item \in [Workers -> Demands \cup {NoDemand}]
    /\ snap \in [Workers -> RowVal]
    /\ excl \in [Workers -> SUBSET Demands]
    /\ outcome \in [Workers -> Outcomes]
    /\ currentRunning \in Int
    /\ filings \in [Demands -> 0..2]
    /\ orphaned \in SUBSET Demands
    /\ overridden \in SUBSET Demands
    /\ \A w \in Workers : pc[w] \in Holding \cup {"cand"} => item[w] \in Demands

\* Two worker loops work on the same demand only after an operator's PUT
\* rewrote its row while a worker had it: markInProcess hands a demand to one
\* worker, and no write of a worker puts a demand back while another has it.
MutualExclusion ==
    \A w, v \in Workers, d \in Demands :
       Holds(w, d) /\ Holds(v, d) /\ w # v => d \in overridden

\* A demand is filed at most once for each time its row is opened (inserted, or
\* saved as Abierta or Novedad), whatever crashes, failures and deletions come
\* between: a second filing always follows a visible reopening.
FiledOncePerOpening ==
    \A d \in Demands \ overridden : filings[d] <= 1

\* Unless the portal is simulated, a row says Registrada only when the portal
\* filed the demand after the row was last opened.
RegisteredWasFiled ==
    ~Simulated =>
       \A d \in Demands \ overridden :
          row[d].status = "Registrada" => filings[d] >= 1

\* What makes the three invariants above inductive, for one demand no operator
\* overrode: the row of a held demand is never pending, and the position of its
\* worker tells whether the portal has filed it.
HolderInv(w, d) ==
    /\ row[d].status \in {"En proceso", "Registrada", "deleted"}
    /\ pc[w] \in Session \cup {"report", "writing"} => row[d].status # "Registrada"
    /\ pc[w] = "saving" => snap[w].status = "En proceso"
    /\ pc[w] \in {"taken", "saving", "attached"} => filings[d] = 0
    /\ pc[w] = "submitted" => filings[d] >= 1
    /\ pc[w] \in {"report", "writing"} /\ outcome[w] = "registered" /\ ~Simulated
          => filings[d] >= 1

DemandInv(d) ==
    d \notin overridden =>
       /\ \A w, v \in Workers : Holds(w, d) /\ Holds(v, d) => w = v
       /\ \A w \in Workers : Holds(w, d) => HolderInv(w, d)
       /\ filings[d] <= 1
       /\ row[d].status \in Pending \cup {"none"} => filings[d] = 0
       /\ row[d].status = "Registrada" /\ ~Simulated => filings[d] >= 1

IInv == TypeOK /\ \A d \in Demands : DemandInv(d)

\* A row in process has a worker, unless its last worker died, gave up on missing
\* defendant data or could not write to the table: no other failure, return or race
\* with another worker loses a demand that way.
InProcessIsAccounted ==
    \A d \in Demands \ overridden :
       row[d].status = "En proceso" => Held(d) \/ d \in orphaned

\* A registered demand that no worker is settling has all three external tables
\* updated, unless the process died on it, or an update failed and then the
\* database too, when the catch block was to say so.
RegisteredIsSynced ==
    \A d \in Demands \ overridden :
       row[d].status = "Registrada" => ext[d] = 3 \/ Held(d) \/ d \in orphaned

\* currentRunning counts the workers inside runOnce: no path out of it, and no
\* exception, keeps a slot or gives one back twice.
SlotsMatch ==
    currentRunning = Cardinality({w \in Workers : pc[w] \notin Outside})

\* findNextPending has one answer whenever a candidate is left: the rows are
\* ordered by updated_at, whatever wrote them last.
AnswersWithOne ==
    \A w \in Workers : Candidates(w) # {} =>
       \E d \in Demands : \A e \in Demands : NextPending(w, e) <=> e = d

\* How many steps worker w may still make in its runOnce.
Rank(w) ==
    LET left == MaxCandidates - Cardinality(excl[w]) IN
      CASE pc[w] = "checking"  -> 2 * MaxCandidates + 14
        [] pc[w] = "scan"      -> 2 * left + 13
        [] pc[w] = "cand"      -> 2 * left + 12
        [] pc[w] = "taken"     -> 11
        [] pc[w] = "saving"    -> 10
        [] pc[w] = "attached"  -> 9
        [] pc[w] = "submitted" -> 8
        [] pc[w] = "report"    -> 7
        [] pc[w] = "writing"   -> 6
        [] pc[w] = "ext1"      -> 5
        [] pc[w] = "ext2"      -> 4
        [] pc[w] = "ext3"      -> 3
        [] pc[w] = "failed"    -> 2
        [] pc[w] = "failing"   -> 1
        [] OTHER               -> 0

\* runOnce ends: each step of a worker brings it nearer, nobody else's takes it
\* back, and it has 2 * MaxCandidates + 14 of them at most.
RunOnceEnds ==
    /\ [](\A w \in Workers : Rank(w) \in 0..(2 * MaxCandidates + 14))
    /\ [][\A w \in Workers : pc[w] \notin Outside =>
             IF Worker(w) THEN Rank(w)' < Rank(w) ELSE Rank(w)' <= Rank(w)]_vars

\* A pending demand that was left alone for a second or two keeps its turn: the
\* pending rows before it become fewer and never more, unless an operator saves it
\* again. (A row that operators rewrite while a worker has it may be given an old
\* updated_at.)
Ahead(d) == {e \in Demands \ overridden : IsPending(e) /\ <<e, d>> \in before}

TurnsAreKept ==
    [][\A d \in Demands \ (overridden \cup fresh) :
          IsPending(d) /\ IsPending(d)' /\ ~OperatorPut(d) => Ahead(d)' \subseteq Ahead(d)]_vars

\* Registrada is final once the three external tables are updated: only an
\* operator changes it then.
SyncedIsFinal ==
    [][\A d \in Demands \ overridden :
          row[d].status = "Registrada" /\ ext[d] = 3
             => \/ row'[d] = row[d] /\ ext'[d] = 3
                \/ OperatorPut(d) \/ OperatorDelete(d)]_vars

\* A row left in process by a worker that died or gave up stays so until an
\* operator changes it: no query selects it, and nobody writes it.
OrphansStay ==
    [][\A d \in Demands :
          row[d].status = "En proceso" /\ ~Held(d)
             => \/ row'[d] = row[d] /\ ~Held(d)'
                \/ OperatorPut(d) \/ OperatorDelete(d)]_vars

\* While the bot stays started, in hours, and inside the portal's hours, every
\* selectable pending demand is taken: rows that fail again and again do not starve the
\* others, because findNextPending takes the least recently updated one.
PendingIsTaken ==
    <>[](running /\ open /\ portalOpen) =>
       \A d \in Selectable : IsPending(d) ~> ~IsPending(d)

\* After the bot is stopped for good, every worker comes back to its loop with
\* nothing in its hands.
DrainsAfterStop ==
    <>[]~running => <>[](\A w \in Workers : pc[w] = "loop")

\* The lifecycle Abierta -> En proceso -> Registrada / Novedad of the README:
\* a registered demand stays registered.
RegistradaIsFinal ==
    [][\A d \in Demands : row[d].status = "Registrada" => row'[d].status = "Registrada"]_row
============================================================================
