---------------------------- MODULE PortalSession ----------------------------
(***************************************************************************)
(* One session of the browser adapter on the court's portal                *)
(* (browserlessPuppeteer.adapter.ts): the form, the PDF, the reCAPTCHA, and*)
(* the dialogs after ENVIAR, up to the result that the automation service  *)
(* turns into the detail of the row. The portal acts by itself: a dialog   *)
(* opens, closes late or never comes, whatever the session is doing.       *)
(*                                                                         *)
(* A form section either is filled in or throws; which of its selects or   *)
(* buttons was missing is left out. Selectors, texts and logs are too.     *)
(***************************************************************************)
EXTENDS Integers

CONSTANT MaxContinuar  \* clicks on CONTINUAR that waitForJconfirm... accepts

ASSUME ContinuarAssumption == MaxContinuar \in Nat

Settings == {"true", "false", "unset"}
Form     == {"open", "place", "specialty", "plaintiff", "defendant", "attorney", "files"}
InTry    == {"generate", "path", "download", "upload", "grid", "captcha", "token", "send",
             "sent", "confirm", "answer", "answered", "double", "again", "final", "finish"}
At       == {"connect", "newpage"} \cup Form \cup InTry \cup {"catch", "clean", "close", "done"}
Dialogs  == {"continuar", "validation", "datos", "sure", "radicado"}
Errors   == {"none", "recaptcha", "grid", "validation", "deadline", "continuar",
             "si", "sure", "final", "other"}
Stages   == {"none", "recaptcha", "jconfirm_confirmar_datos_timeout",
             "portal_enviar_validation_error", "portal_adjunto_no_en_grilla",
             "pdf_generate", "pdf_download", "pdf_attach", "confirmar_datos_si",
             "doble_confirmacion", "finalizar", "unknown"}

\* ProcesarLugarEnvioResult. (confirmarDatosAction repeats no and si.)
Results == [reached : BOOLEAN, attached : BOOLEAN, registered : BOOLEAN,
            captcha : BOOLEAN, sent : BOOLEAN, opened : BOOLEAN,
            no : BOOLEAN, si : BOOLEAN, stage : Stages]

Blank == [reached |-> FALSE, attached |-> FALSE, registered |-> FALSE,
          captcha |-> FALSE, sent |-> FALSE, opened |-> FALSE,
          no |-> FALSE, si |-> FALSE, stage |-> "none"]

VARIABLES
    setting,   \* DEMANDS_PENDING_SYNC_SIMULATED_PORTAL
    pc,        \* where the session is
    flags,     \* its local flags, and in the end its result
    awaiting,  \* awaitingJconfirmConfirmarDatos
    clicks,    \* continuarClicks
    err,       \* the error being caught
    ended,     \* how the session ended for runOnce
    browser,   \* the connection to Browserless is open
    page,      \* its page is open
    tmp,       \* the temporary folder exists
    failed,    \* History: what could not be opened, closed or removed
    token,     \* #g-recaptcha-response has a value
    dialogs,   \* the portal's open dialogs
    portal     \* History: what the portal was told and did

local  == <<pc, flags, awaiting, clicks, err, ended>>
held   == <<browser, page, tmp, failed>>
remote == <<token, dialogs, portal>>
vars   == <<setting, local, held, remote>>

Init ==
    /\ setting \in Settings
    /\ pc = "connect"
    /\ flags = Blank
    /\ awaiting = FALSE
    /\ clicks = 0
    /\ err = "none"
    /\ ended = "no"
    /\ browser = FALSE
    /\ page = FALSE
    /\ tmp = FALSE
    /\ failed = {}
    /\ token = FALSE
    /\ dialogs = {}
    /\ portal = [asked |-> FALSE, sure |-> FALSE, confirmed |-> FALSE, filed |-> FALSE]

----------------------------------------------------------------------------
(* How a step ends. *)

\* The flow goes on at q and nothing else of the adapter changes.
GoOn(q) == pc' = q /\ UNCHANGED <<flags, awaiting, clicks, err, ended>>

\* It throws inside the try block of the attachments.
Raise(e) == pc' = "catch" /\ err' = e /\ UNCHANGED <<flags, awaiting, clicks, ended>>

\* It returns a result from q, through the finally blocks.
Return(r, q) ==
    /\ pc' = q
    /\ flags' = r
    /\ ended' = "returned"
    /\ UNCHANGED <<awaiting, clicks, err>>

\* It throws outside that block, and runOnce catches the error e.
Throw(e, q) == pc' = q /\ ended' = e /\ UNCHANGED <<flags, awaiting, clicks, err>>

----------------------------------------------------------------------------
(* The connection and the form. *)

\* createBrowser: not configured, unhealthy, or the connection fails. A health
\* check that is broken off, and the connection itself, have no timeout.
Connect ==
    /\ pc = "connect"
    /\ \/ GoOn("newpage") /\ browser' = TRUE
       \/ Throw("error", "done") /\ UNCHANGED browser
    /\ UNCHANGED <<setting, page, tmp, failed, remote>>

\* newPage is outside the try block: if it fails, nothing closes the browser.
NewPage ==
    /\ pc = "newpage"
    /\ \/ GoOn("open") /\ page' = TRUE /\ UNCHANGED failed
       \/ Throw("error", "done") /\ failed' = failed \cup {"newpage"} /\ UNCHANGED page
    /\ UNCHANGED <<setting, browser, tmp, remote>>

\* Any section of the form, or the row's detail in between, fails.
FormFails ==
    /\ pc \in Form
    /\ Throw("error", "close")
    /\ UNCHANGED <<setting, held, remote>>

Section(p, q) == pc = p /\ GoOn(q) /\ UNCHANGED <<setting, held, remote>>

\* The optional notice and the terms are accepted.
AcceptTerms == Section("open", "place")

\* Department and city; the portal may answer that the city has closed.
FillPlace ==
    \/ Section("place", "specialty")
    \/ /\ pc = "place"
       /\ Throw("restriction", "close")
       /\ UNCHANGED <<setting, held, remote>>

\* The first of the specialties and of the process classes that the portal has;
\* then the NIT and the e-mail must be known.
FillSpecialty == Section("specialty", "plaintiff")

\* The plaintiff is added to the grid. Without data of a defendant the session
\* ends there.
FillPlaintiff ==
    \/ Section("plaintiff", "defendant")
    \/ /\ pc = "plaintiff"
       /\ Return(Blank, "close")
       /\ UNCHANGED <<setting, held, remote>>

FillDefendant == Section("defendant", "attorney")

FillAttorney == Section("attorney", "files")

\* The section of the attachments, with the type DEMANDA.
ChooseFileType == Section("files", "generate")

----------------------------------------------------------------------------
(* The PDF. *)

\* Anything throws inside the try block: a wait runs out, the page or the
\* Browserless session is closed, the detail of the row cannot be written.
Breaks ==
    /\ pc \in InTry
    /\ Raise("other")
    /\ UNCHANGED <<setting, held, remote>>

\* The PDF service generates it. The call has no timeout.
GeneratePdf ==
    /\ pc = "generate"
    /\ \/ GoOn("path")
       \/ Return([Blank EXCEPT !.reached = TRUE, !.stage = "pdf_generate"], "clean")
    /\ UNCHANGED <<setting, held, remote>>

\* path_law_doc is saved in the row, and the temporary folder is made.
SavePath ==
    /\ pc = "path"
    /\ GoOn("download")
    /\ tmp' = TRUE
    /\ UNCHANGED <<setting, browser, page, failed, remote>>

\* Mutant: the early return is not covered by the finally block.
DownloadLeaves ==
    /\ pc = "download"
    /\ \/ GoOn("upload")
       \/ Return([Blank EXCEPT !.reached = TRUE, !.stage = "pdf_download"], "close")
    /\ UNCHANGED <<setting, held, remote>>

\* The file service is asked for it. The call has no timeout.
DownloadPdf ==
    /\ pc = "download"
    /\ \/ GoOn("upload")
       \/ Return([Blank EXCEPT !.reached = TRUE, !.stage = "pdf_download"], "clean")
    /\ UNCHANGED <<setting, held, remote>>

\* The PDF is put in the portal's input and Agregar Archivo is clicked.
UploadPdf ==
    /\ pc = "upload"
    /\ pc' = "grid"
    /\ flags' = [flags EXCEPT !.attached = TRUE]
    /\ UNCHANGED <<setting, awaiting, clicks, err, ended, held, remote>>

\* The portal lists it within 25 seconds, or not.
AwaitGrid ==
    /\ pc = "grid"
    /\ GoOn("captcha") \/ Raise("grid")
    /\ UNCHANGED <<setting, held, remote>>

----------------------------------------------------------------------------
(* solveRecaptcha and ENVIAR. *)

Solved ==
    /\ pc' = "send"
    /\ flags' = [flags EXCEPT !.captcha = TRUE]
    /\ UNCHANGED <<awaiting, clicks, err, ended>>

\* The race of the token in the page with Browserless's event: the token wins,
\* or the event says solved or not (and the token is waited for), or the event
\* is an error, or 14 minutes pass.
CaptchaRace ==
    /\ pc = "captcha"
    /\ \/ token /\ Solved
       \/ GoOn("token")
       \/ Raise("recaptcha")
    /\ UNCHANGED <<setting, held, remote>>

\* After the event the token must be in the page within 15 seconds.
AwaitToken ==
    /\ pc = "token"
    /\ \/ token /\ Solved
       \/ ~token /\ Raise("recaptcha")
    /\ UNCHANGED <<setting, held, remote>>

\* ENVIAR is clicked.
ClickEnviar ==
    /\ pc = "send"
    /\ pc' = "sent"
    /\ flags' = [flags EXCEPT !.sent = TRUE]
    /\ UNCHANGED <<setting, awaiting, clicks, err, ended, held, remote>>

\* The row's detail says so, and from now on a failure is one of the wait.
ReportSent ==
    /\ pc = "sent"
    /\ pc' = "confirm"
    /\ awaiting' = TRUE
    /\ UNCHANGED <<setting, flags, clicks, err, ended, held, remote>>

----------------------------------------------------------------------------
(* waitForJconfirmOpenConfirmarDatosAfterEnviar. *)

\* Mutant: awaitingJconfirmConfirmarDatos stays set.
FindDatosAwaiting ==
    /\ pc = "confirm"
    /\ "datos" \in dialogs
    /\ pc' = "answer"
    /\ flags' = [flags EXCEPT !.opened = TRUE]
    /\ UNCHANGED <<setting, awaiting, clicks, err, ended, held, remote>>

\* Confirmar Datos is open.
FindDatos ==
    /\ pc = "confirm"
    /\ "datos" \in dialogs
    /\ pc' = "answer"
    /\ flags' = [flags EXCEPT !.opened = TRUE]
    /\ awaiting' = FALSE
    /\ UNCHANGED <<setting, clicks, err, ended, held, remote>>

\* The dialog with CONTINUAR is an error of the portal's validation.
FindValidation ==
    /\ pc = "confirm"
    /\ "validation" \in dialogs
    /\ Raise("validation")
    /\ UNCHANGED <<setting, held, remote>>

\* Mutant: the clicks have no bound.
ContinuarUnbounded ==
    /\ pc = "confirm"
    /\ "continuar" \in dialogs
    /\ clicks' = clicks + 1
    /\ dialogs' = dialogs \ {"continuar"}
    /\ UNCHANGED <<setting, pc, err, flags, awaiting, ended, held, token, portal>>

\* A dialog with CONTINUAR alone is clicked away, at most MaxContinuar times.
ClickContinuar ==
    /\ pc = "confirm"
    /\ "continuar" \in dialogs
    /\ IF clicks = MaxContinuar
         THEN Raise("continuar") /\ UNCHANGED dialogs
         ELSE /\ clicks' = clicks + 1
              /\ dialogs' = dialogs \ {"continuar"}
              /\ UNCHANGED <<pc, err, flags, awaiting, ended>>
    /\ UNCHANGED <<setting, held, token, portal>>

\* Mutant: the deadline is looked at only when there is a dialog.
DeadlineWithDialog ==
    /\ pc = "confirm"
    /\ dialogs # {}
    /\ Raise("deadline")
    /\ UNCHANGED <<setting, held, remote>>

\* CONFIRMAR_DATOS_MODAL_WAIT_MS are over.
Deadline ==
    /\ pc = "confirm"
    /\ Raise("deadline")
    /\ UNCHANGED <<setting, held, remote>>

----------------------------------------------------------------------------
(* The answer to Confirmar Datos. *)

\* Mutant: an unset variable means production.
SimulatedWhenTrue == setting = "true"

IsSimulated == setting # "false"

\* Simulation: NO is clicked...
ClickNo ==
    /\ pc = "answer"
    /\ IsSimulated
    /\ GoOn("answered")
    /\ dialogs' = {}
    /\ UNCHANGED <<setting, held, token, portal>>

\* ... and the session reports a registration.
ReturnSimulated ==
    /\ pc = "answered"
    /\ Return([flags EXCEPT !.reached = TRUE, !.registered = TRUE, !.no = TRUE], "clean")
    /\ UNCHANGED <<setting, held, remote>>

\* Production: SI is clicked in Confirmar Datos.
ClickSi ==
    /\ pc = "answer"
    /\ ~IsSimulated
    /\ pc' = "double"
    /\ flags' = [flags EXCEPT !.si = TRUE]
    /\ portal' = [portal EXCEPT !.asked = TRUE]
    /\ UNCHANGED <<setting, awaiting, clicks, err, ended, held, token, dialogs>>

\* The dialog, or its button, is not found any more.
NoSi ==
    /\ pc = "answer"
    /\ ~IsSimulated
    /\ Raise("si")
    /\ UNCHANGED <<setting, held, remote>>

\* After 1.5 seconds a dialog with SI and NO must be open. Confirmar Datos has
\* both, too.
SiNoOpen == dialogs \cap {"datos", "sure"} # {}

CheckSure ==
    /\ pc = "double"
    /\ IF SiNoOpen THEN GoOn("again") ELSE Raise("sure")
    /\ UNCHANGED <<setting, held, remote>>

\* SI is clicked in the first such dialog of the page: Confirmar Datos, if it
\* is still there, where the click does nothing more.
ClickSure ==
    /\ pc = "again"
    /\ IF SiNoOpen THEN GoOn("final") ELSE Raise("sure")
    /\ IF "sure" \in dialogs /\ "datos" \notin dialogs
         THEN /\ portal' = [portal EXCEPT !.confirmed = TRUE]
              /\ dialogs' = dialogs \ {"sure"}
         ELSE UNCHANGED <<portal, dialogs>>
    /\ UNCHANGED <<setting, held, token>>

\* Mutant: after ten looks the session goes on without the dialog.
AwaitNothing ==
    /\ pc = "final"
    /\ GoOn("finish")
    /\ UNCHANGED <<setting, held, remote>>

\* The dialog with Finalizar is looked for ten times, a second apart.
AwaitRadicado ==
    /\ pc = "final"
    /\ \/ "radicado" \in dialogs /\ GoOn("finish")
       \/ "radicado" \notin dialogs /\ Raise("final")
    /\ UNCHANGED <<setting, held, remote>>

\* Finalizar is clicked, or not found any more.
ClickFinalizar ==
    /\ pc = "finish"
    /\ \/ Return([flags EXCEPT !.reached = TRUE, !.registered = TRUE], "clean")
       \/ Raise("final")
    /\ UNCHANGED <<setting, held, remote>>

----------------------------------------------------------------------------
(* The catch and finally blocks. *)

\* Mutant: a result of the catch block forgets reachedArchivosAdjuntos.
CaughtUnreached(e) ==
    LET sent == [Blank EXCEPT !.attached = TRUE, !.captcha = flags.captcha, !.sent = flags.sent]
    IN [sent EXCEPT !.stage = IF e = "recaptcha" THEN "recaptcha" ELSE "unknown"]

\* The result for error e, by the branches of the catch block in their order.
Caught(e) ==
    LET sent == [Blank EXCEPT !.reached = TRUE, !.attached = TRUE,
                              !.captcha = flags.captcha, !.sent = flags.sent]
    IN CASE e = "recaptcha" ->
              [sent EXCEPT !.captcha = FALSE, !.sent = FALSE, !.stage = "recaptcha"]
         [] e = "grid" ->
              [sent EXCEPT !.sent = FALSE, !.stage = "portal_adjunto_no_en_grilla"]
         [] awaiting /\ e = "validation" ->
              [sent EXCEPT !.stage = "portal_enviar_validation_error"]
         [] awaiting /\ e \notin {"recaptcha", "grid", "validation"} ->
              [sent EXCEPT !.stage = "jconfirm_confirmar_datos_timeout"]
         [] ~awaiting /\ e = "si" ->
              [sent EXCEPT !.opened = flags.opened, !.stage = "confirmar_datos_si"]
         [] ~awaiting /\ e = "sure" ->
              [sent EXCEPT !.opened = flags.opened, !.si = flags.si,
                           !.stage = "doble_confirmacion"]
         [] ~awaiting /\ e = "final" ->
              [sent EXCEPT !.opened = flags.opened, !.si = flags.si, !.stage = "finalizar"]
         [] OTHER ->
              [sent EXCEPT !.attached = flags.attached,
                           !.stage = IF flags.attached THEN "unknown" ELSE "pdf_attach"]

\* The branches write the detail of the row first, which may fail, except the
\* three of the dialogs after Confirmar Datos.
Catch ==
    /\ pc = "catch"
    /\ \/ Return(Caught(err), "clean")
       \/ /\ awaiting \/ err \notin {"si", "sure", "final"}
          /\ Throw("error", "clean")
    /\ UNCHANGED <<setting, held, remote>>

\* finally: the temporary folder, if there is one, is removed. An error is ignored,
\* and the folder stays.
CleanUp ==
    /\ pc = "clean"
    /\ GoOn("close")
    /\ \/ tmp' = FALSE /\ UNCHANGED failed
       \/ tmp /\ failed' = failed \cup {"tmp"} /\ UNCHANGED tmp
    /\ UNCHANGED <<setting, browser, page, remote>>

\* finally: the page and then the browser are closed; their errors are ignored
\* each, and what was not closed stays. With the browser goes its page.
Close ==
    /\ pc = "close"
    /\ GoOn("done")
    /\ \/ page' = FALSE /\ browser' = FALSE /\ UNCHANGED failed
       \/ failed' = failed \cup {"browser"} /\ page' = FALSE /\ UNCHANGED browser
       \/ failed' = failed \cup {"page", "browser"} /\ UNCHANGED <<page, browser>>
    /\ UNCHANGED <<setting, tmp, remote>>

----------------------------------------------------------------------------
(* The portal and Browserless (external). *)

\* The token of a solved reCAPTCHA appears.
PortalSolves ==
    /\ pc \in {"captcha", "token"}
    /\ ~token
    /\ token' = TRUE
    /\ UNCHANGED <<setting, local, held, dialogs, portal>>

\* After ENVIAR it asks to continue, complains, or shows Confirmar Datos.
PortalAnswers ==
    /\ pc \in {"sent", "confirm"}
    /\ dialogs = {}
    /\ \E d \in {"continuar", "validation", "datos"} : dialogs' = {d}
    /\ UNCHANGED <<setting, local, held, token, portal>>

\* Confirmar Datos closes after its SI, sometimes late.
PortalCloses ==
    /\ portal.asked
    /\ "datos" \in dialogs
    /\ dialogs' = dialogs \ {"datos"}
    /\ UNCHANGED <<setting, local, held, token, portal>>

\* It asks whether one is sure.
PortalAsks ==
    /\ portal.asked
    /\ ~portal.sure
    /\ dialogs' = dialogs \cup {"sure"}
    /\ portal' = [portal EXCEPT !.sure = TRUE]
    /\ UNCHANGED <<setting, local, held, token>>

\* It files the lawsuit, even if the session has ended, and shows its number.
PortalFiles ==
    /\ portal.confirmed
    /\ ~portal.filed
    /\ portal' = [portal EXCEPT !.filed = TRUE]
    /\ dialogs' = dialogs \cup {"radicado"}
    /\ UNCHANGED <<setting, local, held, token>>

Portal == PortalSolves \/ PortalAnswers \/ PortalCloses \/ PortalAsks \/ PortalFiles

----------------------------------------------------------------------------
\* The steps whose awaits are bounded by a timeout of the adapter's.
Bounded ==
    \/ NewPage \/ AcceptTerms \/ FillPlace \/ FillSpecialty
    \/ FillPlaintiff \/ FillDefendant \/ FillAttorney \/ ChooseFileType
    \/ SavePath \/ UploadPdf \/ AwaitGrid \/ CaptchaRace \/ AwaitToken
    \/ ClickEnviar \/ ReportSent \/ FindDatos \/ FindValidation \/ ClickContinuar \/ Deadline
    \/ ClickNo \/ ReturnSimulated \/ ClickSi \/ NoSi \/ CheckSure \/ ClickSure
    \/ AwaitRadicado \/ ClickFinalizar \/ Catch \/ CleanUp \/ Close

\* The steps that wait for another service (RemoteCalls).
Remote == Connect \/ GeneratePdf \/ DownloadPdf

Next == Bounded \/ Remote \/ FormFails \/ Breaks \/ Portal

Spec == Init /\ [][Next]_vars

\* Fairness: every wait of the adapter ends, by its timeout at the latest. The
\* portal, the other services and their failures promise nothing.
FairSpec == Spec /\ WF_vars(Bounded)

----------------------------------------------------------------------------
(* Properties. *)

\* Types; CONTINUAR is clicked at most MaxContinuar times.
TypeOK ==
    /\ setting \in Settings
    /\ pc \in At
    /\ flags \in Results
    /\ clicks \in 0..MaxContinuar
    /\ err \in Errors
    /\ ended \in {"no", "returned", "restriction", "error"}
    /\ awaiting \in BOOLEAN
    /\ browser \in BOOLEAN /\ page \in BOOLEAN /\ tmp \in BOOLEAN
    /\ failed \subseteq {"newpage", "tmp", "page", "browser"}
    /\ token \in BOOLEAN
    /\ dialogs \subseteq Dialogs
    /\ portal \in [asked : BOOLEAN, sure : BOOLEAN, confirmed : BOOLEAN, filed : BOOLEAN]

\* Only an explicit "false" files a lawsuit: with the variable set to anything
\* else, or unset, the portal is told NO and never files, whatever breaks.
FilesOnlyWhenToldFalse == portal.filed => setting = "false"

\* A session in production that reports a registration left a filed lawsuit at
\* the portal, and says that it clicked SI.
RegisteredIsFiled ==
    ended = "returned" /\ flags.registered /\ setting = "false" => portal.filed /\ flags.si

\* A session that fails after the portal was told to file reports "finalizar" or
\* "unknown", or throws because the catch block could not write the row's detail.
\* After every other failure, and there is no fourth way, trying the same demand
\* again cannot file it twice. (The queue does try again after these three.)
RetryIsSafe ==
    ended # "no" /\ ~flags.registered /\ portal.confirmed =>
       \/ ended = "returned" /\ flags.stage \in {"finalizar", "unknown"}
       \/ ended = "error" /\ err = "other" /\ flags.si

\* ENVIAR is never clicked without the token of a solved reCAPTCHA.
SendsWithToken == flags.sent => token

\* However the session ends, it has tried to undo what it did: of its folder, its
\* page and its browser only that is left whose removal or closing failed - and the
\* browser whose page never opened, which nothing closes.
LeavesNothingBehind ==
    pc = "done" =>
       /\ tmp => "tmp" \in failed
       /\ page => "page" \in failed
       /\ browser => failed \cap {"browser", "newpage"} # {}

\* The most steps the session may still make, the clicks on CONTINUAR included.
SessionRank ==
    CASE pc = "connect"   -> MaxContinuar + 30
      [] pc = "newpage"   -> MaxContinuar + 29
      [] pc = "open"      -> MaxContinuar + 28
      [] pc = "place"     -> MaxContinuar + 27
      [] pc = "specialty" -> MaxContinuar + 26
      [] pc = "plaintiff" -> MaxContinuar + 25
      [] pc = "defendant" -> MaxContinuar + 24
      [] pc = "attorney"  -> MaxContinuar + 23
      [] pc = "files"     -> MaxContinuar + 22
      [] pc = "generate"  -> MaxContinuar + 21
      [] pc = "path"      -> MaxContinuar + 20
      [] pc = "download"  -> MaxContinuar + 19
      [] pc = "upload"    -> MaxContinuar + 18
      [] pc = "grid"      -> MaxContinuar + 17
      [] pc = "captcha"   -> MaxContinuar + 16
      [] pc = "token"     -> MaxContinuar + 15
      [] pc = "send"      -> MaxContinuar + 14
      [] pc = "sent"      -> MaxContinuar + 13
      [] pc = "confirm"   -> MaxContinuar - clicks + 12
      [] pc = "answer"    -> 11
      [] pc = "answered"  -> 10
      [] pc = "double"    -> 9
      [] pc = "again"     -> 8
      [] pc = "final"     -> 7
      [] pc = "finish"    -> 6
      [] pc = "catch"     -> 5
      [] pc = "clean"     -> 4
      [] pc = "close"     -> 3
      [] pc = "done"      -> 0

\* The session never goes back: whatever breaks and whatever the portal does in
\* between, each of its own steps brings it nearer its end, through the finally
\* blocks, and no step of the portal takes it back.
SessionEnds ==
    /\ [](SessionRank \in 0..(MaxContinuar + 30))
    /\ [][IF Portal THEN SessionRank' = SessionRank ELSE SessionRank' < SessionRank]_vars

\* Every session ends, unless it waits forever for Browserless or for one of the
\* PDF services.
EndsOrAwaitsService ==
    <>(pc = "done") \/ \E p \in {"connect", "generate", "download"} : <>[](pc = p)
=============================================================================
