------------------------- MODULE PortalSessionProofs -------------------------
(***************************************************************************)
(* One session on the portal, for any bound on the clicks on CONTINUAR:    *)
(* what the portal was told follows from where the session is, and what    *)
(* the session reports follows from what the portal was told.              *)
(***************************************************************************)
EXTENDS PortalSessionContract, TLAPS

\* From SI in Confirmar Datos on; after the session has got its result.
Asking == {"double", "again", "final", "finish"}
Over   == {"clean", "close", "done"}

\* Where the flags are set.
FlowInv ==
    /\ pc \in Over <=> ended # "no"
    /\ pc \notin Over => ~flags.registered
    /\ pc \in {"answer", "answered"} \cup Asking => ~awaiting
    /\ pc \in InTry \ {"generate", "path", "download", "upload"} => flags.attached
    /\ pc = "answered" => IsSimulated
    /\ pc \in Asking => flags.si

\* What the portal was told: SI only in production and after Confirmar Datos,
\* the second SI after the first, and only then it files.
ToldInv ==
    /\ portal.asked => setting = "false" /\ ~awaiting
    /\ portal.asked => pc \in Asking \cup {"catch"} \cup Over
    /\ pc \in Asking => portal.asked
    /\ portal.confirmed => portal.asked
    /\ portal.confirmed => pc \in {"final", "finish", "catch"} \cup Over
    /\ portal.filed => portal.confirmed
    /\ "radicado" \in dialogs => portal.filed
    /\ pc = "finish" => portal.filed
    /\ portal.asked /\ ended = "no" => flags.si
    /\ pc = "catch" /\ portal.confirmed => err \in {"final", "other"} /\ flags.attached

TokenInv == pc = "send" => token

\* What is open where.
OpenInv ==
    /\ browser => pc # "connect"
    /\ page => pc \notin {"connect", "newpage"}
    /\ pc = "done" /\ page => "page" \in failed
    /\ tmp => pc \in InTry \cup {"catch", "clean"} \/ "tmp" \in failed
    /\ pc = "done" /\ browser => failed \cap {"browser", "newpage"} # {}

IInv ==
    /\ TypeOK /\ FlowInv /\ ToldInv /\ TokenInv /\ OpenInv
    /\ RegisteredIsFiled /\ RetryIsSafe /\ SendsWithToken

\* TypeOK in parts.
Places ==
    /\ setting \in Settings
    /\ pc \in At
    /\ err \in Errors
    /\ ended \in {"no", "returned", "restriction", "error"}
    /\ failed \subseteq {"newpage", "tmp", "page", "browser"}
    /\ dialogs \subseteq Dialogs

Booleans ==
    /\ awaiting \in BOOLEAN
    /\ browser \in BOOLEAN /\ page \in BOOLEAN /\ tmp \in BOOLEAN
    /\ token \in BOOLEAN

\* Marking how far a session came leaves a result a result.
LEMMA Marked ==
    ASSUME NEW r \in Results, NEW a \in BOOLEAN, NEW b \in BOOLEAN, NEW s \in Stages
    PROVE  /\ [r EXCEPT !.stage = s] \in Results
           /\ [r EXCEPT !.sent = a, !.stage = s] \in Results
           /\ [r EXCEPT !.captcha = a, !.sent = b, !.stage = s] \in Results
           /\ [r EXCEPT !.opened = a, !.stage = s] \in Results
           /\ [r EXCEPT !.opened = a, !.si = b, !.stage = s] \in Results
           /\ [r EXCEPT !.attached = a, !.stage = s] \in Results
<1>1. [r EXCEPT !.stage = s] \in Results
  BY DEF Results
<1>2. [r EXCEPT !.sent = a, !.stage = s] \in Results
  BY DEF Results
<1>3. [r EXCEPT !.captcha = a, !.sent = b, !.stage = s] \in Results
  BY DEF Results
<1>4. [r EXCEPT !.opened = a, !.stage = s] \in Results
  BY DEF Results
<1>5. [r EXCEPT !.opened = a, !.si = b, !.stage = s] \in Results
  BY DEF Results
<1>6. [r EXCEPT !.attached = a, !.stage = s] \in Results
  BY DEF Results
<1> QED BY <1>1, <1>2, <1>3, <1>4, <1>5, <1>6

\* What the catch block reports is a result.
LEMMA CaughtType == ASSUME TypeOK, NEW e PROVE Caught(e) \in Results
<1> DEFINE sent == [Blank EXCEPT !.reached = TRUE, !.attached = TRUE,
                                 !.captcha = flags.captcha, !.sent = flags.sent]
<1>1. sent \in Results
  BY DEF TypeOK, Results, Blank, Stages
<1>2. flags.opened \in BOOLEAN /\ flags.si \in BOOLEAN /\ flags.attached \in BOOLEAN
  BY DEF TypeOK, Results
<1>3. PICK s \in Stages :
        \/ Caught(e) = [sent EXCEPT !.captcha = FALSE, !.sent = FALSE, !.stage = s]
        \/ Caught(e) = [sent EXCEPT !.sent = FALSE, !.stage = s]
        \/ Caught(e) = [sent EXCEPT !.stage = s]
        \/ Caught(e) = [sent EXCEPT !.opened = flags.opened, !.stage = s]
        \/ Caught(e) = [sent EXCEPT !.opened = flags.opened, !.si = flags.si, !.stage = s]
        \/ Caught(e) = [sent EXCEPT !.attached = flags.attached, !.stage = s]
  BY DEF Caught, Stages
<1> HIDE DEF sent
<1>4. /\ [sent EXCEPT !.captcha = FALSE, !.sent = FALSE, !.stage = s] \in Results
      /\ [sent EXCEPT !.sent = FALSE, !.stage = s] \in Results
      /\ [sent EXCEPT !.stage = s] \in Results
  BY <1>1, Marked
<1>5. /\ [sent EXCEPT !.opened = flags.opened, !.stage = s] \in Results
      /\ [sent EXCEPT !.opened = flags.opened, !.si = flags.si, !.stage = s] \in Results
      /\ [sent EXCEPT !.attached = flags.attached, !.stage = s] \in Results
  BY <1>1, <1>2, Marked
<1> QED BY <1>3, <1>4, <1>5

\* A session starts with every variable of its type.
LEMMA InitType == Init => TypeOK
<1> SUFFICES ASSUME Init PROVE TypeOK
  OBVIOUS
<1>1. flags \in Results
  BY DEF Init, Results, Blank, Stages
<1>2. /\ setting \in Settings /\ pc \in At /\ err \in Errors
      /\ ended \in {"no", "returned", "restriction", "error"} /\ dialogs \subseteq Dialogs
      /\ failed \subseteq {"newpage", "tmp", "page", "browser"}
  BY DEF Init, At, Errors
<1>3. clicks \in 0..MaxContinuar
  BY ContinuarAssumption DEF Init
<1>4. Booleans
  BY DEF Init, Booleans
<1>5. portal \in [asked : BOOLEAN, sure : BOOLEAN, confirmed : BOOLEAN, filed : BOOLEAN]
  BY DEF Init
<1> QED BY <1>1, <1>2, <1>3, <1>4, <1>5 DEF TypeOK, Booleans

\* Every result is one of the port's.
LEMMA FlagsStep ==
    ASSUME TypeOK, [Next]_vars
    PROVE  flags' \in Results
<1> USE DEF TypeOK
<1>1. CASE UNCHANGED flags
  BY <1>1
<1>2. CASE UploadPdf \/ ClickEnviar \/ ReportSent \/ FindDatos \/ ClickSi \/ Solved
  BY <1>2 DEF UploadPdf, ClickEnviar, ReportSent, FindDatos, ClickSi, Solved, Results
<1>3. CASE flags' = Blank
  BY <1>3 DEF Blank, Results, Stages
<1>4. CASE \E s \in {"pdf_generate", "pdf_download"} :
              flags' = [Blank EXCEPT !.reached = TRUE, !.stage = s]
  BY <1>4 DEF Blank, Results, Stages
<1>5. CASE \/ flags' = [flags EXCEPT !.reached = TRUE, !.registered = TRUE, !.no = TRUE]
           \/ flags' = [flags EXCEPT !.reached = TRUE, !.registered = TRUE]
  BY <1>5 DEF Results
<1>6. CASE Catch
  BY <1>6, CaughtType DEF Catch, Return, Throw
<1>7. CASE Bounded
  BY <1>1, <1>2, <1>3, <1>5, <1>6, <1>7
     DEF Bounded, NewPage, AcceptTerms, FillPlace, FillSpecialty,
          FillPlaintiff, FillDefendant, FillAttorney, ChooseFileType, Section,
          SavePath, AwaitGrid, CaptchaRace, AwaitToken, FindValidation,
          ClickContinuar, Deadline, ClickNo, ReturnSimulated, NoSi, CheckSure,
          ClickSure, AwaitRadicado, ClickFinalizar, CleanUp, Close, GoOn, Raise,
          Return, Throw
<1>8. CASE Remote
  BY <1>1, <1>4, <1>8 DEF Remote, Connect, GeneratePdf, DownloadPdf, GoOn, Return, Throw
<1>9. CASE FormFails \/ Breaks \/ Portal \/ UNCHANGED vars
  BY <1>1, <1>9
     DEF FormFails, Breaks, Throw, Raise, Portal, PortalSolves, PortalAnswers,
                    PortalCloses, PortalAsks, PortalFiles, local, vars
<1> QED BY <1>7, <1>8, <1>9 DEF Next

\* What is open, and whether there is a token, is one of two.
LEMMA BooleansStep == ASSUME TypeOK, [Next]_vars PROVE Booleans'
<1> USE DEF TypeOK, Booleans
<1>1. CASE Connect \/ NewPage \/ AcceptTerms \/ FillPlace \/ FillSpecialty \/
          FillPlaintiff \/ FillDefendant \/ FillAttorney \/ ChooseFileType \/
          FormFails
  BY <1>1 DEF Connect, NewPage, AcceptTerms, FillPlace, FillSpecialty, FillPlaintiff,
       FillDefendant, FillAttorney, ChooseFileType, FormFails, Section, GoOn, Return,
       Throw, held, remote
<1>2. CASE GeneratePdf \/ SavePath \/ DownloadPdf \/ UploadPdf \/ AwaitGrid \/
          CaptchaRace \/ AwaitToken \/ ClickEnviar \/ ReportSent \/ FindDatos \/ Breaks
  BY <1>2
     DEF GeneratePdf, SavePath, DownloadPdf, UploadPdf, AwaitGrid, CaptchaRace,
         AwaitToken, ClickEnviar, ReportSent, FindDatos, Breaks, GoOn, Raise, Return, Solved,
         held, remote
<1>3. CASE FindValidation \/ ClickContinuar \/ Deadline \/ ClickNo \/ ReturnSimulated
          \/ ClickSi \/ NoSi \/ CheckSure \/ ClickSure \/ AwaitRadicado \/
          ClickFinalizar \/ Catch \/ CleanUp \/ Close
  BY <1>3
     DEF FindValidation, ClickContinuar, Deadline, ClickNo, ReturnSimulated,
         ClickSi, NoSi, CheckSure, ClickSure, AwaitRadicado, ClickFinalizar, Catch,
         CleanUp, Close, GoOn, Raise, Return, Throw, held, remote
<1>4. CASE Portal \/ UNCHANGED vars
  BY <1>4
     DEF Portal, PortalSolves, PortalAnswers, PortalCloses, PortalAsks, PortalFiles,
         local, held, remote, vars
<1> QED BY <1>1, <1>2, <1>3, <1>4 DEF Next, Bounded, Remote

\* The session is at a place of its own, with an error and dialogs of its own.
LEMMA PlacesStep == ASSUME TypeOK, [Next]_vars PROVE Places'
<1> USE DEF TypeOK, Places, At, Form, InTry, Errors, Dialogs
<1>1. CASE Connect \/ NewPage \/ AcceptTerms \/ FillPlace \/ FillSpecialty \/
          FillPlaintiff \/ FillDefendant \/ FillAttorney \/ ChooseFileType \/
          FormFails
  BY <1>1 DEF Connect, NewPage, AcceptTerms, FillPlace, FillSpecialty, FillPlaintiff,
       FillDefendant, FillAttorney, ChooseFileType, FormFails, Section, GoOn, Return,
       Throw, held, remote
<1>2. CASE GeneratePdf \/ SavePath \/ DownloadPdf \/ UploadPdf \/ AwaitGrid \/
          CaptchaRace \/ AwaitToken \/ ClickEnviar \/ ReportSent \/ FindDatos \/ Breaks
  BY <1>2
     DEF GeneratePdf, SavePath, DownloadPdf, UploadPdf, AwaitGrid, CaptchaRace,
         AwaitToken, ClickEnviar, ReportSent, FindDatos, Breaks, GoOn, Raise, Return, Solved,
         held, remote
<1>3. CASE FindValidation \/ ClickContinuar \/ Deadline \/ ClickNo \/ ReturnSimulated
          \/ ClickSi \/ NoSi \/ CheckSure \/ ClickSure \/ AwaitRadicado \/
          ClickFinalizar \/ Catch \/ CleanUp \/ Close
  BY <1>3
     DEF FindValidation, ClickContinuar, Deadline, ClickNo, ReturnSimulated,
         ClickSi, NoSi, CheckSure, ClickSure, AwaitRadicado, ClickFinalizar, Catch,
         CleanUp, Close, GoOn, Raise, Return, Throw, held, remote
<1>4. CASE Portal \/ UNCHANGED vars
  BY <1>4
     DEF Portal, PortalSolves, PortalAnswers, PortalCloses, PortalAsks, PortalFiles,
         local, held, remote, vars
<1> QED BY <1>1, <1>2, <1>3, <1>4 DEF Next, Bounded, Remote

\* What the portal was told are four yes or no.
LEMMA PortalStep ==
    ASSUME TypeOK, [Next]_vars
    PROVE  portal' \in [asked : BOOLEAN, sure : BOOLEAN, confirmed : BOOLEAN, filed : BOOLEAN]
<1> USE DEF TypeOK
<1>1. CASE ClickSi \/ ClickSure \/ PortalAsks \/ PortalFiles
  BY <1>1 DEF ClickSi, ClickSure, PortalAsks, PortalFiles
<1>2. CASE UNCHANGED portal
  BY <1>2
<1>3. CASE Bounded
  BY <1>1, <1>2, <1>3
     DEF Bounded, NewPage, AcceptTerms, FillPlace, FillSpecialty,
          FillPlaintiff, FillDefendant, FillAttorney, ChooseFileType, Section,
          SavePath, UploadPdf, AwaitGrid, CaptchaRace, AwaitToken, ClickEnviar, ReportSent,
          FindDatos, FindValidation, ClickContinuar, Deadline, ClickNo,
          ReturnSimulated, NoSi, CheckSure, AwaitRadicado, ClickFinalizar, Catch,
          CleanUp, Close, remote
<1> QED BY <1>1, <1>2, <1>3
   DEF Next, Remote, Connect, GeneratePdf, DownloadPdf, FormFails, Breaks, Portal, PortalSolves,
       PortalAnswers, PortalCloses, remote, vars

\* CONTINUAR is clicked at most MaxContinuar times.
LEMMA ClicksStep == ASSUME TypeOK, [Next]_vars PROVE clicks' \in 0..MaxContinuar
<1> USE DEF TypeOK
<1>1. CASE ClickContinuar
  BY <1>1, ContinuarAssumption DEF ClickContinuar, Raise
<1>2. CASE UNCHANGED clicks
  BY <1>2
<1>3. CASE Bounded
  BY <1>1, <1>2, <1>3
     DEF Bounded, NewPage, AcceptTerms, FillPlace, FillSpecialty,
          FillPlaintiff, FillDefendant, FillAttorney, ChooseFileType, Section,
          SavePath, UploadPdf, AwaitGrid, CaptchaRace, AwaitToken, ClickEnviar, ReportSent,
          FindDatos, FindValidation, Deadline, ClickNo, ReturnSimulated, ClickSi,
          NoSi, CheckSure, ClickSure, AwaitRadicado, ClickFinalizar, Catch, CleanUp,
          Close, GoOn, Raise, Return, Throw, Solved
<1> QED BY <1>1, <1>2, <1>3
   DEF Next, Remote, Connect, GeneratePdf, DownloadPdf, FormFails, Breaks, Portal, PortalSolves,
       PortalAnswers, PortalCloses, PortalAsks, PortalFiles, GoOn, Raise, Return,
       Throw, local, vars

\* Every step keeps every variable of its type.
LEMMA TypeStep == ASSUME TypeOK, [Next]_vars PROVE TypeOK'
  BY FlagsStep, BooleansStep, PlacesStep, PortalStep, ClicksStep
     DEF TypeOK, Booleans, Places

\* Every step keeps the flags in line with where the session is.
LEMMA FlowStep ==
    ASSUME TypeOK, FlowInv, [Next]_vars
    PROVE  FlowInv'
<1>1. CASE Connect \/ NewPage \/ FormFails \/ AcceptTerms \/ FillPlace \/
          FillSpecialty \/ FillPlaintiff \/ FillDefendant \/ FillAttorney \/
          ChooseFileType
  BY <1>1 DEF TypeOK, Results, FlowInv, Asking, Over, InTry, Form, Settings,
     IsSimulated, Connect, NewPage, FormFails, AcceptTerms, FillPlace, FillSpecialty,
     FillPlaintiff, FillDefendant, FillAttorney, ChooseFileType, Section, GoOn, Return,
     Throw, Blank, local, held, remote
<1>2. CASE Breaks \/ GeneratePdf \/ SavePath \/ DownloadPdf \/ UploadPdf \/
          AwaitGrid
  BY <1>2 DEF TypeOK, Results, FlowInv, Asking, Over, InTry, Form, Settings,
     IsSimulated, Breaks, GeneratePdf, SavePath, DownloadPdf, UploadPdf, AwaitGrid,
     GoOn, Raise, Return, Blank, local, held, remote
<1>3. CASE CaptchaRace \/ AwaitToken \/ ClickEnviar \/ ReportSent \/ FindDatos \/ FindValidation
          \/ ClickContinuar \/ Deadline
  BY <1>3 DEF TypeOK, Results, FlowInv, Asking, Over, InTry, Form, Settings,
     IsSimulated, CaptchaRace, AwaitToken, ClickEnviar, ReportSent, FindDatos, FindValidation,
     ClickContinuar, Deadline, Solved, GoOn, Raise, local, held, remote
<1>4. CASE ClickNo \/ ReturnSimulated \/ ClickSi \/ NoSi \/ CheckSure
  BY <1>4 DEF TypeOK, Results, FlowInv, Asking, Over, InTry, Form, Settings,
     IsSimulated, ClickNo, ReturnSimulated, ClickSi, NoSi, CheckSure, GoOn, Raise,
     Return, local, held, remote
<1>5. CASE ClickSure \/ AwaitRadicado \/ ClickFinalizar
  BY <1>5 DEF TypeOK, Results, FlowInv, Asking, Over, InTry, Form, Settings,
     IsSimulated, ClickSure, AwaitRadicado, ClickFinalizar, SiNoOpen, GoOn, Raise,
     Return, local, held, remote
<1>6. CASE Catch \/ CleanUp \/ Close
  BY <1>6 DEF TypeOK, Results, FlowInv, Asking, Over, InTry, Form, Settings,
     IsSimulated, Catch, CleanUp, Close, Caught, GoOn, Return, Throw, Blank, local,
     held, remote
<1>7. CASE Portal
  BY <1>7 DEF TypeOK, Results, FlowInv, Asking, Over, InTry, Form, Settings,
     IsSimulated, PortalSolves, PortalAnswers, PortalCloses, PortalAsks, PortalFiles,
     Portal, local, held, remote
<1>8. CASE UNCHANGED vars
  BY <1>8 DEF TypeOK, Results, FlowInv, Asking, Over, InTry, Form, Settings,
     IsSimulated, vars, local, held, remote
<1> QED BY <1>1, <1>2, <1>3, <1>4, <1>5, <1>6, <1>7, <1>8 DEF Next, Bounded, Remote

\* Every step keeps what the portal was told in line with where the session is.
LEMMA ToldStep ==
    ASSUME TypeOK, FlowInv, ToldInv, [Next]_vars
    PROVE  ToldInv'
<1>1. CASE Connect \/ NewPage \/ FormFails \/ AcceptTerms \/ FillPlace \/
          FillSpecialty \/ FillPlaintiff \/ FillDefendant \/ FillAttorney \/
          ChooseFileType
  BY <1>1 DEF TypeOK, Results, FlowInv, Asking, Over, InTry, Form, Settings, ToldInv,
     IsSimulated, Connect, NewPage, FormFails, AcceptTerms, FillPlace, FillSpecialty,
     FillPlaintiff, FillDefendant, FillAttorney, ChooseFileType, Section, GoOn, Return,
     Throw, Blank, local, held, remote
<1>2. CASE Breaks \/ GeneratePdf \/ SavePath \/ DownloadPdf \/ UploadPdf \/
          AwaitGrid
  BY <1>2 DEF TypeOK, Results, FlowInv, Asking, Over, InTry, Form, Settings, ToldInv,
     IsSimulated, Breaks, GeneratePdf, SavePath, DownloadPdf, UploadPdf, AwaitGrid,
     GoOn, Raise, Return, Blank, local, held, remote
<1>3. CASE CaptchaRace \/ AwaitToken \/ ClickEnviar \/ ReportSent \/ FindDatos \/ FindValidation
          \/ ClickContinuar \/ Deadline
  BY <1>3 DEF TypeOK, Results, FlowInv, Asking, Over, InTry, Form, Settings, ToldInv,
     IsSimulated, CaptchaRace, AwaitToken, ClickEnviar, ReportSent, FindDatos, FindValidation,
     ClickContinuar, Deadline, Solved, GoOn, Raise, local, held, remote
<1>4. CASE ClickNo \/ ReturnSimulated \/ ClickSi \/ NoSi \/ CheckSure
  BY <1>4 DEF TypeOK, Results, FlowInv, Asking, Over, InTry, Form, Settings, ToldInv,
     IsSimulated, ClickNo, ReturnSimulated, ClickSi, NoSi, CheckSure, GoOn, Raise,
     Return, local, held, remote
<1>5. CASE ClickSure \/ AwaitRadicado \/ ClickFinalizar
  BY <1>5 DEF TypeOK, Results, FlowInv, Asking, Over, InTry, Form, Settings, ToldInv,
     IsSimulated, ClickSure, AwaitRadicado, ClickFinalizar, SiNoOpen, GoOn, Raise,
     Return, local, held, remote
<1>6. CASE Catch \/ CleanUp \/ Close
  BY <1>6 DEF TypeOK, Results, FlowInv, Asking, Over, InTry, Form, Settings, ToldInv,
     IsSimulated, Catch, CleanUp, Close, Caught, GoOn, Return, Throw, Blank, local,
     held, remote
<1>7. CASE Portal
  BY <1>7 DEF TypeOK, Results, FlowInv, Asking, Over, InTry, Form, Settings, ToldInv,
     IsSimulated, PortalSolves, PortalAnswers, PortalCloses, PortalAsks, PortalFiles,
     Portal, local, held, remote
<1>8. CASE UNCHANGED vars
  BY <1>8 DEF TypeOK, Results, FlowInv, Asking, Over, InTry, Form, Settings, ToldInv,
     IsSimulated, vars, local, held, remote
<1> QED BY <1>1, <1>2, <1>3, <1>4, <1>5, <1>6, <1>7, <1>8 DEF Next, Bounded, Remote

\* Every step keeps what is open in line with where the session is.
LEMMA OpenStep ==
    ASSUME TypeOK, OpenInv, FlowInv, [Next]_vars
    PROVE  OpenInv'
<1>1. CASE Connect \/ NewPage \/ FormFails \/ AcceptTerms \/ FillPlace \/
          FillSpecialty \/ FillPlaintiff \/ FillDefendant \/ FillAttorney \/
          ChooseFileType
  <2>1. CASE Connect
    BY <2>1 DEF OpenInv, InTry, Connect, GoOn, Throw, remote
  <2>2. CASE NewPage
    BY <2>2 DEF OpenInv, InTry, TypeOK, NewPage, GoOn, Throw, remote
  <2>3. CASE FormFails
    BY <2>3 DEF OpenInv, InTry, Form, FormFails, Throw, held, remote
  <2>4. CASE AcceptTerms \/ FillPlace \/ FillSpecialty \/ FillPlaintiff
    BY <2>4 DEF OpenInv, InTry, AcceptTerms, FillPlace, FillSpecialty, FillPlaintiff, Section,
       GoOn, Return, Throw, held, remote
  <2>5. CASE FillDefendant \/ FillAttorney \/ ChooseFileType
    BY <2>5 DEF OpenInv, InTry, FillDefendant, FillAttorney, ChooseFileType, Section, GoOn,
       held, remote
  <2> QED BY <1>1, <2>1, <2>2, <2>3, <2>4, <2>5
<1>2. CASE Breaks \/ GeneratePdf \/ SavePath \/ DownloadPdf \/ UploadPdf \/
          AwaitGrid
  BY <1>2 DEF OpenInv, FlowInv, Over, TypeOK, InTry, Form, Breaks, GeneratePdf,
     SavePath, DownloadPdf, UploadPdf, AwaitGrid, GoOn, Raise, Return, Blank, local,
     held, remote
<1>3. CASE CaptchaRace \/ AwaitToken \/ ClickEnviar \/ ReportSent \/ FindDatos \/ FindValidation
          \/ ClickContinuar \/ Deadline
  BY <1>3 DEF OpenInv, FlowInv, Over, TypeOK, InTry, Form, CaptchaRace, AwaitToken,
     ClickEnviar, ReportSent, FindDatos, FindValidation, ClickContinuar, Deadline, Solved, GoOn,
     Raise, local, held, remote
<1>4. CASE ClickNo \/ ReturnSimulated \/ ClickSi \/ NoSi \/ CheckSure
  BY <1>4 DEF OpenInv, FlowInv, Over, TypeOK, InTry, Form, ClickNo, ReturnSimulated,
     ClickSi, NoSi, CheckSure, GoOn, Raise, Return, local, held, remote
<1>5. CASE ClickSure \/ AwaitRadicado \/ ClickFinalizar
  BY <1>5 DEF OpenInv, FlowInv, Over, TypeOK, InTry, Form, ClickSure, AwaitRadicado,
     ClickFinalizar, SiNoOpen, GoOn, Raise, Return, local, held, remote
<1>6. CASE Catch \/ CleanUp \/ Close
  BY <1>6 DEF OpenInv, FlowInv, Over, TypeOK, InTry, Form, Catch, CleanUp, Close,
     Caught, GoOn, Return, Throw, Blank, local, held, remote
<1>7. CASE Portal
  BY <1>7 DEF OpenInv, FlowInv, Over, TypeOK, InTry, Form, PortalSolves,
     PortalAnswers, PortalCloses, PortalAsks, PortalFiles, Portal, local, held, remote
<1>8. CASE UNCHANGED vars
  BY <1>8 DEF OpenInv, FlowInv, Over, TypeOK, InTry, Form, vars, local, held, remote
<1> QED BY <1>1, <1>2, <1>3, <1>4, <1>5, <1>6, <1>7, <1>8 DEF Next, Bounded, Remote

\* The session comes to ENVIAR with a token only.
LEMMA TokenStep ==
    ASSUME TypeOK, TokenInv, SendsWithToken, [Next]_vars
    PROVE  TokenInv' /\ SendsWithToken'
<1>1. CASE Connect \/ NewPage \/ FormFails \/ AcceptTerms \/ FillPlace \/
          FillSpecialty \/ FillPlaintiff \/ FillDefendant \/ FillAttorney \/
          ChooseFileType
  BY <1>1 DEF TypeOK, Results, TokenInv, SendsWithToken, InTry, Form, Connect,
     NewPage, FormFails, AcceptTerms, FillPlace, FillSpecialty, FillPlaintiff,
     FillDefendant, FillAttorney, ChooseFileType, Section, GoOn, Return, Throw, Blank,
     local, held, remote
<1>2. CASE Breaks \/ GeneratePdf \/ SavePath \/ DownloadPdf \/ UploadPdf \/
          AwaitGrid
  BY <1>2 DEF TypeOK, Results, TokenInv, SendsWithToken, InTry, Form, Breaks,
     GeneratePdf, SavePath, DownloadPdf, UploadPdf, AwaitGrid, GoOn, Raise, Return,
     Blank, local, held, remote
<1>3. CASE CaptchaRace \/ AwaitToken \/ ClickEnviar \/ ReportSent \/ FindDatos \/ FindValidation
          \/ ClickContinuar \/ Deadline
  BY <1>3 DEF TypeOK, Results, TokenInv, SendsWithToken, InTry, Form, CaptchaRace,
     AwaitToken, ClickEnviar, ReportSent, FindDatos, FindValidation, ClickContinuar, Deadline,
     Solved, GoOn, Raise, local, held, remote
<1>4. CASE ClickNo \/ ReturnSimulated \/ ClickSi \/ NoSi \/ CheckSure
  BY <1>4 DEF TypeOK, Results, TokenInv, SendsWithToken, InTry, Form, ClickNo,
     ReturnSimulated, ClickSi, NoSi, CheckSure, GoOn, Raise, Return, local, held, remote
<1>5. CASE ClickSure \/ AwaitRadicado \/ ClickFinalizar
  BY <1>5 DEF TypeOK, Results, TokenInv, SendsWithToken, InTry, Form, ClickSure,
     AwaitRadicado, ClickFinalizar, SiNoOpen, GoOn, Raise, Return, local, held, remote
<1>6. CASE Catch \/ CleanUp \/ Close
  BY <1>6 DEF TypeOK, Results, TokenInv, SendsWithToken, InTry, Form, Catch, CleanUp,
     Close, Caught, GoOn, Return, Throw, Blank, local, held, remote
<1>7. CASE Portal
  BY <1>7 DEF TypeOK, Results, TokenInv, SendsWithToken, InTry, Form, PortalSolves,
     PortalAnswers, PortalCloses, PortalAsks, PortalFiles, Portal, local, held, remote
<1>8. CASE UNCHANGED vars
  BY <1>8 DEF TypeOK, Results, TokenInv, SendsWithToken, InTry, Form, vars, local,
     held, remote
<1> QED BY <1>1, <1>2, <1>3, <1>4, <1>5, <1>6, <1>7, <1>8 DEF Next, Bounded, Remote

\* What the catch block reports: never a registration, and after the second SI
\* one of the two stages that are not to be tried again.
LEMMA CaughtReports ==
    ASSUME TypeOK, ToldInv, pc = "catch"
    PROVE  /\ ~Caught(err).registered
           /\ portal.confirmed => Caught(err).stage \in {"finalizar", "unknown"}
<1>1. ~Caught(err).registered
  BY DEF Caught, Blank
<1>2. ASSUME portal.confirmed PROVE Caught(err).stage \in {"finalizar", "unknown"}
  <2>1. ~awaiting /\ flags.attached /\ err \in {"final", "other"}
    BY <1>2 DEF ToldInv
  <2>2. CASE err = "final"
    BY <2>1, <2>2 DEF Caught, Blank
  <2>3. CASE err = "other"
    BY <2>1, <2>3 DEF Caught, Blank
  <2> QED BY <2>1, <2>2, <2>3
<1> QED BY <1>1, <1>2

\* Whatever a step reports, a registration was filed and a retry was not confirmed.
LEMMA ReportStep ==
    ASSUME TypeOK, FlowInv, ToldInv, RegisteredIsFiled, RetryIsSafe, [Next]_vars
    PROVE  RegisteredIsFiled' /\ RetryIsSafe'
<1>1. CASE Connect \/ NewPage \/ FormFails \/ AcceptTerms \/ FillPlace \/
          FillSpecialty \/ FillPlaintiff \/ FillDefendant \/ FillAttorney \/
          ChooseFileType
  BY <1>1 DEF TypeOK, Results, FlowInv, Asking, Over, InTry, Form, Settings, ToldInv,
     RegisteredIsFiled, RetryIsSafe, IsSimulated, Errors, Connect, NewPage, FormFails,
     AcceptTerms, FillPlace, FillSpecialty, FillPlaintiff, FillDefendant, FillAttorney,
     ChooseFileType, Section, GoOn, Return, Throw, Blank, local, held, remote
<1>2. CASE Breaks \/ GeneratePdf \/ SavePath \/ DownloadPdf \/ UploadPdf \/
          AwaitGrid
  BY <1>2 DEF TypeOK, Results, FlowInv, Asking, Over, InTry, Form, Settings, ToldInv,
     RegisteredIsFiled, RetryIsSafe, IsSimulated, Errors, Breaks, GeneratePdf, SavePath,
     DownloadPdf, UploadPdf, AwaitGrid, GoOn, Raise, Return, Blank, local, held, remote
<1>3. CASE CaptchaRace \/ AwaitToken \/ ClickEnviar \/ ReportSent \/ FindDatos \/ FindValidation
          \/ ClickContinuar \/ Deadline
  BY <1>3 DEF TypeOK, Results, FlowInv, Asking, Over, InTry, Form, Settings, ToldInv,
     RegisteredIsFiled, RetryIsSafe, IsSimulated, Errors, CaptchaRace, AwaitToken,
     ClickEnviar, ReportSent, FindDatos, FindValidation, ClickContinuar, Deadline, Solved, GoOn,
     Raise, local, held, remote
<1>4. CASE ClickNo \/ ReturnSimulated \/ ClickSi \/ NoSi \/ CheckSure
  BY <1>4 DEF TypeOK, Results, FlowInv, Asking, Over, InTry, Form, Settings, ToldInv,
     RegisteredIsFiled, RetryIsSafe, IsSimulated, Errors, ClickNo, ReturnSimulated,
     ClickSi, NoSi, CheckSure, GoOn, Raise, Return, local, held, remote
<1>5. CASE ClickSure \/ AwaitRadicado \/ ClickFinalizar
  BY <1>5 DEF TypeOK, Results, FlowInv, Asking, Over, InTry, Form, Settings, ToldInv,
     RegisteredIsFiled, RetryIsSafe, IsSimulated, Errors, ClickSure, AwaitRadicado,
     ClickFinalizar, SiNoOpen, GoOn, Raise, Return, local, held, remote
<1>6. CASE Catch
  <2>1. pc = "catch" /\ portal' = portal /\ setting' = setting
    BY <1>6 DEF Catch, remote
  <2>2. CASE Return(Caught(err), "clean")
    <3>1. ended' = "returned" /\ flags' = Caught(err)
      BY <2>2 DEF Return
    <3> QED BY <2>1, <3>1, CaughtReports DEF RegisteredIsFiled, RetryIsSafe
  <2>3. CASE Throw("error", "clean") /\ (awaiting \/ err \notin {"si", "sure", "final"})
    <3>1. ended' = "error" /\ flags' = flags /\ err' = err
      BY <2>3 DEF Throw
    <3>2. portal.confirmed => flags.si /\ err = "other"
      BY <2>1, <2>3 DEF FlowInv, ToldInv, Over
    <3> QED BY <2>1, <3>1, <3>2 DEF RegisteredIsFiled, RetryIsSafe
  <2> QED BY <1>6, <2>2, <2>3 DEF Catch
<1>7. CASE CleanUp \/ Close
  BY <1>7 DEF RegisteredIsFiled, RetryIsSafe, CleanUp, Close, GoOn, remote
<1>8. CASE Portal
  BY <1>8 DEF TypeOK, Results, FlowInv, Asking, Over, InTry, Form, Settings, ToldInv,
     RegisteredIsFiled, RetryIsSafe, IsSimulated, Errors, PortalSolves, PortalAnswers,
     PortalCloses, PortalAsks, PortalFiles, Portal, local, held, remote
<1>9. CASE UNCHANGED vars
  BY <1>9 DEF TypeOK, Results, FlowInv, Asking, Over, InTry, Form, Settings, ToldInv,
     RegisteredIsFiled, RetryIsSafe, IsSimulated, Errors, vars, local, held, remote
<1> QED BY <1>1, <1>2, <1>3, <1>4, <1>5, <1>6, <1>7, <1>8, <1>9 DEF Next, Bounded, Remote

----------------------------------------------------------------------------
\* The inductive invariant holds of every session: what the portal was told, what
\* is open and what is reported follow from where the session is.
THEOREM SessionInductive == Spec => []IInv
<1>1. Init => IInv
  <2> SUFFICES ASSUME Init PROVE IInv
    OBVIOUS
  <2>1. FlowInv /\ ToldInv /\ TokenInv /\ OpenInv
    BY DEF Init, FlowInv, ToldInv, TokenInv, OpenInv, Asking, Over, InTry, Blank
  <2>2. RegisteredIsFiled /\ RetryIsSafe /\ SendsWithToken
    BY DEF Init, RegisteredIsFiled, RetryIsSafe, SendsWithToken, Blank
  <2> QED BY <2>1, <2>2, InitType DEF IInv
<1>2. IInv /\ [Next]_vars => IInv'
  BY TypeStep, FlowStep, ToldStep, TokenStep, OpenStep, ReportStep DEF IInv
<1> QED BY <1>1, <1>2, PTL DEF Spec

\* Types, and CONTINUAR is clicked at most MaxContinuar times.
THEOREM SessionTypeCorrect == Spec => []TypeOK
<1>1. IInv => TypeOK
  BY DEF IInv
<1> QED BY <1>1, SessionInductive, PTL

\* Nothing is filed unless the variable says "false": the portal files after
\* the second SI, which comes after the first, which is clicked only then.
THEOREM SimulationFilesNothing == Spec => []FilesOnlyWhenToldFalse
<1>1. IInv => FilesOnlyWhenToldFalse
  BY DEF IInv, ToldInv, FilesOnlyWhenToldFalse
<1> QED BY <1>1, SessionInductive, PTL

\* A registration that a production session reports is a lawsuit filed.
THEOREM ReportedIsFiled == Spec => []RegisteredIsFiled
<1>1. IInv => RegisteredIsFiled
  BY DEF IInv
<1> QED BY <1>1, SessionInductive, PTL

\* After a failure the portal may have been told to file in three cases only: two
\* stages of the result, and the error of a catch block that could not write.
THEOREM RetriesAreSafe == Spec => []RetryIsSafe
<1>1. IInv => RetryIsSafe
  BY DEF IInv
<1> QED BY <1>1, SessionInductive, PTL

\* ENVIAR is clicked with a token only.
THEOREM EnviarNeedsToken == Spec => []SendsWithToken
<1>1. IInv => SendsWithToken
  BY DEF IInv
<1> QED BY <1>1, SessionInductive, PTL

\* In the end only that is left of folder, page and browser whose removal failed,
\* and a browser without a page.
THEOREM NothingLeft == Spec => []LeavesNothingBehind
<1>1. IInv => LeavesNothingBehind
  BY DEF IInv, OpenInv, LeavesNothingBehind, InTry
<1> QED BY <1>1, SessionInductive, PTL

----------------------------------------------------------------------------
\* Until the session has its result, the temporary folder tells whether the path
\* of the PDF was saved.
SavedInv ==
    ended = "no" =>
       /\ pc \in {"connect", "newpage", "generate", "path"} \cup Form => ~tmp
       /\ pc \in InTry \ {"generate", "path"} => tmp
       /\ portal.confirmed => tmp

\* Every step keeps it so.
LEMMA SavedStep ==
    ASSUME IInv, SavedInv, [Next]_vars
    PROVE  SavedInv'
<1> USE DEF IInv, TypeOK, FlowInv, ToldInv, SavedInv, Over, InTry, Form, Asking
<1>1. CASE Connect \/ NewPage \/ FormFails \/ AcceptTerms \/ FillPlace \/
          FillSpecialty \/ FillPlaintiff \/ FillDefendant \/ FillAttorney \/
          ChooseFileType
  BY <1>1 DEF Connect, NewPage, FormFails, AcceptTerms, FillPlace, FillSpecialty,
     FillPlaintiff, FillDefendant, FillAttorney, ChooseFileType, Section, GoOn, Return,
     Throw, local, held, remote
<1>2. CASE Breaks \/ GeneratePdf \/ SavePath \/ DownloadPdf \/ UploadPdf \/ AwaitGrid
  BY <1>2 DEF Breaks, GeneratePdf, SavePath, DownloadPdf, UploadPdf, AwaitGrid, GoOn,
     Raise, Return, local, held, remote
<1>3. CASE CaptchaRace \/ AwaitToken \/ ClickEnviar \/ ReportSent \/ FindDatos \/ FindValidation
          \/ ClickContinuar \/ Deadline
  BY <1>3 DEF CaptchaRace, AwaitToken, ClickEnviar, ReportSent, FindDatos, FindValidation,
     ClickContinuar, Deadline, Solved, GoOn, Raise, local, held, remote
<1>4. CASE ClickNo \/ ReturnSimulated \/ ClickSi \/ NoSi \/ CheckSure
  BY <1>4 DEF ClickNo, ReturnSimulated, ClickSi, NoSi, CheckSure, GoOn, Raise, Return,
     local, held, remote
<1>5. CASE ClickSure \/ AwaitRadicado \/ ClickFinalizar
  BY <1>5 DEF ClickSure, AwaitRadicado, ClickFinalizar, GoOn, Raise, Return, local,
     held, remote
<1>6. CASE Catch \/ CleanUp \/ Close
  BY <1>6 DEF Catch, CleanUp, Close, GoOn, Return, Throw, local, held, remote
<1>7. CASE Portal \/ UNCHANGED vars
  BY <1>7 DEF PortalSolves, PortalAnswers, PortalCloses, PortalAsks, PortalFiles,
     Portal, local, held, remote, vars
<1> QED BY <1>1, <1>2, <1>3, <1>4, <1>5, <1>6, <1>7 DEF Next, Bounded, Remote

\* A step that leaves the folder, the confirmation and the end alone is none of
\* the contract's.
LEMMA NoContractStep ==
    ASSUME UNCHANGED <<setting, tmp, ended>>, portal.confirmed' = portal.confirmed,
           ended = "no" \/ UNCHANGED flags
    PROVE  UNCHANGED Contract!vars
  BY DEF Contract!vars, Stage, Result

\* After the end nothing of the contract changes any more.
LEMMA EndedStays ==
    ASSUME ended # "no", UNCHANGED <<setting, flags, ended>>
    PROVE  UNCHANGED Contract!vars
  BY DEF Contract!vars, Stage, Result

\* A result that fits the stage is one of the contract's.
LEMMA ContractEnds ==
    ASSUME ended = "no", ended' # "no", UNCHANGED setting,
           \/ Stage = "taken" /\ Result' \in {"parked", "novedad", "restriction", "error"}
           \/ Stage = "saved" /\ Result' \in {"novedad", "error"}
           \/ Stage = "saved" /\ Result' = "registered" /\ setting # "false"
           \/ Stage = "filed" /\ Result' \in {"novedad", "error", "registered"}
    PROVE  Contract!Next
<1>1. Stage' = "ended"
  BY DEF Stage
<1> QED BY <1>1 DEF Contract!Next, Contract!EarlyEnd, Contract!LateEnd,
                    Contract!AfterFiling, Contract!End

\* Whatever was caught, the session had reached the attachments and registered
\* nothing.
LEMMA CaughtReached ==
    ASSUME IInv
    PROVE  Caught(err).reached /\ ~Caught(err).registered
  BY DEF IInv, TypeOK, Results, Caught, Blank, Errors

\* Every step of the session is one of the contract's, or none.
LEMMA ContractStep ==
    ASSUME IInv, SavedInv, [Next]_vars
    PROVE  [Contract!Next]_(Contract!vars)
<1> DEFINE Keeps == UNCHANGED <<setting, tmp, ended>> /\ portal.confirmed' = portal.confirmed
<1> USE DEF IInv, TypeOK, FlowInv, ToldInv, SavedInv, Over, InTry, Form, Asking
<1>1. ASSUME Throw("error", "done") \/ Throw("error", "close") \/ Throw("restriction", "close"),
             ended = "no", ~tmp, ~portal.confirmed, UNCHANGED setting
      PROVE  Contract!Next
  BY <1>1, ContractEnds DEF Throw, Stage, Result
<1>2. CASE Connect \/ NewPage \/ FormFails \/ AcceptTerms \/ FillPlace \/
          FillSpecialty \/ FillDefendant \/ FillAttorney \/ ChooseFileType
  <2>1. ended = "no" /\ ~tmp /\ ~portal.confirmed
    BY <1>2 DEF Connect, NewPage, FormFails, AcceptTerms, FillPlace, FillSpecialty,
       FillDefendant, FillAttorney, ChooseFileType, Section
  <2>2. \/ Keeps
        \/ /\ Throw("error", "done") \/ Throw("error", "close") \/ Throw("restriction", "close")
           /\ UNCHANGED setting
    BY <1>2 DEF Connect, NewPage, FormFails, AcceptTerms, FillPlace, FillSpecialty,
       FillDefendant, FillAttorney, ChooseFileType, Section, GoOn, held, remote
  <2> QED BY <1>1, <2>1, <2>2, NoContractStep
<1>3. CASE FillPlaintiff
  <2>1. ended = "no" /\ ~tmp /\ ~portal.confirmed
    BY <1>3 DEF FillPlaintiff, Section
  <2>2. CASE Section("plaintiff", "defendant")
    BY <2>1, <2>2, NoContractStep DEF Section, GoOn, held, remote
  <2>3. CASE Return(Blank, "close") /\ UNCHANGED setting
    <3>1. Stage = "taken" /\ Result' = "parked"
      BY <2>1, <2>3 DEF Return, Stage, Result, Blank
    <3> QED BY <2>1, <2>3, <3>1, ContractEnds DEF Return
  <2> QED BY <1>3, <2>2, <2>3 DEF FillPlaintiff
<1>4. CASE GeneratePdf \/ DownloadPdf
  <2>1. /\ ended = "no" /\ ~portal.confirmed
        /\ Stage \in {"taken", "saved"} /\ UNCHANGED setting
    BY <1>4 DEF GeneratePdf, DownloadPdf, Stage
  <2>2. ended' = "no" => Keeps
    BY <1>4, <2>1 DEF GeneratePdf, DownloadPdf, GoOn, Return, held, remote
  <2>3. ended' # "no" => Result' = "novedad"
    BY <1>4, <2>1 DEF GeneratePdf, DownloadPdf, GoOn, Return, Result, Blank
  <2> QED BY <2>1, <2>2, <2>3, NoContractStep, ContractEnds
<1>5. CASE SavePath
  <2>1. Stage = "taken" /\ Stage' = "saved" /\ Result = "none" /\ Result' = "none"
    BY <1>5 DEF SavePath, GoOn, Stage, Result, remote
  <2> QED BY <1>5, <2>1 DEF SavePath, Contract!Next, Contract!SavePath, Contract!Reach
<1>6. CASE Breaks \/ UploadPdf \/ AwaitGrid \/ CaptchaRace \/ AwaitToken \/ ClickEnviar
          \/ ReportSent \/ FindDatos \/ FindValidation \/ ClickContinuar \/ Deadline
  <2>1. ended = "no" /\ Keeps
    BY <1>6 DEF Breaks, UploadPdf, AwaitGrid, CaptchaRace, AwaitToken, ClickEnviar, ReportSent,
       FindDatos, FindValidation, ClickContinuar, Deadline, Solved, GoOn, Raise, held, remote
  <2> QED BY <2>1, NoContractStep
<1>7. CASE ClickNo \/ ClickSi \/ NoSi \/ CheckSure \/ AwaitRadicado
  <2>1. ended = "no" /\ Keeps
    BY <1>7 DEF ClickNo, ClickSi, NoSi, CheckSure, AwaitRadicado, GoOn, Raise, held, remote
  <2> QED BY <2>1, NoContractStep
<1>8. CASE ReturnSimulated
  <2>1. Stage = "saved" /\ setting # "false" /\ ended = "no"
    BY <1>8 DEF ReturnSimulated, Stage, IsSimulated
  <2>2. ended' # "no" /\ UNCHANGED setting /\ flags'.registered
    BY <1>8 DEF ReturnSimulated, Return, Results
  <2>3. Result' = "registered"
    BY <1>8, <2>2 DEF ReturnSimulated, Return, Result
  <2> QED BY <2>1, <2>2, <2>3, ContractEnds
<1>9. CASE ClickSure
  <2>1. /\ ended = "no" /\ tmp /\ ~portal.confirmed /\ setting = "false"
        /\ UNCHANGED <<setting, tmp, ended, flags>>
    BY <1>9 DEF ClickSure, GoOn, Raise, held
  <2>2. CASE portal' = [portal EXCEPT !.confirmed = TRUE]
    <3>1. Stage = "saved" /\ Stage' = "filed" /\ Result' = Result
      BY <2>1, <2>2 DEF Stage, Result
    <3> QED BY <2>1, <3>1 DEF Contract!Next, Contract!File, Contract!Reach
  <2>3. CASE UNCHANGED portal
    BY <2>1, <2>3, NoContractStep
  <2> QED BY <1>9, <2>2, <2>3 DEF ClickSure
<1>10. CASE ClickFinalizar
  <2>1. /\ ended = "no" /\ Stage = "filed" /\ UNCHANGED <<setting, tmp, portal>>
    BY <1>10 DEF ClickFinalizar, Stage, held, remote
  <2>2. CASE Raise("final")
    BY <2>1, <2>2, NoContractStep DEF Raise
  <2>3. CASE Return([flags EXCEPT !.reached = TRUE, !.registered = TRUE], "clean")
    <3>1. ended' = "returned" /\ flags'.registered
      BY <2>3 DEF Return, Results
    <3>2. Result' = "registered"
      BY <3>1 DEF Result
    <3> QED BY <2>1, <3>1, <3>2, ContractEnds
  <2> QED BY <1>10, <2>2, <2>3 DEF ClickFinalizar
<1>11. CASE Catch
  <2>1. ended = "no" /\ Stage \in {"taken", "saved", "filed"} /\ UNCHANGED setting
    BY <1>11 DEF Catch, Stage
  <2>2. CASE Return(Caught(err), "clean")
    <3>1. Caught(err).reached /\ ~Caught(err).registered
      BY CaughtReached
    <3>2. ended' # "no" /\ Result' = "novedad"
      BY <2>2, <3>1 DEF Return, Result
    <3> QED BY <2>1, <3>2, ContractEnds
  <2>3. CASE Throw("error", "clean")
    <3>1. ended' # "no" /\ Result' = "error"
      BY <2>3 DEF Throw, Result
    <3> QED BY <2>1, <3>1, ContractEnds
  <2> QED BY <1>11, <2>2, <2>3 DEF Catch
<1>12. CASE CleanUp \/ Close
  BY <1>12, EndedStays DEF CleanUp, Close, GoOn, remote
<1>13. CASE Portal \/ UNCHANGED vars
  <2>1. /\ UNCHANGED <<setting, tmp, ended, flags>>
        /\ portal.confirmed' = portal.confirmed
    BY <1>13 DEF Portal, PortalSolves, PortalAnswers, PortalCloses, PortalAsks,
       PortalFiles, local, held, remote, vars
  <2> QED BY <2>1, NoContractStep
<1> QED BY <1>2, <1>3, <1>4, <1>5, <1>6, <1>7, <1>8, <1>9, <1>10, <1>11, <1>12, <1>13
        DEF Next, Bounded, Remote

\* Every session keeps the contract the queue relies on.
THEOREM SessionMeetsContract == Spec => MeetsContract
<1>1. Init => Contract!Init
  BY DEF Init, Contract!Init, Stage, Result
<1>2. Init => SavedInv
  BY DEF Init, SavedInv, InTry, Form
<1>3. IInv /\ SavedInv /\ [Next]_vars => SavedInv'
  BY SavedStep
<1>4. IInv /\ SavedInv /\ [Next]_vars => [Contract!Next]_(Contract!vars)
  BY ContractStep
<1> QED BY <1>1, <1>2, <1>3, <1>4, SessionInductive, PTL
        DEF Spec, MeetsContract, Contract!Spec

----------------------------------------------------------------------------
\* Where the rank of a session lies.
LEMMA RankBound == ASSUME TypeOK PROVE SessionRank \in 0..(MaxContinuar + 30)
<1>1. MaxContinuar \in Nat /\ clicks \in 0..MaxContinuar
  BY ContinuarAssumption DEF TypeOK
<1>2. CASE pc \in Form \cup {"connect", "newpage", "generate", "path", "download", "upload", "grid",
                             "captcha", "token", "send", "sent"}
  <2>1. \E k \in 13..30 : SessionRank = MaxContinuar + k
    BY <1>2 DEF SessionRank, Form
  <2> QED BY <1>1, <2>1
<1>3. CASE pc = "confirm"
  <2>1. SessionRank = MaxContinuar - clicks + 12
    BY <1>3 DEF SessionRank
  <2> QED BY <1>1, <2>1
<1>4. CASE pc \in {"answer", "answered", "double", "again", "final", "finish", "catch", "clean",
                   "close", "done"}
  <2>1. SessionRank \in 0..11
    BY <1>4 DEF SessionRank
  <2> QED BY <1>1, <2>1
<1> QED BY <1>2, <1>3, <1>4 DEF TypeOK, At, Form, InTry

\* Each step of the adapter brings the session nearer its end.
LEMMA RankFalls ==
    ASSUME TypeOK, Bounded \/ Remote \/ FormFails \/ Breaks
    PROVE  SessionRank' < SessionRank
<1> USE ContinuarAssumption DEF TypeOK, GoOn, Raise, Return, Throw, Section
<1>1. CASE Connect \/ NewPage \/ AcceptTerms \/ FillPlace \/ FillSpecialty
  BY <1>1 DEF Connect, NewPage, AcceptTerms, FillPlace, FillSpecialty, SessionRank
<1>2. CASE FillPlaintiff \/ FillDefendant \/ FillAttorney \/ ChooseFileType
  BY <1>2 DEF FillPlaintiff, FillDefendant, FillAttorney, ChooseFileType, SessionRank
<1>3. CASE FormFails
  BY <1>3 DEF FormFails, Form, SessionRank
<1>4. CASE Breaks
  BY <1>4 DEF Breaks, InTry, SessionRank
<1>5. CASE GeneratePdf \/ SavePath \/ DownloadPdf \/ UploadPdf
  BY <1>5 DEF GeneratePdf, SavePath, DownloadPdf, UploadPdf, SessionRank
<1>6. CASE AwaitGrid \/ CaptchaRace \/ AwaitToken \/ ClickEnviar \/ ReportSent
  BY <1>6 DEF AwaitGrid, CaptchaRace, AwaitToken, Solved, ClickEnviar, ReportSent, SessionRank
<1>7. CASE FindDatos \/ FindValidation \/ ClickContinuar \/ Deadline
  BY <1>7 DEF FindDatos, FindValidation, ClickContinuar, Deadline, SessionRank
<1>8. CASE ClickNo \/ ReturnSimulated \/ ClickSi \/ NoSi \/ CheckSure
  BY <1>8 DEF ClickNo, ReturnSimulated, ClickSi, NoSi, CheckSure, SessionRank
<1>9. CASE ClickSure \/ AwaitRadicado \/ ClickFinalizar
  BY <1>9 DEF ClickSure, AwaitRadicado, ClickFinalizar, SessionRank
<1>10. CASE Catch \/ CleanUp \/ Close
  BY <1>10 DEF Catch, CleanUp, Close, SessionRank
<1> QED BY <1>1, <1>2, <1>3, <1>4, <1>5, <1>6, <1>7, <1>8, <1>9, <1>10 DEF Bounded, Remote

\* A session makes at most MaxContinuar + 30 steps of its own, whatever the portal
\* does between them: no error path and no dialog leads back.
THEOREM EverySessionEnds == Spec => SessionEnds
<1> DEFINE Within == SessionRank \in 0..(MaxContinuar + 30)
           Nearer == IF Portal THEN SessionRank' = SessionRank ELSE SessionRank' < SessionRank
<1>1. TypeOK => Within
  BY RankBound
<1>2. TypeOK /\ [Next]_vars => [Nearer]_vars
  <2>1. ASSUME Portal PROVE SessionRank' = SessionRank
    <3>1. UNCHANGED <<pc, clicks>>
      BY <2>1 DEF Portal, PortalSolves, PortalAnswers, PortalCloses, PortalAsks, PortalFiles, local
    <3> QED BY <3>1 DEF SessionRank
  <2> QED BY <2>1, RankFalls DEF Next
<1>3. []Within /\ [][Nearer]_vars => SessionEnds
  BY DEF SessionEnds
<1> HIDE DEF Within, Nearer
<1> QED BY <1>1, <1>2, <1>3, SessionTypeCorrect, PTL DEF Spec
=============================================================================
