----------------------------- MODULE RemoteCalls -----------------------------
(***************************************************************************)
(* The calls a session makes to other services: the health check of        *)
(* Browserless (browserlessHealth.service.ts), the connection to it        *)
(* (createBrowser), and the PDF services (demandPdfHttp.adapter.ts). A     *)
(* service may answer anything, refuse, keep silent, or break off in the   *)
(* middle of an answer.                                                    *)
(*                                                                         *)
(* An answer is its status and what the adapters look at in it; methods,   *)
(* headers and the text of errors are left out. What the session does      *)
(* between the connection and the PDF is PortalSession.                    *)
(***************************************************************************)
EXTENDS Integers

CONSTANTS
    Statuses,      \* HTTP statuses a service may answer
    MaxRedirects   \* redirects requestBufferInsecureTls follows

ASSUME RemoteAssumption ==
    /\ Statuses \subseteq 100..599
    /\ MaxRedirects \in Nat

Health == {"config", "usage"}        \* GETs to Browserless, 8 seconds each
Pdf    == {"generate", "download"}   \* requestBufferInsecureTls, without a timeout
Calls  == Health \cup {"connect"} \cup Pdf
At     == Calls \cup {"write", "check", "done"}

Wires     == {"idle", "asking", "answering", "cut"}
Locations == {"none", "valid", "invalid"}
Bodies    == {"path", "short", "long"}   \* "path": JSON that names a PDF; the others do not
Types     == {"pdf", "other", "none"}    \* content-type
Answers   == [status : Statuses, location : Locations, body : Bodies, type : Types]
Reasons   == {"AUTH_ERROR", "QUOTA_EXCEEDED", "SERVICE_DOWN", "UNKNOWN"}
Outcomes  == {"none", "attached", "unconfigured", "pdf_generate", "pdf_download"} \cup Reasons

VARIABLES
    pc,       \* the call the session is making
    wire,     \* how far its exchange is
    hops,     \* redirectCount
    outcome,  \* how the calls ended
    file,     \* what pdfPath holds
    source    \* History: the answer the download ended with

vars == <<pc, wire, hops, outcome, file, source>>

Init ==
    /\ pc = "config"
    /\ wire = "idle"
    /\ hops = 0
    /\ outcome = "none"
    /\ file = "none"
    /\ source = {}

----------------------------------------------------------------------------
\* The call succeeds and the session goes on with the next.
GoOn(p) ==
    /\ pc' = p
    /\ wire' = "idle"
    /\ hops' = 0
    /\ UNCHANGED outcome

\* The session ends there, for that reason.
End(o) ==
    /\ pc' = "done"
    /\ wire' = "idle"
    /\ hops' = 0
    /\ outcome' = o

\* What an error of the call in progress comes to: /usage is not critical.
Fails ==
    CASE pc = "config"   -> End("SERVICE_DOWN")
      [] pc = "usage"    -> GoOn("connect")
      [] pc = "connect"  -> \E r \in {"SERVICE_DOWN", "UNKNOWN"} : End(r)
      [] pc = "generate" -> End("pdf_generate")
      [] pc \in {"download", "write", "check"} -> End("pdf_download")

\* An endpoint, a token or a URL is not configured, or malformed.
Unconfigured ==
    /\ wire = "idle"
    /\ pc \in {"config"} \cup Pdf
    /\ IF pc = "config" THEN End("unconfigured") ELSE Fails
    /\ UNCHANGED <<file, source>>

\* The request is sent.
Ask ==
    /\ pc \in Calls
    /\ wire = "idle"
    /\ wire' = "asking"
    /\ UNCHANGED <<pc, hops, outcome, file, source>>

\* A health check whose socket is silent for 8 seconds, before or during the
\* answer, fails.
Timeout ==
    /\ pc \in Health
    /\ wire \in {"asking", "answering"}
    /\ Fails
    /\ UNCHANGED <<file, source>>

----------------------------------------------------------------------------
(* The services (external), and the handlers of what they do. *)

\* The connection is refused, or lost before the answer begins.
Refuse ==
    /\ wire = "asking"
    /\ Fails
    /\ UNCHANGED <<file, source>>

BeginAnswer ==
    /\ pc # "connect"
    /\ wire = "asking"
    /\ wire' = "answering"
    /\ UNCHANGED <<pc, hops, outcome, file, source>>

\* The connection is lost within an answer. Nobody listens to the errors of a
\* response, and the timeout of its socket is gone with it.
BreakOff ==
    /\ wire = "answering"
    /\ wire' = "cut"
    /\ UNCHANGED <<pc, hops, outcome, file, source>>

\* checkAvailability.
Config(a) ==
    /\ pc = "config"
    /\ CASE a.status \in {401, 403} -> End("AUTH_ERROR")
         [] a.status \in {402, 429} -> End("QUOTA_EXCEEDED")
         [] a.status >= 500         -> End("SERVICE_DOWN")
         [] OTHER                   -> GoOn("usage")
    /\ UNCHANGED <<file, source>>

\* fetchUsage only logs what it learns.
Usage(a) ==
    /\ pc = "usage"
    /\ GoOn("connect")
    /\ UNCHANGED <<file, source>>

\* puppeteer.connect: the WebSocket opens...
Connected ==
    /\ pc = "connect"
    /\ wire = "asking"
    /\ GoOn("generate")
    /\ UNCHANGED <<file, source>>

\* ... or the handshake is answered with a status, which classifyConnectionError
\* looks for in the text of the error.
Rejected(s) ==
    /\ pc = "connect"
    /\ wire = "asking"
    /\ CASE s = 402            -> End("QUOTA_EXCEEDED")
         [] s \in {401, 403}   -> End("AUTH_ERROR")
         [] s \in {502, 503}   -> End("SERVICE_DOWN")
         [] OTHER              -> End("UNKNOWN")
    /\ UNCHANGED <<file, source>>

Redirects(a) == a.status \in {301, 302, 303, 307, 308} /\ a.location # "none"

\* Mutant: one redirect too many.
FollowOneMore(a) ==
    /\ pc \in Pdf
    /\ Redirects(a) /\ hops <= MaxRedirects
    /\ IF a.location = "invalid"
         THEN Fails
         ELSE wire' = "asking" /\ hops' = hops + 1 /\ UNCHANGED <<pc, outcome>>
    /\ UNCHANGED <<file, source>>

\* Mutant: redirectCount is not handed on.
FollowForgets(a) ==
    /\ pc \in Pdf
    /\ Redirects(a) /\ hops < MaxRedirects
    /\ IF a.location = "invalid"
         THEN Fails
         ELSE wire' = "asking" /\ UNCHANGED <<pc, hops, outcome>>
    /\ UNCHANGED <<file, source>>

\* A redirect is followed, if its location is a URL.
Follow(a) ==
    /\ pc \in Pdf
    /\ Redirects(a) /\ hops < MaxRedirects
    /\ IF a.location = "invalid"
         THEN Fails
         ELSE wire' = "asking" /\ hops' = hops + 1 /\ UNCHANGED <<pc, outcome>>
    /\ UNCHANGED <<file, source>>

Final(a)   == ~(Redirects(a) /\ hops < MaxRedirects)
Success(a) == a.status \in 200..299

\* generateDemandOnlinePdf: JSON with path_demanda_pdf.
Generate(a) ==
    /\ pc = "generate"
    /\ Final(a)
    /\ IF Success(a) /\ a.body = "path" THEN GoOn("download") ELSE Fails
    /\ UNCHANGED <<file, source>>

\* Mutant: any answer that is not an error is the file.
DownloadAny(a) ==
    /\ pc = "download"
    /\ Final(a)
    /\ IF a.status < 400 /\ a.body # "short" THEN GoOn("write") ELSE Fails
    /\ source' = {a}
    /\ UNCHANGED file

\* downloadDemandPdfToFile: at least 64 bytes.
Download(a) ==
    /\ pc = "download"
    /\ Final(a)
    /\ IF Success(a) /\ a.body # "short" THEN GoOn("write") ELSE Fails
    /\ source' = {a}
    /\ UNCHANGED file

\* The answer has ended.
EndAnswer ==
    /\ wire = "answering"
    /\ \E a \in Answers : Config(a) \/ Usage(a) \/ Follow(a) \/ Generate(a) \/ Download(a)

----------------------------------------------------------------------------
\* The file is written before its type is looked at; writing may fail half-way.
Write ==
    /\ pc = "write"
    /\ \/ GoOn("check") /\ file' = "whole"
       \/ Fails /\ file' \in {"none", "part"}
    /\ UNCHANGED source

\* A content-type that is not PDF's is an error, an absent one is not.
Check ==
    /\ pc = "check"
    /\ IF \E a \in source : a.type = "other" THEN Fails ELSE End("attached")
    /\ UNCHANGED <<file, source>>

Local    == Unconfigured \/ Ask \/ Timeout \/ Write \/ Check
Services == Refuse \/ BeginAnswer \/ BreakOff \/ EndAnswer \/ Connected
               \/ \E s \in Statuses : Rejected(s)

Next == Local \/ Services

Spec == Init /\ [][Next]_vars

\* The steps of the adapters and their timers; the services promise nothing.
FairSpec == Spec /\ WF_vars(Local)

----------------------------------------------------------------------------
\* Types; no more redirects are followed than MaxRedirects, and none by the
\* health check.
TypeOK ==
    /\ pc \in At
    /\ wire \in Wires
    /\ hops \in 0..MaxRedirects
    /\ outcome \in Outcomes
    /\ file \in {"none", "part", "whole"}
    /\ source \subseteq Answers
    /\ hops > 0 => pc \in Pdf
    /\ wire # "idle" => pc \in Calls

\* What the session attaches to a lawsuit is the whole body of a 2xx answer that
\* does not say it is something else than a PDF, however many redirects led to
\* it: never the page of a redirect left unfollowed, nor half a file.
AttachesOnlyPdf ==
    outcome = "attached" =>
       /\ file = "whole"
       /\ \E a \in source : a.status \in 200..299 /\ a.body # "short" /\ a.type # "other"

\* The most steps the calls and the services may still make: those of the calls
\* after this one, and of this one for each redirect it may still follow.
PerCall == 3 * MaxRedirects + 4

CallsLeft ==
    CASE pc = "config"   -> 7
      [] pc = "usage"    -> 6
      [] pc = "connect"  -> 5
      [] pc = "generate" -> 4
      [] pc = "download" -> 3
      [] pc = "write"    -> 2
      [] pc = "check"    -> 1
      [] pc = "done"     -> 0

InCall ==
    CASE pc = "done"        -> 0
      [] pc # "done" /\ wire = "idle"      -> 3 * (MaxRedirects - hops) + 3
      [] pc # "done" /\ wire = "asking"    -> 3 * (MaxRedirects - hops) + 2
      [] pc # "done" /\ wire = "answering" -> 3 * (MaxRedirects - hops) + 1
      [] pc # "done" /\ wire = "cut"       -> 0

CallsRank == CallsLeft * PerCall + InCall

\* The calls never go round in a circle, whatever the services answer: no call
\* and no chain of redirects takes more than PerCall steps, and every step of the
\* calls or of a service brings them nearer the end.
CallsEnd ==
    /\ [](InCall \in 0..(PerCall - 1))
    /\ [][CallsRank' < CallsRank]_vars

\* The calls end, whatever redirects and errors they meet, unless a service that
\* has no timeout falls silent for ever, or any of them, even the health check,
\* breaks off within an answer.
EndsOrIsLeft ==
    \/ <>(pc = "done")
    \/ <>[](wire = "cut")
    \/ \E s \in {"asking", "answering"} : <>[](pc \notin Health /\ wire = s)
=============================================================================
