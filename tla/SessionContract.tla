--------------------------- MODULE SessionContract ---------------------------
(***************************************************************************)
(* What the queue may expect of a session (DemandQueue!InPortal): it takes *)
(* the demand, may save the path of its PDF, may tell the portal to file,  *)
(* and ends once, with a result that fits how far it came.                 *)
(***************************************************************************)
VARIABLES
    simulated,  \* the session is a rehearsal
    stage,      \* how far it came
    result      \* how it ended

vars == <<simulated, stage, result>>

Init ==
    /\ simulated \in BOOLEAN
    /\ stage = "taken"
    /\ result = "none"

End(r) == stage' = "ended" /\ result' = r /\ UNCHANGED simulated

Reach(s) == stage' = s /\ UNCHANGED <<simulated, result>>

\* Only before the attachments can it park the demand or meet closed hours.
EarlyEnd ==
    /\ stage = "taken"
    /\ \E r \in {"parked", "novedad", "restriction", "error"} : End(r)

SavePath == stage = "taken" /\ Reach("saved")

\* Only a rehearsal registers without the portal being told.
LateEnd ==
    /\ stage = "saved"
    /\ \E r \in {"novedad", "error", "registered"} : End(r) /\ (r = "registered" => simulated)

File == stage = "saved" /\ ~simulated /\ Reach("filed")

AfterFiling ==
    /\ stage = "filed"
    /\ \E r \in {"novedad", "error", "registered"} : End(r)

Next == EarlyEnd \/ SavePath \/ LateEnd \/ File \/ AfterFiling

Spec == Init /\ [][Next]_vars
=============================================================================
