------------------------ MODULE PortalSessionContract ------------------------
(***************************************************************************)
(* PortalSession implements SessionContract, which is what DemandQueue     *)
(* makes of it.                                                            *)
(***************************************************************************)
EXTENDS PortalSession

\* The path is saved when the temporary folder is made, and the folder stays as
\* long as the session has not ended.
Stage ==
    IF ended # "no" THEN "ended"
    ELSE IF portal.confirmed THEN "filed"
    ELSE IF tmp THEN "saved" ELSE "taken"

\* How runOnce reads what the session returned or threw.
Result ==
    CASE ended = "no" -> "none"
      [] ended = "returned" /\ flags.registered -> "registered"
      [] ended = "returned" /\ ~flags.registered /\ ~flags.reached -> "parked"
      [] ended = "returned" /\ ~flags.registered /\ flags.reached -> "novedad"
      [] ended \in {"restriction", "error"} -> ended

Contract == INSTANCE SessionContract
    WITH simulated <- setting # "false", stage <- Stage, result <- Result

\* However the portal, the services and the waits behave, the session ends once
\* and with a result the queue knows what to do with: it never parks a demand, or
\* blames the hours, after the attachments, and outside a rehearsal it never
\* reports a registration before the portal was told to file.
MeetsContract == Contract!Spec
=============================================================================
