-------------------------- MODULE DemandQueueLease --------------------------
(***************************************************************************)
(* DemandQueue implements DemandLease: the status of a row is the stage of *)
(* its demand, the lease belongs to the worker whose runOnce has it, and a *)
(* demand that an operator overrode is withdrawn.                          *)
(***************************************************************************)
EXTENDS DemandQueue

CONSTANT NoWorker

ASSUME NoWorkerAssumption == NoWorker \notin Workers

StageOf(status) ==
    CASE status = "none"       -> "absent"
      [] status = "deleted"    -> "deleted"
      [] status \in Pending    -> "pending"
      [] status = "En proceso" -> "taken"
      [] OTHER                 -> "done"

Leased(d) == d \notin overridden /\ Held(d)

LeaseStage == [d \in Demands |->
                 IF d \in overridden THEN "withdrawn" ELSE StageOf(row[d].status)]
LeaseOwner == [d \in Demands |->
                 IF Leased(d) THEN CHOOSE w \in Workers : Holds(w, d) ELSE NoWorker]
LeaseFiled == [d \in Demands |-> d \notin overridden /\ filings[d] >= 1]

Lease == INSTANCE DemandLease
            WITH stage <- LeaseStage, owner <- LeaseOwner, filed <- LeaseFiled

\* Every behaviour of the queue is one of the lease, whatever operators do: a
\* demand has one holder, is filed only by it and at most once an opening, and
\* closed only when filed, until an operator overrides its row.
ImplementsLease == Lease!Spec
============================================================================
