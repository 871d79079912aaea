---------------------------- MODULE DemandLease ----------------------------
(***************************************************************************)
(* What the queue promises its users, with no table, candidates, sessions  *)
(* or counters: a pending demand is leased to one worker, only its holder  *)
(* files it, closes it or opens it again, and it is filed at most once     *)
(* between two openings. A lease ends with the work or with the process.   *)
(* Operators may open a demand nobody has, delete any and withdraw any;    *)
(* the holder of a deleted one works on, and the queue promises nothing    *)
(* about a withdrawn one any more.                                         *)
(***************************************************************************)
CONSTANTS Demands, Workers, NoWorker, Simulated, Operator

VARIABLES
    stage,  \* "absent", "pending", "taken", "done", "deleted" or "withdrawn"
    owner,  \* the worker that has the demand, or NoWorker
    filed   \* the portal filed the demand since it was opened

leaseVars == <<stage, owner, filed>>

Present == {"pending", "taken", "done"}

Init ==
    /\ stage \in [Demands -> {"absent", "pending"}]
    /\ owner = [d \in Demands |-> NoWorker]
    /\ filed = [d \in Demands |-> FALSE]

Open(d) ==
    /\ stage[d] = "absent"
    /\ stage' = [stage EXCEPT ![d] = "pending"]
    /\ UNCHANGED <<owner, filed>>

Take(w, d) ==
    /\ stage[d] = "pending"
    /\ stage' = [stage EXCEPT ![d] = "taken"]
    /\ owner' = [owner EXCEPT ![d] = w]
    /\ UNCHANGED filed

\* The worker it was given to never learns of it.
Lose(d) ==
    /\ stage[d] = "pending"
    /\ stage' = [stage EXCEPT ![d] = "taken"]
    /\ UNCHANGED <<owner, filed>>

\* A holder that saves what it read brings a deleted demand back.
Restore(w, d) ==
    /\ owner[d] = w /\ stage[d] = "deleted"
    /\ stage' = [stage EXCEPT ![d] = "taken"]
    /\ UNCHANGED <<owner, filed>>

File(w, d) ==
    /\ owner[d] = w /\ stage[d] \in {"taken", "deleted"} /\ ~filed[d]
    /\ filed' = [filed EXCEPT ![d] = TRUE]
    /\ UNCHANGED <<stage, owner>>

Complete(w, d) ==
    /\ owner[d] = w /\ stage[d] \in {"taken", "deleted"} /\ (filed[d] \/ Simulated)
    /\ stage' = [stage EXCEPT ![d] = "done"]
    /\ UNCHANGED <<owner, filed>>

\* The work failed, before or after the demand was closed.
Reopen(w, d) ==
    /\ owner[d] = w
    /\ stage' = [stage EXCEPT ![d] = "pending"]
    /\ owner' = [owner EXCEPT ![d] = NoWorker]
    /\ filed' = [filed EXCEPT ![d] = FALSE]

\* The holder leaves the demand as it is, or left behind in process.
Release(w, d) ==
    /\ owner[d] = w
    /\ owner' = [owner EXCEPT ![d] = NoWorker]
    /\ \/ UNCHANGED stage
       \/ stage[d] = "deleted" /\ stage' = [stage EXCEPT ![d] = "taken"]
    /\ UNCHANGED filed

Die ==
    /\ owner' = [d \in Demands |-> NoWorker]
    /\ UNCHANGED <<stage, filed>>

\* An operator opens a demand nobody has, or brings one back that was deleted since
\* it was looked up: what was filed counts no more.
Reissue(d) ==
    /\ "put" \in Operator
    /\ owner[d] = NoWorker /\ stage[d] \in Present \cup {"deleted"}
    /\ stage' = [stage EXCEPT ![d] = "pending"]
    /\ filed' = [filed EXCEPT ![d] = FALSE]
    /\ UNCHANGED owner

Delete(d) ==
    /\ "delete" \in Operator
    /\ stage[d] \in Present
    /\ stage' = [stage EXCEPT ![d] = "deleted"]
    /\ UNCHANGED <<owner, filed>>

\* An operator writes over a demand that a worker has, or gives one a stage
\* that is the workers' to give.
Withdraw(d) ==
    /\ \/ "put" \in Operator /\ stage[d] \in Present \cup {"deleted"}
       \/ "post" \in Operator /\ stage[d] = "absent"
    /\ stage' = [stage EXCEPT ![d] = "withdrawn"]
    /\ owner' = [owner EXCEPT ![d] = NoWorker]
    /\ filed' = [filed EXCEPT ![d] = FALSE]

Next ==
    \/ \E d \in Demands : Open(d) \/ Lose(d) \/ Reissue(d) \/ Delete(d) \/ Withdraw(d)
    \/ \E w \in Workers, d \in Demands :
          \/ Take(w, d) \/ Restore(w, d) \/ File(w, d) \/ Complete(w, d)
          \/ Reopen(w, d) \/ Release(w, d)
    \/ Die

Spec == Init /\ [][Next]_leaseVars
============================================================================
