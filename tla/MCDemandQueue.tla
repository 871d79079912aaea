--------------------------- MODULE MCDemandQueue ---------------------------
(* Instances of DemandQueue for TLC: the worker loops are interchangeable.  *)
EXTENDS DemandQueueLease, TLC

WorkerSymmetry == Permutations(Workers)

\* What follows an override is promised nothing, and is not explored.
NotOverridden == overridden = {}
============================================================================
