-------------------------- MODULE MCUpdatePipeline --------------------------
(* Instances of UpdatePipeline for TLC: the sets the configurations use.   *)
EXTENDS UpdatePipeline, TLC

CONSTANTS h1, h2, d1, d2

OneHost == {h1}
TwoHosts == {h1, h2}
OneDir == {d1}
TwoDirs == {d1, d2}

\* Replicas and directories are interchangeable (safety runs only).
HostSymmetry == Permutations(TwoHosts)
Symmetry == Permutations(TwoHosts) \cup Permutations(TwoDirs)

\* Fault sets, one for each question asked of the pipeline.
StopOnly == {"stop"}
RefusedOnly == {"refused"}
LockFaults == {"refused", "lost", "crash", "newdir", "evicted"}
KeptFaults == {"crash", "podfail", "overrun", "stale"}
RunFaults == {"late", "stop", "podfail", "unbound", "evicted"}
=============================================================================
