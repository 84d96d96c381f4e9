------------------------ MODULE MCClusterOperations ------------------------
(* Two replicas of every workload, two batches of the load.                *)
EXTENDS ClusterOperations

\* The program has come to its end or raised.
Ended == pc \in {"done", "aborted"} /\ UNCHANGED vars

MCSpec == Init /\ [][Next \/ Ended]_vars
=============================================================================
