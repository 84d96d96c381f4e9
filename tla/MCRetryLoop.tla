---------------------------- MODULE MCRetryLoop ----------------------------
(* Model-checking instance of RetryLoop with the constant of the source. *)
EXTENDS RetryLoop

\* A call that has ended stays ended.
Ended == pc = "done" /\ UNCHANGED loopVars
MCNext == LoopNext \/ Ended
MCSpec == LoopInit /\ [][MCNext]_loopVars /\ LoopFairness
============================================================================
