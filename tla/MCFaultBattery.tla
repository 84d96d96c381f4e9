--------------------------- MODULE MCFaultBattery ---------------------------
(* Two battery processes one after the other on a Store and two PD pods.   *)
EXTENDS FaultBattery

\* The battery is over after the last run.
Ended == pc = "idle" /\ (runs = MaxRuns \/ torn) /\ UNCHANGED vars

MCSpec == Init /\ [][Next \/ Ended]_vars
MCFairSpec == MCSpec /\ WF_vars(ScenarioStep) /\ WF_vars(LoadStep)
=============================================================================
