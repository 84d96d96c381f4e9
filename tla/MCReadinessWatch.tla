-------------------------- MODULE MCReadinessWatch --------------------------
EXTENDS ReadinessWatch

\* The command line has been worked through, or the process was aborted.
Ended == /\ pc = "aborted" \/ (pc = "next" /\ i = MaxScenarios)
         /\ UNCHANGED vars

MCSpec == Init /\ [][Next \/ Ended]_vars
MCFairSpec == MCSpec /\ WF_vars(MainStep)

AllKinds == {"baseline", "steady", "stores-zero", "pd-zero", "tolerant"}

\* Only what the kind is about changes, in pd-zero what the body says of PD.
OwnSignal == [k \in AllKinds \cup {"none"} |-> IF k = "pd-zero" THEN {"pd"} ELSE {"ok"}]

\* The load matters to the oracle, not to the rows: its rounds are left to the
\* kinds with the fewest rows to tell apart.
Rounds == [k \in AllKinds \cup {"none"} |->
             CASE k = "steady" -> 2 [] k = "tolerant" -> 1 [] OTHER -> 0]
=============================================================================
