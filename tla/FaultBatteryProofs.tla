------------------------- MODULE FaultBatteryProofs -------------------------
(***************************************************************************)
(* Proofs about FaultBattery for any pods, runs and batches.  BatteryInv   *)
(* is inductive: with each stage of a run it says what the run knows of    *)
(* its fault (FaultStage) and where the acknowledged batches are           *)
(* (LedgerStage); that a PASS is earned follows at the judgement.  The last *)
(* part maps every step to a step of AckLedger.                            *)
(***************************************************************************)
EXTENDS FaultBattery, TLAPS

\* After setup nothing has happened yet.
LEMMA BatteryInit == Init => BatteryInv
<1> SUFFICES ASSUME Init PROVE BatteryInv
  OBVIOUS
<1>1. TypeOK
  <2>1. /\ torn \in BOOLEAN /\ newLeader \in BOOLEAN /\ back \in BOOLEAN /\ landed \in BOOLEAN
        /\ schemaSeen \in BOOLEAN /\ bad \in BOOLEAN /\ stop \in BOOLEAN
    BY Zenon DEF Init
  <2> QED BY <2>1, BoundsAssumption DEF Init, TypeOK, Scenarios, Pods
<1>2. FaultStage /\ LedgerStage /\ PassIsEarned
  BY DEF Init, FaultStage, LedgerStage, PassIsEarned, Joined
<1> QED BY <1>1, <1>2 DEF BatteryInv

\* Every step keeps the types.
LEMMA TypeStep == TypeOK /\ [Next]_vars => TypeOK'
<1> SUFFICES ASSUME TypeOK, [Next]_vars PROVE TypeOK'
  OBVIOUS
<1> USE DEF TypeOK, Role, Pods, Batches, Scenarios, Crash, Freeze, OnPD
<1>1. ASSUME NEW s \in Scenarios, Start(s) PROVE TypeOK'
  <2>1. UNCHANGED <<cluster, file, promised>> /\ runs < MaxRuns
        /\ pc' = "choose" /\ runs' = runs + 1 /\ scenario' = s /\ victim' = NoPod
        /\ memory' = disk /\ before' = 0 /\ state' = "?"
        /\ found' = {} /\ verdict' = "none"
        /\ lpc' = "none" /\ n' = 0 /\ acked' = {} /\ hit' = "nothing"
    BY <1>1 DEF Start
  <2>2. /\ newLeader' \in BOOLEAN /\ back' \in BOOLEAN /\ landed' \in BOOLEAN
        /\ schemaSeen' \in BOOLEAN /\ bad' \in BOOLEAN /\ stop' \in BOOLEAN
    BY <1>1, Zenon DEF Start
  <2> QED BY <2>1, <2>2, BoundsAssumption DEF cluster, file
<1>2. ASSUME NoLeader PROVE TypeOK'
  BY <1>2, PodsAssumption, BoundsAssumption
     DEF NoLeader, vars, cluster, file, evidence, judged, load, history, run
<1>3. ASSUME NEW p \in Pods, ChooseVictim(p) PROVE TypeOK'
  BY <1>3, PodsAssumption, BoundsAssumption
     DEF ChooseVictim, vars, cluster, file, evidence, judged, load, history, run
<1>4. ASSUME DeletePod PROVE TypeOK'
  BY <1>4, PodsAssumption, BoundsAssumption
     DEF DeletePod, Met, vars, cluster, file, evidence, judged, load, history, run
<1>5. ASSUME StopJvm PROVE TypeOK'
  BY <1>5, PodsAssumption, BoundsAssumption
     DEF StopJvm, Met, vars, cluster, file, evidence, judged, load, history, run
<1>6. ASSUME SeeNewLeader PROVE TypeOK'
  BY <1>6, PodsAssumption, BoundsAssumption
     DEF SeeNewLeader, vars, cluster, file, evidence, judged, load, history, run
<1>7. ASSUME GiveUpLeader PROVE TypeOK'
  BY <1>7, PodsAssumption, BoundsAssumption
     DEF GiveUpLeader, vars, cluster, file, evidence, judged, load, history, run
<1>8. ASSUME ResumeJvm PROVE TypeOK'
  BY <1>8, PodsAssumption, BoundsAssumption
     DEF ResumeJvm, vars, cluster, file, evidence, judged, load, history, run
<1>9. ASSUME StopLoad PROVE TypeOK'
  <2>1. back' \in BOOLEAN /\ stop' \in BOOLEAN
    BY <1>9, Zenon DEF StopLoad
  <2>2. pc = "recover" /\ pc' = "join"
        /\ UNCHANGED <<cluster, file, run, before, state, newLeader, landed, schemaSeen,
                       memory, judged, lpc, n, acked, history>>
    BY <1>9 DEF StopLoad
  <2> QED BY <2>1, <2>2 DEF cluster, file, run, judged, history
<1>10. ASSUME Join PROVE TypeOK'
  BY <1>10, PodsAssumption, BoundsAssumption
     DEF Join, vars, cluster, file, evidence, judged, load, history, run
<1>11. ASSUME ReadAfter PROVE TypeOK'
  <2>1. landed' \in BOOLEAN
    BY <1>11, Zenon DEF ReadAfter, Landed
  <2>2. schemaSeen' \in BOOLEAN
    BY <1>11, Zenon DEF ReadAfter
  <2>3. pc = "after" /\ pc' = "save"
        /\ UNCHANGED <<cluster, file, run, before, state, newLeader, back, memory,
                       judged, load, history>>
    BY <1>11 DEF ReadAfter
  <2> QED BY <2>1, <2>2, <2>3 DEF cluster, file, run, judged, load, history
<1>12. ASSUME Truncate PROVE TypeOK'
  BY <1>12, PodsAssumption, BoundsAssumption
     DEF Truncate, vars, cluster, file, evidence, judged, load, history, run
<1>13. ASSUME Dump PROVE TypeOK'
  <2>1. torn' \in BOOLEAN
    BY <1>13, Zenon DEF Dump
  <2>2. pc = "dump" /\ pc' = "verify" /\ disk' = memory
        /\ UNCHANGED <<cluster, run, evidence, memory, judged, load, history>>
    BY <1>13 DEF Dump
  <2> QED BY <2>1, <2>2 DEF cluster, run, evidence, judged, load, history
<1>14. ASSUME Verify PROVE TypeOK'
  BY <1>14, PodsAssumption, BoundsAssumption
     DEF Verify, vars, cluster, file, evidence, judged, load, history, run
<1>15. ASSUME Judge PROVE TypeOK'
  BY <1>15, PodsAssumption, BoundsAssumption
     DEF Judge, Healthy, vars, cluster, file, evidence, judged, load, history, run
<1>16. ASSUME VictimGone \/ Abort PROVE TypeOK'
  BY <1>16, PodsAssumption, BoundsAssumption
     DEF VictimGone, Abort, EndProcess, vars, cluster, file, evidence, judged, load, history, run
<1>17. ASSUME Iterate PROVE TypeOK'
  BY <1>17, PodsAssumption, BoundsAssumption
     DEF Iterate, vars, cluster, file, evidence, judged, load, history, run
<1>18. ASSUME WriteAcknowledged PROVE TypeOK'
  BY <1>18, PodsAssumption, BoundsAssumption
     DEF WriteAcknowledged, Batch, vars, cluster, file, evidence, judged, load, history, run
<1>19. ASSUME WriteFailed PROVE TypeOK'
  BY <1>19, PodsAssumption, BoundsAssumption
     DEF WriteFailed, Batch, vars, cluster, file, evidence, judged, load, history, run
<1>20. ASSUME ReadVertex PROVE TypeOK'
  BY <1>20, PodsAssumption, BoundsAssumption
     DEF ReadVertex, vars, cluster, file, evidence, judged, load, history, run
<1>21. ASSUME ClusterMove PROVE TypeOK'
  BY <1>21, PodsAssumption, BoundsAssumption
     DEF ClusterMove, ClusterStep, CreatePod, PodReady, LivenessKill, Elect, LoseBatch, vars, cluster, file, evidence, judged, load, history, run
<1>22. ASSUME UNCHANGED vars PROVE TypeOK'
  BY <1>22, PodsAssumption, BoundsAssumption
     DEF vars, cluster, file, evidence, judged, load, history, run
<1> QED
  BY <1>1, <1>2, <1>3, <1>4, <1>5, <1>6, <1>7, <1>8, <1>9, <1>10, <1>11, <1>12, <1>13, <1>14, <1>15, <1>16, <1>17, <1>18, <1>19, <1>20, <1>21, <1>22
     DEF Next, ScenarioStep, LoadStep

\* Every step keeps what the stages of a run know.
LEMMA StageStep == (TypeOK /\ FaultStage /\ LedgerStage /\ PassIsEarned) /\ [Next]_vars => (FaultStage /\ LedgerStage /\ PassIsEarned)'
<1> SUFFICES ASSUME (TypeOK /\ FaultStage /\ LedgerStage /\ PassIsEarned), [Next]_vars PROVE (FaultStage /\ LedgerStage /\ PassIsEarned)'
  OBVIOUS
<1> USE DEF FaultStage, LedgerStage, PassIsEarned, Joined, Scenarios, Crash, Freeze, OnPD
<1>1. ASSUME NEW s \in Scenarios, Start(s) PROVE (FaultStage /\ LedgerStage /\ PassIsEarned)'
  BY <1>1
     DEF Start, vars, cluster, file, evidence, judged, load, history, run
<1>2. ASSUME NoLeader PROVE (FaultStage /\ LedgerStage /\ PassIsEarned)'
  BY <1>2
     DEF NoLeader, vars, cluster, file, evidence, judged, load, history, run
<1>3. ASSUME NEW p \in Pods, ChooseVictim(p) PROVE (FaultStage /\ LedgerStage /\ PassIsEarned)'
  BY <1>3
     DEF ChooseVictim, vars, cluster, file, evidence, judged, load, history, run
<1>4. ASSUME DeletePod PROVE (FaultStage /\ LedgerStage /\ PassIsEarned)'
  BY <1>4
     DEF DeletePod, Met, vars, cluster, file, evidence, judged, load, history, run
<1>5. ASSUME StopJvm PROVE (FaultStage /\ LedgerStage /\ PassIsEarned)'
  BY <1>5
     DEF StopJvm, Met, vars, cluster, file, evidence, judged, load, history, run
<1>6. ASSUME SeeNewLeader PROVE (FaultStage /\ LedgerStage /\ PassIsEarned)'
  BY <1>6
     DEF SeeNewLeader, vars, cluster, file, evidence, judged, load, history, run
<1>7. ASSUME GiveUpLeader PROVE (FaultStage /\ LedgerStage /\ PassIsEarned)'
  BY <1>7
     DEF GiveUpLeader, vars, cluster, file, evidence, judged, load, history, run
<1>8. ASSUME ResumeJvm PROVE (FaultStage /\ LedgerStage /\ PassIsEarned)'
  BY <1>8
     DEF ResumeJvm, vars, cluster, file, evidence, judged, load, history, run
<1>9. ASSUME StopLoad PROVE (FaultStage /\ LedgerStage /\ PassIsEarned)'
  BY <1>9
     DEF StopLoad, vars, cluster, file, evidence, judged, load, history, run
<1>10. ASSUME Join PROVE (FaultStage /\ LedgerStage /\ PassIsEarned)'
  BY <1>10
     DEF Join, vars, cluster, file, evidence, judged, load, history, run
<1>11. ASSUME ReadAfter PROVE (FaultStage /\ LedgerStage /\ PassIsEarned)'
  <2>1. landed' => scenario \in Crash \/ state = "T"
    <3>1. landed' = Landed
      BY <1>11 DEF ReadAfter
    <3>2. scenario \in Crash \/ scenario \in Freeze
      BY DEF TypeOK
    <3>3. Landed => scenario \in Crash \/ state = "T"
      BY <3>2 DEF Landed
    <3> QED BY <3>1, <3>3
  <2>2. pc = "after" /\ pc' = "save"
        /\ UNCHANGED <<cluster, file, run, before, state, newLeader, back, memory,
                       judged, load, history>>
    BY <1>11 DEF ReadAfter
  <2> QED BY <2>1, <2>2 DEF file, run, judged, load, history
<1>12. ASSUME Truncate PROVE (FaultStage /\ LedgerStage /\ PassIsEarned)'
  BY <1>12
     DEF Truncate, vars, cluster, file, evidence, judged, load, history, run
<1>13. ASSUME Dump PROVE (FaultStage /\ LedgerStage /\ PassIsEarned)'
  BY <1>13
     DEF Dump, vars, cluster, file, evidence, judged, load, history, run
<1>14. ASSUME Verify PROVE (FaultStage /\ LedgerStage /\ PassIsEarned)'
  BY <1>14
     DEF Verify, vars, cluster, file, evidence, judged, load, history, run
<1>15. ASSUME Judge PROVE (FaultStage /\ LedgerStage /\ PassIsEarned)'
  BY <1>15
     DEF Judge, Healthy, vars, cluster, file, evidence, judged, load, history, run
<1>16. ASSUME VictimGone \/ Abort PROVE (FaultStage /\ LedgerStage /\ PassIsEarned)'
  BY <1>16
     DEF VictimGone, Abort, EndProcess, vars, cluster, file, evidence, judged, load, history, run
<1>17. ASSUME Iterate PROVE (FaultStage /\ LedgerStage /\ PassIsEarned)'
  BY <1>17
     DEF Iterate, vars, cluster, file, evidence, judged, load, history, run
<1>18. ASSUME WriteAcknowledged PROVE (FaultStage /\ LedgerStage /\ PassIsEarned)'
  BY <1>18
     DEF WriteAcknowledged, Batch, vars, cluster, file, evidence, judged, load, history, run
<1>19. ASSUME WriteFailed PROVE (FaultStage /\ LedgerStage /\ PassIsEarned)'
  BY <1>19
     DEF WriteFailed, Batch, vars, cluster, file, evidence, judged, load, history, run
<1>20. ASSUME ReadVertex PROVE (FaultStage /\ LedgerStage /\ PassIsEarned)'
  BY <1>20
     DEF ReadVertex, vars, cluster, file, evidence, judged, load, history, run
<1>21. ASSUME ClusterMove PROVE (FaultStage /\ LedgerStage /\ PassIsEarned)'
  BY <1>21
     DEF ClusterMove, ClusterStep, CreatePod, PodReady, LivenessKill, Elect, LoseBatch, vars, cluster, file, evidence, judged, load, history, run
<1>22. ASSUME UNCHANGED vars PROVE (FaultStage /\ LedgerStage /\ PassIsEarned)'
  BY <1>22
     DEF vars, cluster, file, evidence, judged, load, history, run
<1> QED
  BY <1>1, <1>2, <1>3, <1>4, <1>5, <1>6, <1>7, <1>8, <1>9, <1>10, <1>11, <1>12, <1>13, <1>14, <1>15, <1>16, <1>17, <1>18, <1>19, <1>20, <1>21, <1>22
     DEF Next, ScenarioStep, LoadStep


\* BatteryInv is an invariant of the battery.
THEOREM BatteryInvariant == Spec => []BatteryInv
<1>1. BatteryInv /\ [Next]_vars => BatteryInv'
  BY TypeStep, StageStep DEF BatteryInv
<1> QED BY BatteryInit, <1>1, PTL DEF Spec

\* The state has its types, and past the choice there is a victim of the role
\* the scenario is about.
THEOREM BatteryTypeCorrect == Spec => []TypeOK
<1>1. BatteryInv => TypeOK
  BY DEF BatteryInv
<1> QED BY BatteryInvariant, <1>1, PTL

\* A PASS means that the fault met its victim and that every batch owed to
\* the oracle was read back.
THEOREM EveryPassIsEarned == Spec => []PassIsEarned
<1>1. BatteryInv => PassIsEarned
  BY DEF BatteryInv
<1> QED BY BatteryInvariant, <1>1, PTL

\* Between runs a file that is not torn holds what completed runs acknowledged.
THEOREM OracleKeepsPromises == Spec => []OracleComplete
<1>1. BatteryInv => OracleComplete
  BY DEF BatteryInv, LedgerStage, OracleComplete
<1> QED BY BatteryInvariant, <1>1, PTL

\* After setup the books are empty, and nothing is owed.
LEMMA LedgerInit == Init => Ledger!Init
BY DEF Init, Ledger!Init

\* Every step of the battery is a step of the ledger, or leaves the books alone.
LEMMA LedgerStep == BatteryInv /\ BatteryInv' /\ [Next]_vars => [Ledger!Next]_(Ledger!vars)
<1> SUFFICES ASSUME BatteryInv, BatteryInv', [Next]_vars PROVE [Ledger!Next]_(Ledger!vars)
  OBVIOUS
<1> USE DEF Ledger!vars, Joined
<1>1. ASSUME NEW s \in Scenarios, Start(s) PROVE Ledger!Begin
  BY <1>1 DEF Start, Ledger!Begin, cluster
<1>2. ASSUME pc # "idle", pc' = "idle", UNCHANGED <<promised, stored, found>>,
             verdict' \in {verdict, "INCONCLUSIVE"}
      PROVE  Ledger!Break
  <2>1. verdict = "none"
    BY <1>2 DEF BatteryInv, LedgerStage
  <2> QED BY <1>2, <2>1 DEF Ledger!Break
<1>3. ASSUME NoLeader PROVE Ledger!Break
  BY <1>2, <1>3 DEF NoLeader, history, cluster
<1>4. ASSUME VictimGone \/ Abort PROVE Ledger!Break
  BY <1>2, <1>4 DEF VictimGone, Abort, EndProcess, history, cluster, judged
<1>5. ASSUME Join PROVE Ledger!Close
  BY <1>5 DEF Join, Ledger!Close, cluster, judged, load, history
<1>6. ASSUME Verify PROVE Ledger!ReadBack
  <2>1. pc = "verify" /\ pc' = "judge" /\ found' \subseteq stored
        /\ UNCHANGED <<acked, promised, stored, verdict>>
    BY <1>6 DEF Verify, cluster, load, history
  <2> QED BY <2>1 DEF Ledger!ReadBack
<1>7. ASSUME Judge PROVE Ledger!Report
  <2>1. pc = "judge" /\ pc' = "idle" /\ promised' = promised \cup acked
        /\ UNCHANGED <<acked, stored, found>>
    BY <1>7 DEF Judge, cluster, load
  <2>2. verdict' = "PASS" => promised' \subseteq found
    BY <2>1 DEF BatteryInv, PassIsEarned
  <2> QED BY <2>1, <2>2, Zenon DEF Ledger!Report
<1>8. ASSUME WriteAcknowledged PROVE \E b \in Batches : Ledger!Acknowledge(b)
  <2>1. Batch \in Batches
    BY <1>8 DEF WriteAcknowledged, Batch, Batches, BatteryInv, TypeOK
  <2>2. pc \notin {"idle", "after", "save", "dump", "verify", "judge"}
    BY <1>8 DEF WriteAcknowledged, BatteryInv, FaultStage
  <2>3. Ledger!Acknowledge(Batch)
    BY <1>8, <2>2 DEF WriteAcknowledged, Ledger!Acknowledge, judged
  <2> QED BY <2>1, <2>3
<1>9. ASSUME WriteFailed \/ ClusterMove PROVE Ledger!Drift
  <2>1. stored' \subseteq Batches
    BY DEF BatteryInv, TypeOK
  <2>2. UNCHANGED <<pc, acked, promised, found, verdict>>
    BY <1>9 DEF WriteFailed, ClusterMove, ClusterStep, CreatePod, PodReady, LivenessKill,
          Elect, LoseBatch, judged, load, history
  <2> QED BY <2>1, <2>2 DEF Ledger!Drift
<1>10. ASSUME /\ UNCHANGED <<acked, promised, stored, found, verdict>>
              /\ \/ pc' = pc
                 \/ {pc, pc'} \subseteq {"choose", "load", "observe", "recover", "join"}
                 \/ {pc, pc'} \subseteq {"after", "save", "dump", "verify", "judge"}
       PROVE  UNCHANGED Ledger!vars
  BY <1>10
<1>11. ASSUME \/ \E p \in Pods : ChooseVictim(p)
              \/ DeletePod \/ StopJvm \/ SeeNewLeader \/ GiveUpLeader \/ ResumeJvm
              \/ StopLoad
       PROVE  UNCHANGED Ledger!vars
  BY <1>10, <1>11 DEF ChooseVictim, DeletePod, StopJvm, SeeNewLeader, GiveUpLeader, ResumeJvm,
        StopLoad, cluster, judged, load, history
<1>12. ASSUME ReadAfter \/ Truncate \/ Dump PROVE UNCHANGED Ledger!vars
  BY <1>10, <1>12 DEF ReadAfter, Truncate, Dump, cluster, judged, load, history
<1>13. ASSUME Iterate \/ ReadVertex \/ UNCHANGED vars PROVE UNCHANGED Ledger!vars
  BY <1>10, <1>13 DEF Iterate, ReadVertex, vars, cluster, judged, load, history
<1> QED
  BY <1>1, <1>3, <1>4, <1>5, <1>6, <1>7, <1>8, <1>9, <1>11, <1>12, <1>13
     DEF Next, ScenarioStep, LoadStep, Ledger!Next

\* The battery keeps the books of AckLedger, without any slack: after the join
\* nothing is acknowledged any more, and a PASS is about all of the books.
THEOREM BatteryKeepsLedger == Spec => LedgerSpec
BY LedgerInit, LedgerStep, BatteryInvariant, PTL DEF Spec, LedgerSpec, Ledger!Spec
=============================================================================
