----------------------- MODULE ReadinessWatchProofs -----------------------
(***************************************************************************)
(* Proofs about ReadinessWatch, for any number of scenarios, samples and   *)
(* batches, whatever the joins do and whichever kubectl call fails.        *)
(***************************************************************************)
EXTENDS ReadinessWatch, TLAPS

\* A signal of the Server that changes leaves a state of the Server.
LEMMA ChangeSignal ==
    ASSUME NEW r \in [ok : Signal, cond : Signal, pd : Signal], NEW v \in Signal
    PROVE  /\ [r EXCEPT !.ok = v] \in [ok : Signal, cond : Signal, pd : Signal]
           /\ [r EXCEPT !.cond = v] \in [ok : Signal, cond : Signal, pd : Signal]
           /\ [r EXCEPT !.pd = v] \in [ok : Signal, cond : Signal, pd : Signal]
           /\ r.ok \in Signal /\ r.pd \in Signal
OBVIOUS

\* A batch added to the acknowledgements of a load leaves sets of batches.
LEMMA AddBatch ==
    ASSUME NEW B, NEW f \in [Scenario -> SUBSET B], NEW s \in Scenario, NEW b \in B
    PROVE  [f EXCEPT ![s] = @ \cup {b}] \in [Scenario -> SUBSET B]
OBVIOUS

\* A row appended to rows leaves rows.
LEMMA AddRow ==
    ASSUME NEW R, NEW q \in Seq(R), NEW r \in R
    PROVE  Append(q, r) \in Seq(R)
OBVIOUS

\* Every step keeps the types.
LEMMA WatchTypes == TypeOK /\ [Next]_vars => TypeOK'
<1> SUFFICES ASSUME TypeOK, [Next]_vars PROVE TypeOK'
  OBVIOUS
<1> USE DEF TypeOK, Scenario, Batches, Signal, Value, Phase
<1>1. ASSUME NEW k \in Kinds, StartScenario(k) PROVE TypeOK'
  <2>1. sstop' \in BOOLEAN /\ wentDown' \in BOOLEAN /\ cameBack' \in BOOLEAN
        /\ head' \in [t : Phase, cond : Signal]
    BY <1>1, Zenon DEF StartScenario, NoHead
  <2>2. pc = "next" /\ i < MaxScenarios /\ pc' = "sample" /\ i' = i + 1 /\ kind' = k
        /\ phase' = "before" /\ verdict' = "none" /\ spc' = "check" /\ rows' = <<>>
        /\ UNCHANGED <<srv, oracle, load, saved>>
    BY <1>1 DEF StartScenario
  <2>3. rows' \in Seq([t : Phase, cond : Signal, ok : Value, pd : Value])
    BY <2>2
  <2> QED BY <2>1, <2>2, <2>3, WatchAssumption DEF load
<1>2. ASSUME WatchOnly PROVE TypeOK'
  BY <1>2, KindsAssumption, WatchAssumption DEF WatchOnly, vars, main, sampler, load, truth
<1>3. ASSUME StartLoad PROVE TypeOK'
  BY <1>3, KindsAssumption, WatchAssumption DEF StartLoad, vars, main, sampler, load, truth
<1>4. ASSUME StampFault PROVE TypeOK'
  <2>1. wentDown' \in BOOLEAN /\ cameBack' \in BOOLEAN
    BY <1>4, Zenon DEF StampFault, Note
  <2> QED BY <1>4, <2>1 DEF StampFault, vars, main, sampler, load, truth
<1>5. ASSUME InjectFault PROVE TypeOK'
  BY <1>5, KindsAssumption, WatchAssumption DEF InjectFault, vars, main, sampler, load, truth
<1>6. ASSUME Settle PROVE TypeOK'
  <2>1. wentDown' \in BOOLEAN /\ cameBack' \in BOOLEAN
    BY <1>6, Zenon DEF Settle, Note
  <2> QED BY <1>6, <2>1 DEF Settle, vars, main, sampler, load, truth
<1>7. ASSUME StampBack PROVE TypeOK'
  <2>1. wentDown' \in BOOLEAN /\ cameBack' \in BOOLEAN
    BY <1>7, Zenon DEF StampBack, Note
  <2> QED BY <1>7, <2>1 DEF StampBack, vars, main, sampler, load, truth
<1>8. ASSUME Restore PROVE TypeOK'
  BY <1>8, KindsAssumption, WatchAssumption DEF Restore, vars, main, sampler, load, truth
<1>9. ASSUME Abort PROVE TypeOK'
  BY <1>9, KindsAssumption, WatchAssumption DEF Abort, vars, main, sampler, load, truth
<1>10. ASSUME StopLoad PROVE TypeOK'
  BY <1>10, KindsAssumption, WatchAssumption DEF StopLoad, vars, main, sampler, load, truth
<1>11. ASSUME JoinLoad PROVE TypeOK'
  BY <1>11, KindsAssumption, WatchAssumption DEF JoinLoad, vars, main, sampler, load, truth
<1>12. ASSUME SaveOracle PROVE TypeOK'
  BY <1>12, KindsAssumption, WatchAssumption DEF SaveOracle, vars, main, sampler, load, truth
<1>13. ASSUME FinishSampler PROVE TypeOK'
  BY <1>13, KindsAssumption, WatchAssumption DEF FinishSampler, vars, main, sampler, load, truth
<1>14. ASSUME Judge PROVE TypeOK'
  <2>1. verdict' \in {"none", "PASS", "FAIL"} /\ pc' \in {"next", "aborted"}
    BY <1>14, Zenon DEF Judge
  <2> QED BY <1>14, <2>1 DEF Judge, main, sampler, load, truth
<1>15. ASSUME SampleHead PROVE TypeOK'
  <2>1. UNCHANGED <<srv, main, oracle, sstop, load, saved, truth>>
    BY <1>15 DEF SampleHead
  <2>2. head' \in [t : Phase, cond : Signal]
    BY <1>15 DEF SampleHead
  <2>3. spc' \in {"none", "check", "probe", "ended", "died"}
    BY <1>15 DEF SampleHead
  <2>4. rows' \in Seq([t : Phase, cond : Signal, ok : Value, pd : Value])
    <3>1. rows' = rows \/ rows' = Append(rows, [t |-> phase, cond |-> srv.cond,
                                               ok |-> "none", pd |-> "none"])
      BY <1>15 DEF SampleHead
    <3>2. [t |-> phase, cond |-> srv.cond, ok |-> "none", pd |-> "none"]
             \in [t : Phase, cond : Signal, ok : Value, pd : Value]
      OBVIOUS
    <3>3. rows \in Seq([t : Phase, cond : Signal, ok : Value, pd : Value])
      OBVIOUS
    <3> HIDE DEF TypeOK, Phase, Signal, Value
    <3> QED BY <3>1, <3>2, <3>3, AddRow
  <2> QED BY <2>1, <2>2, <2>3, <2>4 DEF main, load, truth
<1>16. ASSUME Probe PROVE TypeOK'
  <2>1. PICK answer \in {[ok |-> srv.ok, pd |-> srv.pd], [ok |-> "other", pd |-> "other"]} :
           rows' = Append(rows, [t |-> head.t, cond |-> head.cond, ok |-> answer.ok,
                                 pd |-> answer.pd])
    BY <1>16 DEF Probe
  <2>2. answer.ok \in Value /\ answer.pd \in Value
    BY <2>1
  <2>3. rows' \in Seq([t : Phase, cond : Signal, ok : Value, pd : Value])
    BY <2>1, <2>2
  <2>4. spc' = "check" /\ UNCHANGED <<srv, main, oracle, sstop, head, load, saved, truth>>
    BY <1>16 DEF Probe
  <2> QED BY <2>3, <2>4 DEF main, load, truth
<1>17. ASSUME NEW s \in Scenario, Iterate(s) PROVE TypeOK'
  <2>1. UNCHANGED <<srv, main, oracle, sampler, lstop, acked, saved, truth>>
    BY <1>17 DEF Iterate
  <2>2. \E v \in {"ended", "write"} : lpc' = [lpc EXCEPT ![s] = v]
    BY <1>17 DEF Iterate
  <2>3. n' = n \/ n' = [n EXCEPT ![s] = @ + 1]
    BY <1>17 DEF Iterate
  <2>4. n' \in [Scenario -> Nat]
    BY <2>3
  <2>5. lpc' \in [Scenario -> {"none", "check", "write", "ended", "died"}]
    BY <2>2
  <2> QED BY <2>1, <2>4, <2>5 DEF main, sampler, truth
<1>18. ASSUME NEW s \in Scenario, Write(s) PROVE TypeOK'
  <2>1. UNCHANGED <<srv, main, oracle, sampler, lstop, n, saved, truth>>
    BY <1>18 DEF Write
  <2>2. <<s, n[s]>> \in Batches
    OBVIOUS
  <2>3. acked' \in [Scenario -> SUBSET Batches]
    <3>1. acked' = [acked EXCEPT ![s] = @ \cup {<<s, n[s]>>}] \/ acked' = acked
      BY <1>18 DEF Write
    <3>2. acked \in [Scenario -> SUBSET Batches]
      OBVIOUS
    <3> HIDE DEF Batches, Scenario, TypeOK
    <3>3. [acked EXCEPT ![s] = @ \cup {<<s, n[s]>>}] \in [Scenario -> SUBSET Batches]
      BY <2>2, <3>2, AddBatch
    <3> QED BY <3>1, <3>2, <3>3
  <2>4. \E v \in {"check", "died"} : lpc' = [lpc EXCEPT ![s] = v]
    BY <1>18 DEF Write
  <2>5. lpc' \in [Scenario -> {"none", "check", "write", "ended", "died"}]
    BY <2>4
  <2> QED BY <2>1, <2>3, <2>5 DEF main, sampler, truth
<1>19. ASSUME ServerChanges PROVE TypeOK'
  <2>1. srv' \in [ok : Signal, cond : Signal, pd : Signal]
    <3>1. (\E g \in Signals[kind], v \in Signal : srv' = [srv EXCEPT ![g] = v])
          \/ srv' = [srv EXCEPT !.cond = srv.ok]
      BY <1>19 DEF ServerChanges
    <3>2. Signals[kind] \subseteq {"ok", "pd"}
      BY WatchAssumption
    <3>3. srv \in [ok : Signal, cond : Signal, pd : Signal]
      OBVIOUS
    <3>4. \E v \in Signal : \/ srv' = [srv EXCEPT !.ok = v] \/ srv' = [srv EXCEPT !.pd = v]
                            \/ srv' = [srv EXCEPT !.cond = v]
      <4> HIDE DEF Signal, TypeOK
      <4> QED BY <3>1, <3>2, <3>3, ChangeSignal
    <3> HIDE DEF TypeOK, Signal
    <3> QED BY <3>3, <3>4, ChangeSignal, Zenon
  <2>2. wentDown' \in BOOLEAN /\ cameBack' \in BOOLEAN
    BY <1>19, Zenon DEF ServerChanges, Note
  <2>3. UNCHANGED <<main, oracle, sampler, load, saved>>
    BY <1>19 DEF ServerChanges
  <2> QED BY <2>1, <2>2, <2>3 DEF main, sampler, load
<1>20. ASSUME UNCHANGED vars PROVE TypeOK'
  BY <1>20 DEF vars, main, sampler, load, truth
<1> QED
  BY <1>1, <1>2, <1>3, <1>4, <1>5, <1>6, <1>7, <1>8, <1>9, <1>10,
     <1>11, <1>12, <1>13, <1>14, <1>15, <1>16, <1>17, <1>18, <1>19, <1>20
     DEF Next, MainStep

\* Every step keeps the rows true to the Server.
LEMMA RowsStep == (TypeOK /\ RowsAreReal) /\ [Next]_vars => RowsAreReal'
<1> SUFFICES ASSUME (TypeOK /\ RowsAreReal), [Next]_vars PROVE RowsAreReal'
  OBVIOUS
<1> USE DEF TypeOK, RowsAreReal, Watched, Row, Value, Phase, Signal
<1>1. ASSUME NEW k \in Kinds, StartScenario(k) PROVE RowsAreReal'
  BY <1>1 DEF StartScenario, NoHead, vars, main, sampler, load, truth
<1>2. ASSUME WatchOnly PROVE RowsAreReal'
  BY <1>2 DEF WatchOnly, vars, main, sampler, load, truth
<1>3. ASSUME StartLoad PROVE RowsAreReal'
  BY <1>3 DEF StartLoad, vars, main, sampler, load, truth
<1>4. ASSUME StampFault PROVE RowsAreReal'
  BY <1>4 DEF StampFault, Note, vars, main, sampler, load, truth
<1>5. ASSUME InjectFault PROVE RowsAreReal'
  BY <1>5 DEF InjectFault, vars, main, sampler, load, truth
<1>6. ASSUME Settle PROVE RowsAreReal'
  BY <1>6 DEF Settle, Note, vars, main, sampler, load, truth
<1>7. ASSUME StampBack PROVE RowsAreReal'
  BY <1>7 DEF StampBack, Note, vars, main, sampler, load, truth
<1>8. ASSUME Restore PROVE RowsAreReal'
  BY <1>8 DEF Restore, vars, main, sampler, load, truth
<1>9. ASSUME Abort PROVE RowsAreReal'
  BY <1>9 DEF Abort, vars, main, sampler, load, truth
<1>10. ASSUME StopLoad PROVE RowsAreReal'
  BY <1>10 DEF StopLoad, vars, main, sampler, load, truth
<1>11. ASSUME JoinLoad PROVE RowsAreReal'
  BY <1>11 DEF JoinLoad, vars, main, sampler, load, truth
<1>12. ASSUME SaveOracle PROVE RowsAreReal'
  BY <1>12 DEF SaveOracle, vars, main, sampler, load, truth
<1>13. ASSUME FinishSampler PROVE RowsAreReal'
  BY <1>13 DEF FinishSampler, vars, main, sampler, load, truth
<1>14. ASSUME Judge PROVE RowsAreReal'
  BY <1>14 DEF Judge, vars, main, sampler, load, truth
<1>15. ASSUME SampleHead PROVE RowsAreReal'
  <2>1. UNCHANGED <<srv, pc, kind, phase, truth>>
    BY <1>15 DEF SampleHead, main
  <2>2. CASE rows' = rows
    <3>1. head' = head \/ head' = [t |-> phase, cond |-> srv.cond]
      BY <1>15 DEF SampleHead
    <3> QED BY <2>1, <2>2, <3>1 DEF truth
  <2> DEFINE last == [t |-> phase, cond |-> srv.cond, ok |-> "none", pd |-> "none"]
  <2>3. CASE rows' = Append(rows, last) /\ head' = head
    <3>1. Watched(last) = "none"
      OBVIOUS
    <3>2. Len(rows') = Len(rows) + 1 /\ rows'[Len(rows) + 1] = last
          /\ \A r \in Row : rows'[r] = rows[r]
      BY <2>3
    <3> QED BY <2>1, <2>3, <3>1, <3>2 DEF truth
  <2> QED BY <1>15, <2>2, <2>3 DEF SampleHead
<1>16. ASSUME Probe PROVE RowsAreReal'
  <2>1. PICK answer \in {[ok |-> srv.ok, pd |-> srv.pd], [ok |-> "other", pd |-> "other"]} :
           rows' = Append(rows, [t |-> head.t, cond |-> head.cond, ok |-> answer.ok,
                                 pd |-> answer.pd])
    BY <1>16 DEF Probe
  <2>2. UNCHANGED <<srv, main, head, truth>>
    BY <1>16 DEF Probe
  <2> DEFINE last == [t |-> head.t, cond |-> head.cond, ok |-> answer.ok, pd |-> answer.pd]
  <2>3. /\ last.t # "before" /\ Watched(last) = "down" => wentDown
        /\ last.t = "after" /\ Watched(last) = "up" => cameBack
    BY <2>1
  <2>4. Len(rows') = Len(rows) + 1 /\ rows'[Len(rows) + 1] = last
        /\ \A r \in Row : rows'[r] = rows[r]
    BY <2>1
  <2>5. UNCHANGED <<srv, pc, kind, phase, head, wentDown, cameBack>>
    BY <2>2 DEF main, truth
  <2> HIDE DEF last
  <2>6. \A r \in 1..Len(rows') : r \in Row \/ r = Len(rows) + 1
    BY <2>4
  <2> QED BY <2>3, <2>4, <2>5, <2>6
<1>17. ASSUME NEW s \in Scenario, Iterate(s) PROVE RowsAreReal'
  BY <1>17 DEF Iterate, vars, main, sampler, load, truth
<1>18. ASSUME NEW s \in Scenario, Write(s) PROVE RowsAreReal'
  BY <1>18 DEF Write, vars, main, sampler, load, truth
<1>19. ASSUME ServerChanges PROVE RowsAreReal'
  BY <1>19 DEF ServerChanges, Note, vars, main, sampler, load, truth
<1>20. ASSUME UNCHANGED vars PROVE RowsAreReal'
  BY <1>20 DEF vars, main, sampler, load, truth
<1> QED
  BY <1>1, <1>2, <1>3, <1>4, <1>5, <1>6, <1>7, <1>8, <1>9, <1>10,
     <1>11, <1>12, <1>13, <1>14, <1>15, <1>16, <1>17, <1>18, <1>19, <1>20
     DEF Next, MainStep

\* A load that was told to stop is acknowledged no more than its round.
LEMMA StoppedStep == (TypeOK /\ StoppedLoads) /\ [Next]_vars => StoppedLoads'
<1> SUFFICES ASSUME (TypeOK /\ StoppedLoads), [Next]_vars PROVE StoppedLoads'
  OBVIOUS
<1> USE DEF StoppedLoads, OnlyLastBatchForgotten
<1>1. ASSUME NEW k \in Kinds, StartScenario(k) PROVE StoppedLoads'
  <2>1. UNCHANGED <<oracle, load, saved>> /\ pc' = "sample"
    BY <1>1 DEF StartScenario
  <2> QED BY <2>1 DEF load
<1>2. ASSUME WatchOnly PROVE StoppedLoads'
  BY <1>2 DEF WatchOnly, vars, main, sampler, load, truth
<1>3. ASSUME StartLoad PROVE StoppedLoads'
  BY <1>3 DEF StartLoad, vars, main, sampler, load, truth
<1>4. ASSUME StampFault PROVE StoppedLoads'
  BY <1>4 DEF StampFault, Note, vars, main, sampler, load, truth
<1>5. ASSUME InjectFault PROVE StoppedLoads'
  BY <1>5 DEF InjectFault, vars, main, sampler, load, truth
<1>6. ASSUME Settle PROVE StoppedLoads'
  BY <1>6 DEF Settle, Note, vars, main, sampler, load, truth
<1>7. ASSUME StampBack PROVE StoppedLoads'
  BY <1>7 DEF StampBack, Note, vars, main, sampler, load, truth
<1>8. ASSUME Restore PROVE StoppedLoads'
  BY <1>8 DEF Restore, vars, main, sampler, load, truth
<1>9. ASSUME Abort PROVE StoppedLoads'
  BY <1>9 DEF Abort, vars, main, sampler, load, truth
<1>10. ASSUME StopLoad PROVE StoppedLoads'
  <2>1. i \in Scenario
    BY <1>10, WatchAssumption DEF StopLoad, TypeOK, Scenario
  <2> QED BY <1>10, <2>1 DEF StopLoad, TypeOK
<1>11. ASSUME JoinLoad PROVE StoppedLoads'
  BY <1>11 DEF JoinLoad, vars, main, sampler, load, truth
<1>12. ASSUME SaveOracle PROVE StoppedLoads'
  <2>1. i \in Scenario
    BY <1>12, WatchAssumption DEF SaveOracle, TypeOK, Scenario
  <2> QED BY <1>12, <2>1 DEF SaveOracle, load
<1>13. ASSUME FinishSampler PROVE StoppedLoads'
  BY <1>13 DEF FinishSampler, vars, main, sampler, load, truth
<1>14. ASSUME Judge PROVE StoppedLoads'
  BY <1>14 DEF Judge, vars, main, sampler, load, truth
<1>15. ASSUME SampleHead PROVE StoppedLoads'
  BY <1>15 DEF SampleHead, vars, main, sampler, load, truth
<1>16. ASSUME Probe PROVE StoppedLoads'
  BY <1>16 DEF Probe, vars, main, sampler, load, truth
<1>17. ASSUME NEW s \in Scenario, Iterate(s) PROVE StoppedLoads'
  <2>1. UNCHANGED <<main, oracle, lstop, acked, saved>>
    BY <1>17 DEF Iterate
  <2>2. \A q \in saved : n'[q] = n[q]
    BY <1>17 DEF Iterate, TypeOK
  <2> QED BY <2>1, <2>2 DEF main
<1>18. ASSUME NEW s \in Scenario, Write(s) PROVE StoppedLoads'
  <2>1. UNCHANGED <<main, oracle, lstop, n, saved>>
    BY <1>18 DEF Write
  <2>2. \A q \in saved : acked'[q] \subseteq acked[q] \cup {<<q, n[q]>>}
    BY <1>18 DEF Write, TypeOK
  <2> QED BY <2>1, <2>2 DEF main
<1>19. ASSUME ServerChanges PROVE StoppedLoads'
  BY <1>19 DEF ServerChanges, Note, vars, main, sampler, load, truth
<1>20. ASSUME UNCHANGED vars PROVE StoppedLoads'
  BY <1>20 DEF vars, main, sampler, load, truth
<1> QED
  BY <1>1, <1>2, <1>3, <1>4, <1>5, <1>6, <1>7, <1>8, <1>9, <1>10,
     <1>11, <1>12, <1>13, <1>14, <1>15, <1>16, <1>17, <1>18, <1>19, <1>20
     DEF Next, MainStep

\* Only the judgement gives a verdict, and what it asks for is in the rows.
LEMMA VerdictStep == TypeOK /\ RowsAreReal /\ OutageWasReal /\ [Next]_vars => OutageWasReal'
<1> SUFFICES ASSUME TypeOK, RowsAreReal, OutageWasReal, [Next]_vars PROVE OutageWasReal'
  OBVIOUS
<1>1. CASE Judge
  <2>1. UNCHANGED <<kind, wentDown, cameBack>>
        /\ (verdict' = "PASS" => verdict = "PASS" \/ \E eps \in BOOLEAN : Ok(eps))
    BY <1>1 DEF Judge, truth
  <2>2. ASSUME kind = "stores-zero", NEW eps \in BOOLEAN, Ok(eps) PROVE wentDown /\ cameBack
    <3>1. DownSeen("ok") /\ BackSeen("ok")
      BY <2>2 DEF Ok
    <3>2. PICK r \in Row : rows[r].t # "before" /\ rows[r].ok = "down"
      BY <3>1 DEF DownSeen, Since
    <3>3. PICK q \in Row : rows[q].t = "after" /\ rows[q].ok = "up"
      BY <3>1 DEF BackSeen, Since
    <3>4. \A p \in Row : Watched(rows[p]) = rows[p].ok
      BY <2>2 DEF Watched
    <3> QED BY <3>2, <3>3, <3>4, Zenon DEF RowsAreReal
  <2>3. ASSUME kind = "pd-zero", NEW eps \in BOOLEAN, Ok(eps) PROVE wentDown /\ cameBack
    <3>1. DownSeen("pd") /\ BackSeen("pd")
      BY <2>3 DEF Ok
    <3>2. PICK r \in Row : rows[r].t # "before" /\ rows[r].pd = "down"
      BY <3>1 DEF DownSeen, Since
    <3>3. PICK q \in Row : rows[q].t = "after" /\ rows[q].pd = "up"
      BY <3>1 DEF BackSeen, Since
    <3>4. \A p \in Row : Watched(rows[p]) = rows[p].pd
      BY <2>3 DEF Watched
    <3> QED BY <3>2, <3>3, <3>4, Zenon DEF RowsAreReal
  <2> QED BY <2>1, <2>2, <2>3 DEF OutageWasReal, Outages
<1>2. ASSUME NEW k \in Kinds, StartScenario(k) PROVE OutageWasReal'
  BY <1>2 DEF StartScenario, OutageWasReal
<1>3. CASE StampFault \/ Settle \/ StampBack \/ ServerChanges
  BY <1>3 DEF StampFault, Settle, StampBack, ServerChanges, Note, main, OutageWasReal
<1>4. CASE UNCHANGED <<verdict, kind, truth>>
  BY <1>4 DEF truth, OutageWasReal
<1>5. WatchOnly \/ StartLoad \/ InjectFault \/ Restore \/ Abort
      \/ StopLoad \/ JoinLoad \/ SaveOracle \/ FinishSampler
      \/ SampleHead \/ Probe \/ (\E s \in Scenario : Iterate(s) \/ Write(s)) \/ UNCHANGED vars
         => UNCHANGED <<verdict, kind, truth>>
  BY DEF WatchOnly, StartLoad, InjectFault, Restore, Abort, StopLoad, JoinLoad, SaveOracle,
         FinishSampler, SampleHead, Probe, Iterate, Write, vars, main
<1> QED BY <1>1, <1>2, <1>3, <1>4, <1>5 DEF Next, MainStep

\* A process that has run no scenario yet satisfies the invariant.
LEMMA WatchInit == Init => WatchInv
<1> SUFFICES ASSUME Init PROVE WatchInv
  OBVIOUS
<1>1. /\ srv \in [ok : Signal, cond : Signal, pd : Signal]
      /\ head \in [t : Phase, cond : Signal]
  BY DEF Init, Up, NoHead, Signal, Phase
<1>2. sstop \in BOOLEAN /\ wentDown \in BOOLEAN /\ cameBack \in BOOLEAN
  BY Zenon DEF Init
<1>3. lstop \in [Scenario -> BOOLEAN]
  BY DEF Init
<1>4. TypeOK
  BY <1>1, <1>2, <1>3, WatchAssumption DEF Init, TypeOK, Phase
<1>5. RowsAreReal /\ StoppedLoads /\ OutageWasReal
  BY DEF Init, RowsAreReal, StoppedLoads, OnlyLastBatchForgotten, OutageWasReal, Row, NoHead
<1> QED BY <1>4, <1>5 DEF WatchInv

\* WatchInv is an invariant of the process.
THEOREM WatchInvariant == Spec => []WatchInv
<1>1. WatchInv /\ [Next]_vars => WatchInv'
  BY WatchTypes, RowsStep, StoppedStep, VerdictStep DEF WatchInv
<1> QED BY WatchInit, <1>1, PTL DEF Spec

\* The state of the process has its types.
THEOREM WatchTypeCorrect == Spec => []TypeOK
<1>1. WatchInv => TypeOK
  BY DEF WatchInv
<1> QED BY WatchInvariant, <1>1, PTL

\* A PASS of a scenario that must see an outage means there was one, in the
\* time of the fault, and that it was over afterwards.
THEOREM OutageOfAPassIsReal == Spec => []OutageWasReal
<1>1. WatchInv => OutageWasReal
  BY DEF WatchInv
<1> QED BY WatchInvariant, <1>1, PTL

\* However long a load outlives its join, the oracle misses at most the batch
\* that was under way when the load was told to stop.
THEOREM OnlyLastBatchIsForgotten == Spec => []OnlyLastBatchForgotten
<1>1. WatchInv => OnlyLastBatchForgotten
  BY DEF WatchInv, StoppedLoads
<1> QED BY WatchInvariant, <1>1, PTL

\* No step takes an acknowledged write out of the oracle.
THEOREM OracleOnlyGrows == Spec => OracleGrows
<1>1. [Next]_vars => [oracle \subseteq oracle']_oracle
  BY DEF Next, MainStep, StartScenario, WatchOnly, StartLoad, StampFault, InjectFault, Settle,
         StampBack, Restore, Abort, StopLoad, JoinLoad, SaveOracle, FinishSampler, Judge,
         SampleHead, Probe, Iterate, Write, ServerChanges, vars
<1> QED BY <1>1, PTL DEF Spec, OracleGrows
=============================================================================
