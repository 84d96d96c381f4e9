------------------------- MODULE SnapshotRaceProofs -------------------------
(***************************************************************************)
(* Proofs about SnapshotRace for any number of partitions.  LogSpan says   *)
(* which attempts the lines of the two containers can come from: a signal  *)
(* that met the JVM ends a container's log, so the log of the next one     *)
(* begins after it.  Judged says which attempts get which verdict.          *)
(***************************************************************************)
EXTENDS SnapshotRace, TLAPS

\* The number of attempts, and that each has its partition.
LEMMA AttemptsNat == Attempts \in Nat \ {0} /\ \A q \in 1..Attempts : Target[q] \in Partitions
BY TargetAssumption DEF Attempts

\* Before the first attempt.
LEMMA EvidenceInit == Init => EvidenceInv
<1> SUFFICES ASSUME Init PROVE EvidenceInv
  OBVIOUS
<1>1. Flags
  BY Zenon DEF Init, Flags
<1>2. /\ p = 0 /\ pc = "start" /\ jvm = "up" /\ requested = {} /\ compacting = {} /\ ~busy
      /\ dir \in [Partitions -> {"none", "complete", "metaonly"}] /\ broken = MetaOnly(dir)
      /\ busyLog \in {{}, {0}} /\ prevBusy \in {{}, {0}} /\ corruptLog \in {{}, {0}}
      /\ answer = "none" /\ verdict = [q \in Tries |-> "none"]
      /\ fired = {} /\ hit = {} /\ restarted = {} /\ sound = {}
  BY Zenon DEF Init
<1>3. Ranges
  BY <1>2, AttemptsNat DEF Ranges, MetaOnly, Tries
<1>4. LogSpan
  BY <1>2 DEF LogSpan, Looked
<1>5. Judged
  <2>1. ~fixed => busyLog = {} /\ prevBusy = {}
    BY Zenon DEF Init
  <2> QED
    BY <1>2, <2>1 DEF Judged, RaceFired
<1>6. FreshEvidence /\ StateIsOfNewJvm
  BY <1>2 DEF FreshEvidence, StateIsOfNewJvm, RaceFired
<1> QED
  BY <1>1, <1>3, <1>4, <1>5, <1>6 DEF EvidenceInv, TypeOK

\* Every step keeps the truth values.
LEMMA FlagsStep == Flags /\ [Next]_vars => Flags'
<1> SUFFICES ASSUME Flags, [Next]_vars PROVE Flags'
  OBVIOUS
<1> USE DEF Flags
<1>1. ASSUME Compact PROVE Flags'
  BY <1>1, Zenon DEF Compact, logs, read, history
<1>2. ASSUME RequestSnapshot PROVE Flags'
  BY <1>2, Zenon DEF RequestSnapshot, logs, read, history
<1>3. ASSUME ReadPreKill PROVE Flags'
  BY <1>3, Zenon DEF ReadPreKill, vars, store, logs, read, history
<1>4. ASSUME Kill PROVE Flags'
  BY <1>4, Zenon DEF Kill, vars, store, logs, read, history
<1>5. ASSUME WaitReady PROVE Flags'
  BY <1>5, Zenon DEF WaitReady, vars, store, logs, read, history
<1>6. ASSUME ReadState PROVE Flags'
  BY <1>6, Zenon DEF ReadState, Answers, vars, store, logs, read, history
<1>7. ASSUME ReadEvidence PROVE Flags'
  BY <1>7, Zenon DEF ReadEvidence, vars, store, logs, read, history
<1>8. ASSUME Judge PROVE Flags'
  BY <1>8, Zenon DEF Judge, Conclude, vars, store, logs, read, history
<1>9. ASSUME Abort PROVE Flags'
  BY <1>9, Zenon DEF Abort, vars, store, logs, read, history
<1>10. ASSUME NEW q \in Partitions, CompactionEnds(q) PROVE Flags'
  BY <1>10, Zenon DEF CompactionEnds, vars, store, logs, read, history
<1>11. ASSUME NEW q \in Partitions, TakeSnapshot(q) PROVE Flags'
  BY <1>11, Zenon DEF TakeSnapshot, Meet, vars, store, logs, read, history
<1>12. ASSUME Crash PROVE Flags'
  BY <1>12, Zenon DEF Crash, vars, store, logs, read, history
<1>13. ASSUME Notice PROVE Flags'
  BY <1>13, Zenon DEF Notice, vars, store, logs, read, history
<1>14. ASSUME Restart PROVE Flags'
  BY <1>14, Zenon DEF Restart, vars, store, logs, read, history
<1>15. ASSUME BecomeReady PROVE Flags'
  BY <1>15, Zenon DEF BecomeReady, vars, store, logs, read, history
<1>16. ASSUME UNCHANGED vars PROVE Flags'
  BY <1>16, Zenon DEF vars, store, logs, read, history
<1> QED
  BY <1>1, <1>2, <1>3, <1>4, <1>5, <1>6, <1>7, <1>8, <1>9, <1>10, <1>11, <1>12,
     <1>13, <1>14, <1>15, <1>16 DEF Next, Script, Environment

\* Every step keeps the ranges of the other variables.
LEMMA RangesStep == TypeOK /\ [Next]_vars => Ranges'
<1> SUFFICES ASSUME TypeOK, [Next]_vars PROVE Ranges'
  OBVIOUS
<1> USE AttemptsNat DEF TypeOK, Flags, Ranges, Tries, MetaOnly
<1>1. ASSUME Compact PROVE Ranges'
  <2>1. /\ p' = p + 1 /\ p < Attempts /\ pc' = "compacting"
        /\ UNCHANGED <<jvm, requested, dir, broken, logs, read, verdict, history>>
    BY <1>1 DEF Compact
  <2>2. compacting' \subseteq Partitions
    BY <1>1 DEF Compact
  <2> QED
    BY <2>1, <2>2 DEF logs, read, history
<1>2. ASSUME RequestSnapshot PROVE Ranges'
  <2>1. requested' \subseteq Partitions
    BY <1>2, Zenon DEF RequestSnapshot
  <2> QED
    BY <1>2, <2>1 DEF RequestSnapshot, logs, read, history
<1>3. ASSUME ReadPreKill PROVE Ranges'
  BY <1>3 DEF ReadPreKill, vars, store, logs, read, history
<1>4. ASSUME Kill PROVE Ranges'
  <2>1. p \in 1..Attempts /\ p' = p /\ pc' = "wait" /\ p \in 1..p
    BY <1>4 DEF Kill
  <2>2. /\ jvm' \in {"up", "dead", "waiting"}
        /\ hit' = hit \/ hit' = hit \cup {p}
        /\ compacting' \in {{}, compacting} /\ requested' \in {{}, requested}
    BY <1>4, Zenon DEF Kill
  <2>3. UNCHANGED <<dir, broken, busyLog, prevBusy, corruptLog, verdict, fired, restarted,
                    answer, sound>>
    BY <1>4 DEF Kill, logs, read
  <2>4. hit' \subseteq 1..p' /\ restarted' \subseteq hit'
    BY <2>1, <2>2, <2>3
  <2>5. compacting' \subseteq Partitions /\ requested' \subseteq Partitions
    BY <2>2
  <2>6. p' \in 0..Attempts /\ p' # 0
    BY <2>1
  <2> QED
    BY <2>1, <2>2, <2>3, <2>4, <2>5, <2>6
<1>5. ASSUME WaitReady PROVE Ranges'
  BY <1>5 DEF WaitReady, vars, store, logs, read, history
<1>6. ASSUME ReadState PROVE Ranges'
  BY <1>6 DEF ReadState, Answers, vars, store, logs, read, history
<1>7. ASSUME ReadEvidence PROVE Ranges'
  BY <1>7 DEF ReadEvidence, vars, store, logs, read, history
<1>8. ASSUME Judge PROVE Ranges'
  <2>1. PICK v \in {"PASS", "FAIL", "INCONCLUSIVE"} : verdict' = [verdict EXCEPT ![p] = v]
    BY <1>8 DEF Judge, Conclude
  <2>2. p \in 1..p /\ sound' \in {sound, sound \cup {p}}
    BY <1>8 DEF Judge, Conclude
  <2> QED
    BY <1>8, <2>1, <2>2 DEF Judge, Conclude, store, logs
<1>9. ASSUME Abort PROVE Ranges'
  BY <1>9 DEF Abort, vars, store, logs, read, history
<1>10. ASSUME NEW q \in Partitions, CompactionEnds(q) PROVE Ranges'
  BY <1>10 DEF CompactionEnds, vars, store, logs, read, history
<1>11. ASSUME NEW q \in Partitions, TakeSnapshot(q) PROVE Ranges'
  <2>1. p \in 1..Attempts /\ requested' = requested \ {q} /\ p' = p /\ p \in 1..p /\ p \in 0..p
    BY <1>11 DEF TakeSnapshot
  <2>2. dir' \in [Partitions -> {"none", "complete", "metaonly"}]
    BY <1>11 DEF TakeSnapshot, Meet
  <2>3. busyLog' \in {busyLog, busyLog \cup {p}} /\ fired' \in {fired, fired \cup {p}}
    BY <1>11 DEF TakeSnapshot, Meet
  <2>4. busyLog' \subseteq 0..p' /\ fired' \subseteq 1..p'
    BY <2>1, <2>3
  <2>5. UNCHANGED <<jvm, compacting, broken, pc, prevBusy, corruptLog, answer, verdict, hit,
                    restarted, sound>>
    BY <1>11 DEF TakeSnapshot, read
  <2> QED
    BY <2>1, <2>2, <2>4, <2>5
<1>12. ASSUME Crash PROVE Ranges'
  BY <1>12 DEF Crash, vars, store, logs, read, history
<1>13. ASSUME Notice PROVE Ranges'
  BY <1>13 DEF Notice, vars, store, logs, read, history
<1>14. ASSUME Restart PROVE Ranges'
  <2>1. corruptLog' \subseteq 0..p
    BY <1>14 DEF Restart
  <2> QED
    BY <1>14, <2>1 DEF Restart, read
<1>15. ASSUME BecomeReady PROVE Ranges'
  BY <1>15 DEF BecomeReady, vars, store, logs, read, history
<1>16. ASSUME UNCHANGED vars PROVE Ranges'
  BY <1>16 DEF vars, store, logs, read, history
<1> QED
  BY <1>1, <1>2, <1>3, <1>4, <1>5, <1>6, <1>7, <1>8, <1>9, <1>10, <1>11, <1>12,
     <1>13, <1>14, <1>15, <1>16 DEF Next, Script, Environment

\* Every step keeps what the logs span.
LEMMA LogStep == (TypeOK /\ LogSpan) /\ [Next]_vars => LogSpan'
<1> SUFFICES ASSUME (TypeOK /\ LogSpan), [Next]_vars PROVE LogSpan'
  OBVIOUS
<1> USE AttemptsNat DEF TypeOK, Flags, Ranges, LogSpan, Looked, Tries
<1>1. ASSUME Compact PROVE LogSpan'
  <2>1. /\ pc = "start" /\ p' = p + 1 /\ pc' = "compacting" /\ p' - 1 = p
        /\ UNCHANGED <<jvm, requested, busyLog, prevBusy, busy, fired, hit, restarted>>
    BY <1>1 DEF Compact, logs, read, history
  <2>2. p' \notin hit /\ p' # p
    BY <2>1
  <2>3. p \in hit => compacting' \subseteq {Target[p']}
    BY <1>1 DEF Compact
  <2>4. \A q \in hit : q < p'
    BY <2>1
  <2>5. \A q \in hit : \A t \in busyLog : q < t
    BY <2>1
  <2> QED
    BY <2>1, <2>2, <2>3, <2>4, <2>5
<1>2. ASSUME RequestSnapshot PROVE LogSpan'
  <2>1. /\ pc = "compacting" /\ pc' = "requested" /\ p \notin hit
        /\ UNCHANGED <<p, jvm, compacting, busyLog, prevBusy, busy, fired, hit, restarted>>
    BY <1>2 DEF RequestSnapshot, logs, read, history
  <2> QED
    BY <2>1
<1>3. ASSUME ReadPreKill PROVE LogSpan'
  <2>1. /\ pc = "requested" /\ pc' = "kill" /\ p \in Nat /\ p >= 1
        /\ UNCHANGED <<p, jvm, compacting, requested, busyLog, prevBusy, fired, hit, restarted>>
    BY <1>3 DEF ReadPreKill, store, logs, history
  <2>2. ASSUME busy', p - 1 \in hit PROVE p \in fired
    <3>1. PICK t \in busyLog : t = p \/ (p = 1 /\ t = 0)
      BY <1>3, <2>2 DEF ReadPreKill, Recent
    <3>2. t = p
      BY <2>1, <2>2, <3>1
    <3> QED
      BY <2>2, <3>1, <3>2
  <2> QED
    BY <2>1, <2>2
<1>4. ASSUME Kill PROVE LogSpan'
  <2>1. /\ pc = "kill" /\ jvm = "up" /\ p \in 1..Attempts
        /\ pc' = "wait" /\ UNCHANGED <<p, busyLog, prevBusy, busy, fired, restarted>>
    BY <1>4 DEF Kill, logs, read
  <2>2. CASE jvm' = "dead" /\ requested' = {} /\ compacting' = {} /\ hit' = hit \cup {p}
    <3>1. \A t \in busyLog \cup prevBusy : t - 1 \in hit' => t \in fired'
      <4> TAKE t \in busyLog \cup prevBusy
      <4>1. t - 1 # p
        BY <2>1
      <4> QED
        BY <2>1, <2>2, <4>1
    <3>2. \A q \in hit : q # p
      BY <2>1
    <3>3. \A q \in hit' : q < p => \A t \in busyLog : q < t
      BY <2>1, <2>2
    <3>4. p - 1 \in hit' => p - 1 \in hit
      BY <2>1, <2>2
    <3> QED
      BY <2>1, <2>2, <3>1, <3>2, <3>3, <3>4
  <2>3. CASE UNCHANGED <<jvm, compacting, requested, hit>>
    BY <2>1, <2>3
  <2> QED
    BY <1>4, <2>2, <2>3, Zenon DEF Kill
<1>5. ASSUME WaitReady PROVE LogSpan'
  BY <1>5 DEF WaitReady, vars, store, logs, read, history
<1>6. ASSUME ReadState PROVE LogSpan'
  BY <1>6 DEF ReadState, Answers, vars, store, logs, read, history
<1>7. ASSUME ReadEvidence PROVE LogSpan'
  <2>1. /\ pc = "evidence" /\ pc' = "judge" /\ (busy' => busy \/ prevBusy # {})
        /\ UNCHANGED <<p, jvm, compacting, requested, busyLog, prevBusy, fired, hit, restarted>>
    BY <1>7 DEF ReadEvidence, store, logs, history
  <2>2. ASSUME busy', {p - 1, p} \subseteq hit PROVE p \in fired
    <3>1. CASE busy
      BY <2>1, <2>2, <3>1
    <3>2. CASE prevBusy # {}
      <4>1. PICK t \in prevBusy : TRUE
        BY <3>2
      <4>2. t = p
        BY <2>1, <2>2, <4>1
      <4> QED
        BY <2>1, <2>2, <4>1, <4>2
    <3> QED
      BY <2>1, <2>2, <3>1, <3>2
  <2> QED
    BY <2>1, <2>2
<1>8. ASSUME Judge PROVE LogSpan'
  BY <1>8 DEF Judge, Conclude, vars, store, logs, read, history
<1>9. ASSUME Abort PROVE LogSpan'
  BY <1>9 DEF Abort, vars, store, logs, read, history
<1>10. ASSUME NEW q \in Partitions, CompactionEnds(q) PROVE LogSpan'
  BY <1>10 DEF CompactionEnds, vars, store, logs, read, history
<1>11. ASSUME NEW q \in Partitions, TakeSnapshot(q) PROVE LogSpan'
  <2>1. /\ q \in requested /\ requested' = requested \ {q} /\ p \in 1..Attempts /\ p \notin hit
        /\ UNCHANGED <<pc, p, jvm, compacting, prevBusy, busy, hit, restarted>>
    BY <1>11 DEF TakeSnapshot, read
  <2>2. CASE UNCHANGED <<busyLog, fired>>
    BY <2>1, <2>2
  <2>3. CASE q \in compacting /\ busyLog' = busyLog \cup {p}
             /\ fired' = IF q = Target[p] THEN fired \cup {p} ELSE fired
    <3>1. p - 1 \in hit => p \in fired'
      BY <2>1, <2>3
    <3>2. \A r \in hit : r < p
      BY <2>1
    <3> QED
      BY <2>1, <2>3, <3>1, <3>2
  <2>4. CASE UNCHANGED busyLog /\ fired \subseteq fired'
    BY <2>1, <2>4
  <2> QED
    BY <1>11, <2>2, <2>3, <2>4 DEF TakeSnapshot, Meet
<1>12. ASSUME Crash PROVE LogSpan'
  BY <1>12 DEF Crash, vars, store, logs, read, history
<1>13. ASSUME Notice PROVE LogSpan'
  <2>1. /\ jvm' = "waiting" /\ prevBusy' = busyLog /\ busyLog' = {}
        /\ UNCHANGED <<pc, p, compacting, requested, busy, fired, hit, restarted>>
    BY <1>13 DEF Notice, read, history
  <2>2. ASSUME p - 1 \in hit PROVE \A t \in busyLog : p <= t
    <3>1. \A t \in busyLog : p - 1 < t /\ t \in Int
      BY <2>2
    <3> QED
      BY <3>1
  <2> QED
    BY <2>1, <2>2
<1>14. ASSUME Restart PROVE LogSpan'
  BY <1>14 DEF Restart, vars, store, logs, read, history
<1>15. ASSUME BecomeReady PROVE LogSpan'
  BY <1>15 DEF BecomeReady, vars, store, logs, read, history
<1>16. ASSUME UNCHANGED vars PROVE LogSpan'
  BY <1>16 DEF vars, store, logs, read, history
<1> QED
  BY <1>1, <1>2, <1>3, <1>4, <1>5, <1>6, <1>7, <1>8, <1>9, <1>10, <1>11, <1>12,
     <1>13, <1>14, <1>15, <1>16 DEF Next, Script, Environment

\* Every step keeps what is known of the verdicts.
LEMMA JudgedStep == (TypeOK /\ LogSpan /\ Judged) /\ [Next]_vars => Judged'
<1> SUFFICES ASSUME (TypeOK /\ LogSpan /\ Judged), [Next]_vars PROVE Judged'
  OBVIOUS
<1> USE AttemptsNat DEF TypeOK, Flags, Ranges, LogSpan, Judged, Looked, Tries, MetaOnly, RaceFired
<1>1. ASSUME Compact PROVE Judged'
  BY <1>1 DEF Compact, vars, store, logs, read, history
<1>2. ASSUME RequestSnapshot PROVE Judged'
  BY <1>2 DEF RequestSnapshot, vars, store, logs, read, history
<1>3. ASSUME ReadPreKill PROVE Judged'
  <2>1. ~fixed => ~busy'
    BY <1>3 DEF ReadPreKill, Recent
  <2> QED
    BY <1>3, <2>1 DEF ReadPreKill, store, logs, history
<1>4. ASSUME Kill PROVE Judged'
  BY <1>4 DEF Kill, vars, store, logs, read, history
<1>5. ASSUME WaitReady PROVE Judged'
  BY <1>5 DEF WaitReady, vars, store, logs, read, history
<1>6. ASSUME ReadState PROVE Judged'
  BY <1>6 DEF ReadState, Answers, vars, store, logs, read, history
<1>7. ASSUME ReadEvidence PROVE Judged'
  BY <1>7 DEF ReadEvidence, vars, store, logs, read, history
<1>8. ASSUME Judge PROVE Judged'
  <2> DEFINE ok == clean /\ back /\ partition_state(answer) = "list"
             v == IF ~busy THEN "INCONCLUSIVE" ELSE IF ok THEN "PASS" ELSE "FAIL"
  <2>1. /\ pc = "judge" /\ pc' = "start" /\ p \in Tries /\ p' = p /\ p \notin sound
        /\ verdict' = [verdict EXCEPT ![p] = v] /\ answer' = "none" /\ busy' = busy
        /\ UNCHANGED <<fixed, busyLog, prevBusy>>
    BY <1>8 DEF Judge, Conclude, store, logs
  <2>2. verdict'[p] = v /\ \A q \in Tries : q # p => verdict'[q] = verdict[q]
    BY <2>1
  <2>3. busy => fixed
    BY <2>1
  <2>4. NormalLength > BodyKept => v # "PASS"
    BY LengthAssumption DEF partition_state
  <2>5. ~(NormalLength > BodyKept) =>
          /\ sound' \in {sound, sound \cup {p}}
          /\ p \in sound' => v # "FAIL"
    <3>1. sound' = IF clean /\ back /\ answer = "normal" THEN sound \cup {p} ELSE sound
      BY <1>8 DEF Judge, Conclude
    <3>2. ~(NormalLength > BodyKept) /\ clean /\ back /\ answer = "normal" => ok
      BY LengthAssumption DEF partition_state
    <3>3. p \in sound' => clean /\ back /\ answer = "normal"
      BY <2>1, <3>1
    <3> QED
      BY <3>1, <3>2, <3>3
  <2>6. ~(NormalLength > BodyKept) => \A q \in sound' : verdict'[q] # "FAIL"
    <3>1. \A q \in sound : q \in Tries
      BY <2>1
    <3>2. CASE sound' = sound
      BY <2>1, <2>2, <3>1, <3>2
    <3>3. CASE sound' = sound \cup {p}
      BY <2>1, <2>2, <2>5, <3>1, <3>3
    <3> QED
      BY <2>5, <3>2, <3>3
  <2>7. NormalLength > BodyKept => \A q \in Tries : verdict'[q] # "PASS"
    BY <2>2, <2>4
  <2>8. \A q \in Tries : verdict'[q] \in {"PASS", "FAIL"} => fixed
    BY <2>2, <2>3
  <2>9. \A q \in Tries : verdict'[q] # "none" => q <= p
    BY <2>1, <2>2
  <2> QED
    BY <2>1, <2>6, <2>7, <2>8, <2>9
<1>9. ASSUME Abort PROVE Judged'
  BY <1>9 DEF Abort, vars, store, logs, read, history
<1>10. ASSUME NEW q \in Partitions, CompactionEnds(q) PROVE Judged'
  BY <1>10 DEF CompactionEnds, vars, store, logs, read, history
<1>11. ASSUME NEW q \in Partitions, TakeSnapshot(q) PROVE Judged'
  BY <1>11 DEF TakeSnapshot, Meet, vars, store, logs, read, history
<1>12. ASSUME Crash PROVE Judged'
  BY <1>12 DEF Crash, vars, store, logs, read, history
<1>13. ASSUME Notice PROVE Judged'
  BY <1>13 DEF Notice, vars, store, logs, read, history
<1>14. ASSUME Restart PROVE Judged'
  BY <1>14 DEF Restart, vars, store, logs, read, history
<1>15. ASSUME BecomeReady PROVE Judged'
  BY <1>15 DEF BecomeReady, vars, store, logs, read, history
<1>16. ASSUME UNCHANGED vars PROVE Judged'
  BY <1>16 DEF vars, store, logs, read, history
<1> QED
  BY <1>1, <1>2, <1>3, <1>4, <1>5, <1>6, <1>7, <1>8, <1>9, <1>10, <1>11, <1>12, <1>13, <1>14, <1>15, <1>16 DEF Next, Script, Environment

\* Every step keeps what a verdict says.
LEMMA VerdictStep == EvidenceInv /\ [Next]_vars => (FreshEvidence /\ StateIsOfNewJvm)'
<1> SUFFICES ASSUME EvidenceInv, [Next]_vars PROVE (FreshEvidence /\ StateIsOfNewJvm)'
  OBVIOUS
<1> USE AttemptsNat DEF EvidenceInv, TypeOK, Flags, Ranges, LogSpan, Judged, Looked, Tries, MetaOnly, RaceFired, FreshEvidence, StateIsOfNewJvm
<1>1. ASSUME Compact PROVE (FreshEvidence /\ StateIsOfNewJvm)'
  BY <1>1 DEF Compact, vars, store, logs, read, history
<1>2. ASSUME RequestSnapshot PROVE (FreshEvidence /\ StateIsOfNewJvm)'
  BY <1>2 DEF RequestSnapshot, vars, store, logs, read, history
<1>3. ASSUME ReadPreKill PROVE (FreshEvidence /\ StateIsOfNewJvm)'
  BY <1>3 DEF ReadPreKill, vars, store, logs, read, history
<1>4. ASSUME Kill PROVE (FreshEvidence /\ StateIsOfNewJvm)'
  BY <1>4 DEF Kill, vars, store, logs, read, history
<1>5. ASSUME WaitReady PROVE (FreshEvidence /\ StateIsOfNewJvm)'
  BY <1>5 DEF WaitReady, vars, store, logs, read, history
<1>6. ASSUME ReadState PROVE (FreshEvidence /\ StateIsOfNewJvm)'
  BY <1>6 DEF ReadState, Answers, vars, store, logs, read, history
<1>7. ASSUME ReadEvidence PROVE (FreshEvidence /\ StateIsOfNewJvm)'
  BY <1>7 DEF ReadEvidence, vars, store, logs, read, history
<1>8. ASSUME Judge PROVE (FreshEvidence /\ StateIsOfNewJvm)'
  BY <1>8 DEF Judge, Conclude, vars, store, logs, read, history
<1>9. ASSUME Abort PROVE (FreshEvidence /\ StateIsOfNewJvm)'
  BY <1>9 DEF Abort, vars, store, logs, read, history
<1>10. ASSUME NEW q \in Partitions, CompactionEnds(q) PROVE (FreshEvidence /\ StateIsOfNewJvm)'
  BY <1>10 DEF CompactionEnds, vars, store, logs, read, history
<1>11. ASSUME NEW q \in Partitions, TakeSnapshot(q) PROVE (FreshEvidence /\ StateIsOfNewJvm)'
  BY <1>11 DEF TakeSnapshot, Meet, vars, store, logs, read, history
<1>12. ASSUME Crash PROVE (FreshEvidence /\ StateIsOfNewJvm)'
  BY <1>12 DEF Crash, vars, store, logs, read, history
<1>13. ASSUME Notice PROVE (FreshEvidence /\ StateIsOfNewJvm)'
  BY <1>13 DEF Notice, vars, store, logs, read, history
<1>14. ASSUME Restart PROVE (FreshEvidence /\ StateIsOfNewJvm)'
  BY <1>14 DEF Restart, vars, store, logs, read, history
<1>15. ASSUME BecomeReady PROVE (FreshEvidence /\ StateIsOfNewJvm)'
  BY <1>15 DEF BecomeReady, vars, store, logs, read, history
<1>16. ASSUME UNCHANGED vars PROVE (FreshEvidence /\ StateIsOfNewJvm)'
  BY <1>16 DEF vars, store, logs, read, history
<1> QED
  BY <1>1, <1>2, <1>3, <1>4, <1>5, <1>6, <1>7, <1>8, <1>9, <1>10, <1>11, <1>12, <1>13, <1>14, <1>15, <1>16 DEF Next, Script, Environment

\* What an attempt knows at each of its steps holds for any number of them.
THEOREM EvidenceInvariant == Spec => []EvidenceInv
<1>1. EvidenceInv /\ [Next]_vars => EvidenceInv'
  BY FlagsStep, RangesStep, LogStep, JudgedStep, VerdictStep DEF EvidenceInv, TypeOK
<1> QED BY EvidenceInit, <1>1, PTL DEF Spec

\* When the signals of an attempt and of the one before met the JVM, a race that
\* is reported as fired was fired in this attempt.
THEOREM EvidenceIsOfThisAttempt == Spec => []FreshEvidence
<1>1. EvidenceInv => FreshEvidence
  BY DEF EvidenceInv
<1> QED BY EvidenceInvariant, <1>1, PTL

\* Whatever the JVM and the kubelet do, a partition recorded as PState_Normal was
\* so in the JVM that came back after the signal.
THEOREM NormalIsOfNewJvm == Spec => []StateIsOfNewJvm
<1>1. EvidenceInv => StateIsOfNewJvm
  BY DEF EvidenceInv
<1> QED BY EvidenceInvariant, <1>1, PTL

\* With a body that is cut, no attempt on any Store passes.
THEOREM CutLetsNothingPass ==
    ASSUME NormalLength > BodyKept
    PROVE  Spec => [](\A q \in Tries : verdict[q] # "PASS")
<1>1. EvidenceInv => \A q \in Tries : verdict[q] # "PASS"
  BY DEF EvidenceInv, Judged
<1> QED BY EvidenceInvariant, <1>1, PTL

\* The cut is all that keeps FailIsReal from being true: with an answer that fits,
\* an attempt that read of nothing wrong does not fail.
THEOREM FailIsRealUncut == ASSUME NormalLength <= BodyKept
                           PROVE  Spec => []FailIsReal
<1>1. EvidenceInv => FailIsReal
  BY LengthAssumption DEF EvidenceInv, Judged, FailIsReal
<1> QED BY EvidenceInvariant, <1>1, PTL
=============================================================================
