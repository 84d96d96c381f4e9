---------------------------- MODULE SnapshotRace ----------------------------
(***************************************************************************)
(* cluster/k3s_3164.py: for one partition of a Store pod after the other,  *)
(* start a compaction, ask for a raft snapshot while it runs, kill the JVM,*)
(* let the kubelet restart it, and look at what is left.  Whether the      *)
(* snapshot met the compaction is read from the logs of two containers.    *)
(*                                                                         *)
(* Attempt p is about partition Target[p]; the command line may name one  *)
(* partition more than once.  A log is the set of the attempts during      *)
(* which its line of interest was written; 0 stands for the time before    *)
(* the script.                                                             *)
(***************************************************************************)
EXTENDS Integers, Sequences

CONSTANTS
    Partitions,
    Target,         \* the partitions on the command line, one attempt each
    BodyKept,       \* characters of a body that rest() keeps
    NormalLength    \* characters of the Store's answer about a normal partition

ASSUME TargetAssumption == Target \in Seq(Partitions) \ {<<>>}
ASSUME LengthAssumption == BodyKept \in Nat /\ NormalLength \in Nat

Attempts == Len(Target)
Tries    == 1..Attempts

VARIABLES
    fixed,       \* the Store has the fix: EBUSY instead of a snapshot without data
    pc, p,       \* place in attempt, and its number
    jvm,         \* "up", "dead" (not noticed), "waiting" for its restart
    ready,       \* what the pod's status says
    compacting, requested,   \* partitions: compaction running, snapshot queued
    dir,         \* per partition: "none", or its snapshot is "complete" or "metaonly"
    broken,      \* partitions the JVM could not load
    busyLog, prevBusy,       \* "compaction in progress": container, previous container
    corruptLog,  \* "snapshot is corrupt": container
    busy, back, clean,   \* locals of attempt: what it has read
    answer,      \* what the Store has said of the partition, recorded as state_after
    verdict,     \* per attempt
    fired, hit, restarted,   \* history: attempts whose race happened, whose signal
                             \* reached the JVM, after whose signal it came back
    sound        \* history: attempts that read of nothing wrong

store    == <<fixed, jvm, ready, compacting, requested, dir, broken>>
logs     == <<busyLog, prevBusy, corruptLog>>
read     == <<busy, back, clean, answer>>
history  == <<fired, hit, restarted, sound>>
vars     == <<store, pc, p, logs, read, verdict, history>>

\* snapshot_dirs: partitions whose snapshot directory has no data.  Without a
\* snapshot the listing has a line "* meta=NO data=NO", which is none of them.
MetaOnly(d) == {q \in Partitions : d[q] = "metaonly"}

\* A store from before the fix may have left snapshots without data.
Init ==
    /\ fixed \in BOOLEAN
    /\ pc = "start" /\ p = 0
    /\ jvm = "up" /\ ready = TRUE /\ compacting = {} /\ requested = {}
    /\ dir \in [Partitions -> {"none", "complete", "metaonly"}] /\ broken = MetaOnly(dir)
    /\ busyLog \in {{}, {0}} /\ prevBusy \in {{}, {0}} /\ corruptLog \in {{}, {0}}
    /\ ~fixed => busyLog = {} /\ prevBusy = {}
    /\ corruptLog # {} => fixed /\ broken # {}
    /\ busy = FALSE /\ back = FALSE /\ clean = FALSE
    /\ answer = "none" /\ verdict = [q \in Tries |-> "none"]
    /\ fired = {} /\ hit = {} /\ restarted = {} /\ sound = {}

\* What the Store does after the script has ended is nobody's business here.
Over == pc = "aborted" \/ (pc = "start" /\ p = Attempts)

----------------------------------------------------------------------------
\* POST /v1/compat; nobody looks at the answer.
Compact ==
    /\ pc = "start" /\ p < Attempts
    /\ pc' = "compacting" /\ p' = p + 1
    /\ \/ jvm = "up" /\ compacting' = compacting \cup {Target[p + 1]}
       \/ UNCHANGED compacting
    /\ UNCHANGED <<fixed, jvm, ready, requested, dir, broken, logs, read, verdict, history>>

\* GET /test/snapshot, gap ms later: it only queues a snapshot of every partition.
RequestSnapshot ==
    /\ pc = "compacting" /\ pc' = "requested"
    /\ \/ jvm = "up" /\ requested' = Partitions \ broken
       \/ UNCHANGED requested
    /\ UNCHANGED <<fixed, jvm, ready, compacting, dir, broken, p, logs, read, verdict, history>>

\* The lines of a log of this container that fall into the attempt: it is read
\* from 5 s before the attempt on, which reaches back to 0 in the first one.
Recent(log) == {t \in log : t = p \/ (p = 1 /\ t = 0)}

\* Mutant: the lines found are gathered over all attempts.
ReadPreKill_Gathered ==
    /\ pc = "requested" /\ pc' = "kill"
    /\ busy' \in BOOLEAN /\ (busy => busy') /\ (busy' => busy \/ Recent(busyLog) # {})
    /\ UNCHANGED <<store, p, logs, back, clean, answer, verdict, history>>

\* One second later: the log of the attempt, empty when kubectl fails.
ReadPreKill ==
    /\ pc = "requested" /\ pc' = "kill"
    /\ busy' \in BOOLEAN /\ (busy' => Recent(busyLog) # {})
    /\ UNCHANGED <<store, p, logs, back, clean, answer, verdict, history>>

\* java_pid takes the first process with "java" in its command line: it may be
\* another, or one that ignores the signal.  Without a JVM kubectl raises.
Kill ==
    /\ pc = "kill" /\ jvm = "up" /\ pc' = "wait"
    /\ \/ /\ jvm' = "dead" /\ compacting' = {} /\ requested' = {}
          /\ hit' = hit \cup {p}
       \/ UNCHANGED <<jvm, compacting, requested, hit>>
    /\ UNCHANGED <<fixed, ready, dir, broken, p, logs, read, verdict, fired, restarted,
                   sound>>

\* wait_ready: Ready, perhaps still that of the killed JVM, or ten minutes.
WaitReady ==
    /\ pc = "wait" /\ pc' = "state"
    /\ back' \in BOOLEAN /\ (back' => ready)
    /\ UNCHANGED <<store, p, logs, busy, clean, answer, verdict, history>>

\* The Store may say PState_Normal of a partition it has loaded, and without
\* the fix of one without data.
Answers == IF jvm = "up" /\ (Target[p] \in broken => ~fixed) THEN {"normal", "other"}
           ELSE {"other"}

\* Mutant: read at once, before the kubelet has noticed a death.
ReadState_AtOnce ==
    /\ pc = "state" /\ pc' = "evidence"
    /\ answer' \in {"normal", "other"}
    /\ UNCHANGED <<store, p, logs, busy, back, clean, verdict, history>>

\* 30 s later, time enough for the kubelet to notice a death.  The text of any
\* error, and any other answer, is "other".
ReadState ==
    /\ pc = "state" /\ jvm # "dead" /\ pc' = "evidence"
    /\ answer' \in Answers
    /\ UNCHANGED <<store, p, logs, busy, back, clean, verdict, history>>

\* What partition_state makes of the answer.  rest() cuts the body, json.loads
\* fails on what is left of it, and the state is a text, in which the judgement
\* finds no PState_Normal.
partition_state(said) ==
    IF said = "normal" /\ NormalLength <= BodyKept THEN "list" ELSE "text"

\* The snapshot directories, the log of the attempt and the whole log of the
\* previous container; each of the three is empty when kubectl fails.
ReadEvidence ==
    /\ pc = "evidence" /\ pc' = "judge"
    /\ clean' \in BOOLEAN
    /\ ~clean' => Recent(corruptLog) # {} \/ dir[Target[p]] = "metaonly"
    /\ busy' \in BOOLEAN /\ (busy => busy') /\ (busy' => busy \/ prevBusy # {})
    /\ UNCHANGED <<store, p, logs, back, answer, verdict, history>>

\* The verdict; the attempt returns, and most of what it has read is gone.
Conclude(ok) ==
    /\ pc = "judge" /\ pc' = "start"
    /\ verdict' = [verdict EXCEPT ![p] =
          IF ~busy THEN "INCONCLUSIVE" ELSE IF ok THEN "PASS" ELSE "FAIL"]
    /\ sound' = IF clean /\ back /\ answer = "normal" THEN sound \cup {p} ELSE sound
    /\ back' = FALSE /\ clean' = FALSE /\ answer' = "none"
    /\ UNCHANGED <<store, p, logs, busy, fired, hit, restarted>>

\* Mutant: the state of the partition is reported and not looked at.
Judge_NoState == Conclude(clean /\ back)

Judge == Conclude(clean /\ back /\ partition_state(answer) = "list")

\* kubectl raises on an error (pod_ip, signal_java, wait_ready) or a timeout.
Abort ==
    /\ pc # "judge" /\ ~Over
    /\ pc' = "aborted" /\ busy' = FALSE /\ back' = FALSE /\ clean' = FALSE /\ answer' = "none"
    /\ UNCHANGED <<store, p, logs, verdict, history>>

----------------------------------------------------------------------------
(* The Store and the kubelet. *)

CompactionEnds(q) ==
    /\ q \in compacting /\ compacting' = compacting \ {q}
    /\ UNCHANGED <<fixed, jvm, ready, requested, dir, broken, pc, p, logs, read,
                   verdict, history>>

\* A snapshot that meets a compaction: refused with a line in the log, or
\* written without data.
Meet(q) ==
    /\ q \in compacting
    /\ fired' = IF q = Target[p] THEN fired \cup {p} ELSE fired
    /\ \/ fixed /\ busyLog' = busyLog \cup {p} /\ UNCHANGED dir
       \/ ~fixed /\ dir' = [dir EXCEPT ![q] = "metaonly"] /\ UNCHANGED busyLog

TakeSnapshot(q) ==
    /\ q \in requested /\ requested' = requested \ {q}
    /\ \/ /\ q \notin compacting /\ dir' = [dir EXCEPT ![q] = "complete"]
          /\ UNCHANGED <<busyLog, fired>>
       \/ Meet(q)
    /\ UNCHANGED <<fixed, jvm, ready, compacting, broken, pc, p, prevBusy, corruptLog,
                   read, verdict, hit, restarted, sound>>

\* A JVM that runs out of memory (docs/store-memory-preset.md).
Crash ==
    /\ jvm = "up" /\ jvm' = "dead" /\ compacting' = {} /\ requested' = {}
    /\ UNCHANGED <<fixed, ready, dir, broken, pc, p, logs, read, verdict, history>>

\* The dead container becomes the previous one.
Notice ==
    /\ jvm = "dead" /\ jvm' = "waiting" /\ ready' = FALSE
    /\ prevBusy' = busyLog /\ busyLog' = {} /\ corruptLog' = {}
    /\ UNCHANGED <<fixed, compacting, requested, dir, broken, pc, p, read, verdict, history>>

\* A new JVM loads the snapshots.
Restart ==
    /\ jvm = "waiting" /\ jvm' = "up"
    /\ broken' = MetaOnly(dir)
    /\ corruptLog' = IF fixed /\ broken' # {} THEN {p} ELSE {}
    /\ restarted' = restarted \cup hit
    /\ UNCHANGED <<fixed, ready, compacting, requested, dir, pc, p, busyLog, prevBusy,
                   read, verdict, fired, hit, sound>>

BecomeReady ==
    /\ jvm = "up" /\ ~ready /\ ready' = TRUE
    /\ UNCHANGED <<fixed, jvm, compacting, requested, dir, broken, pc, p, logs, read,
                   verdict, history>>

----------------------------------------------------------------------------
Script == \/ Compact \/ RequestSnapshot \/ ReadPreKill \/ Kill
          \/ WaitReady \/ ReadState \/ ReadEvidence \/ Judge \/ Abort
Environment == \/ \E q \in Partitions : CompactionEnds(q) \/ TakeSnapshot(q)
               \/ Crash \/ Notice \/ Restart \/ BecomeReady

Next == Script \/ (~Over /\ Environment)

Spec == Init /\ [][Next]_vars

----------------------------------------------------------------------------
Flags ==
    /\ fixed \in BOOLEAN /\ ready \in BOOLEAN
    /\ busy \in BOOLEAN /\ back \in BOOLEAN /\ clean \in BOOLEAN

Ranges ==
    /\ p \in 0..Attempts
    /\ pc \in {"start", "compacting", "requested", "kill", "wait", "state", "evidence",
              "judge", "aborted"}
    /\ p = 0 => pc \in {"start", "aborted"} /\ requested = {} /\ compacting = {}
    /\ jvm \in {"up", "dead", "waiting"}
    /\ compacting \subseteq Partitions /\ requested \subseteq Partitions
    /\ dir \in [Partitions -> {"none", "complete", "metaonly"}] /\ broken \subseteq Partitions
    /\ busyLog \subseteq 0..p /\ prevBusy \subseteq 0..p /\ corruptLog \subseteq 0..p
    /\ verdict \in [Tries -> {"none", "PASS", "FAIL", "INCONCLUSIVE"}]
    /\ answer \in {"none", "normal", "other"}
    /\ fired \subseteq 1..p /\ hit \subseteq 1..p /\ restarted \subseteq hit /\ sound \subseteq 1..p

TypeOK == Flags /\ Ranges

\* The report's race_fired.
RaceFired(q) == verdict[q] \in {"PASS", "FAIL"}

\* "The race is proven to have fired by the line ... between the compaction
\* start and the kill": not so, the whole log of the previous container counts.
EvidenceIsFresh == \A q \in Tries : RaceFired(q) => q \in fired

\* It is so when the signals of this attempt and of the one before met the JVM,
\* since the previous container then began after the one and ended with the other.
FreshEvidence ==
    \A q \in Tries : RaceFired(q) /\ {q - 1, q} \subseteq hit => q \in fired

\* Where the race happened and the JVM was killed, a FAIL is about something the
\* docstring lists: a directory without data, a corrupt snapshot in the log, a pod
\* that is not back, a partition that is not PState_Normal.  Not so: the Store's
\* answer is too long to be understood.
FailIsReal ==
    \A q \in Tries : verdict[q] = "FAIL" /\ q \in fired \cap hit => q \notin sound

\* A state_after that says PState_Normal is that of the JVM that came back, if
\* the signal met one, although wait_ready may have taken the word of the dead one.
StateIsOfNewJvm ==
    answer = "normal" /\ p \in hit => p \in restarted

\* What the attempt knows at each of its steps.
Looked == pc \in {"evidence", "judge", "start"}

LogSpan ==
    /\ p - 1 \in hit => compacting \subseteq {Target[p]}
    /\ \A t \in busyLog \cup prevBusy : t - 1 \in hit => t \in fired
    /\ \A q \in hit : q < p \/ Looked \/ jvm # "dead" => \A t \in busyLog : q < t
    /\ {p - 1, p} \subseteq hit /\ (Looked \/ jvm # "dead") => \A t \in prevBusy : p <= t
    /\ p \in hit => /\ requested = {} /\ compacting = {}
                    /\ pc \notin {"compacting", "requested", "kill"}
                    /\ jvm = "up" => p \in restarted
    /\ pc = "kill" /\ busy /\ p - 1 \in hit => p \in fired
    /\ pc \in {"wait", "state", "evidence", "judge"} /\ busy /\ {p - 1, p} \subseteq hit =>
          p \in fired

\* A Store without the fix writes no line and is never judged; an answer that is
\* cut lets nothing pass, and one that is not would let all that is sound pass.
Judged ==
    /\ ~fixed => busyLog = {} /\ prevBusy = {}
    /\ ~fixed /\ pc \notin {"start", "compacting", "requested", "aborted"} => ~busy
    /\ \A q \in Tries : RaceFired(q) => fixed
    /\ \A q \in Tries : verdict[q] # "none" => q <= p /\ (q = p => Looked \/ pc = "aborted")
    /\ answer # "none" => pc \in {"evidence", "judge"}
    /\ p \in sound => pc \in {"start", "aborted"}
    /\ IF NormalLength > BodyKept THEN \A q \in Tries : verdict[q] # "PASS"
                                  ELSE \A q \in sound : verdict[q] # "FAIL"

EvidenceInv == TypeOK /\ LogSpan /\ Judged /\ FreshEvidence /\ StateIsOfNewJvm
=============================================================================
