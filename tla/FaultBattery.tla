---------------------------- MODULE FaultBattery ----------------------------
(***************************************************************************)
(* The four scenarios of cluster/k3s_faults.py that hurt a pod under load: *)
(* store-crash, store-stall, pd-restart and pd-freeze.  Every scenario is  *)
(* a process of its own that reads oracle.json, picks a victim, starts the *)
(* load thread, injects the fault, waits, stops and joins the load, saves  *)
(* the acknowledged writes, reads everything back and gives a verdict.     *)
(*                                                                         *)
(* Three actors run against each other: the scenario (main thread), the    *)
(* load thread, and the cluster under test, which restarts pods, moves the *)
(* PD leadership and may lose what it acknowledged.  A batch of 20 writes  *)
(* is one element <<scenario, n>>, the part of the vertex names that       *)
(* tells batches apart.                                                    *)
(***************************************************************************)
EXTENDS Integers

CONSTANTS
    Stores, PDs,    \* the pods of the two roles
    NoPod,          \* "no PD leader"
    MaxRuns,        \* bound: scenarios run one after the other
    MaxBatches      \* bound: batches the load writes in one run

ASSUME PodsAssumption   == Stores \cap PDs = {} /\ NoPod \notin Stores \cup PDs
ASSUME BoundsAssumption == MaxRuns \in Nat /\ MaxBatches \in Nat

Crash     == {"store-crash", "pd-restart"}
Freeze    == {"store-stall", "pd-freeze"}
OnPD      == {"pd-restart", "pd-freeze"}
Scenarios == Crash \cup Freeze

Pods    == Stores \cup PDs
Batches == Scenarios \X (1..MaxBatches)
Role(s) == IF s \in OnPD THEN PDs ELSE Stores

VARIABLES
    \* the cluster
    uid,        \* uid of each pod
    phase,      \* "absent", "starting", "ready" or "frozen"
    leader,     \* the PD leader
    stored,     \* batches that can be read
    \* oracle.json
    disk,       \* its acked writes
    torn,       \* truncated and not written yet
    \* the scenario process
    pc, runs, scenario, victim,
    before,     \* uid of the victim before the fault
    state,      \* /proc state read right after SIGSTOP
    newLeader,  \* t_new is set
    back,       \* wait_ready did not give up
    landed, schemaSeen,
    memory,     \* oracle["acked"]
    found, bad, \* what verify read back; a base vertex that did not match
    verdict,
    \* the load thread
    lpc, stop, n, acked,
    \* history
    hit,        \* what the fault of this run met: "nothing", "pod" or "leader"
    promised    \* batches acknowledged in runs that gave a verdict

cluster  == <<uid, phase, leader, stored>>
file     == <<disk, torn>>
evidence == <<before, state, newLeader, back, landed, schemaSeen>>
judged   == <<found, bad, verdict>>
load     == <<lpc, stop, n, acked>>
history  == <<hit, promised>>
run      == <<runs, scenario, victim>>
vars     == <<cluster, file, pc, run, evidence, memory, judged, load, history>>

\* After setup: data loaded, oracle.json written, nothing acknowledged.
Init ==
    /\ uid = [p \in Pods |-> 0] /\ phase = [p \in Pods |-> "ready"]
    /\ leader \in PDs /\ stored = {}
    /\ disk = {} /\ torn = FALSE
    /\ pc = "idle" /\ runs = 0 /\ scenario \in Scenarios /\ victim = NoPod
    /\ before = 0 /\ state = "?" /\ newLeader = FALSE /\ back = FALSE
    /\ landed = FALSE /\ schemaSeen = FALSE
    /\ memory = {} /\ found = {} /\ bad = FALSE /\ verdict = "none"
    /\ lpc = "none" /\ stop = FALSE /\ n = 0 /\ acked = {}
    /\ hit = "nothing" /\ promised = {}

----------------------------------------------------------------------------
(* The scenario.                                                           *)

\* main: a new process reads oracle.json; a torn file stops it right there.
Start(s) ==
    /\ pc = "idle" /\ ~torn /\ runs < MaxRuns
    /\ pc' = "choose" /\ runs' = runs + 1 /\ scenario' = s /\ victim' = NoPod
    /\ memory' = disk
    /\ before' = 0 /\ state' = "?" /\ newLeader' = FALSE /\ back' = FALSE
    /\ landed' = FALSE /\ schemaSeen' = FALSE
    /\ found' = {} /\ bad' = FALSE /\ verdict' = "none"
    /\ lpc' = "none" /\ stop' = FALSE /\ n' = 0 /\ acked' = {}
    /\ hit' = "nothing"
    /\ UNCHANGED <<cluster, file, promised>>

\* pd_leader(): the members are asked one by one, and the first that answers
\* names the leader; a frozen JVM does not answer.
PdLeader == IF \E p \in PDs : phase[p] \in {"starting", "ready"} THEN leader ELSE NoPod

\* pd_leader() found no leader.
NoLeader ==
    /\ pc = "choose" /\ scenario \in OnPD
    /\ pc' = "idle" /\ verdict' = "INCONCLUSIVE"
    /\ UNCHANGED <<cluster, file, run, evidence, memory, found, bad, load, history>>

\* The victim is the busiest store (any store here: which store leads most
\* partitions is the cluster's business) or the PD leader of this moment.
\* Its uid is noted and the load starts; the fault comes 20 s later.
ChooseVictim(p) ==
    /\ pc = "choose" /\ p \in Role(scenario)
    /\ scenario \in OnPD => p = PdLeader
    /\ phase[p] # "absent"
    /\ pc' = "load" /\ victim' = p /\ before' = uid[p]
    /\ lpc' = "check"
    /\ UNCHANGED <<cluster, file, runs, scenario, state, newLeader, back, landed,
                   schemaSeen, memory, judged, stop, n, acked, history>>

Met == IF victim = leader THEN "leader" ELSE "pod"

\* kubectl delete pod --force.
DeletePod ==
    /\ pc = "load" /\ scenario \in Crash /\ phase[victim] # "absent"
    /\ phase' = [phase EXCEPT ![victim] = "absent"]
    /\ hit' = Met
    /\ pc' = IF scenario = "pd-restart" THEN "observe" ELSE "recover"
    /\ UNCHANGED <<uid, leader, stored, file, run, evidence, memory, judged, load, promised>>

\* SIGSTOP the JVM and read its /proc state.  The kernel may ignore the
\* signal (a JVM that is pid 1), and the read may fail (check=False).
StopJvm ==
    /\ pc = "load" /\ scenario \in Freeze /\ phase[victim] # "absent"
    /\ \/ /\ phase' = [phase EXCEPT ![victim] = "frozen"]
          /\ state' \in {"T", "?"}
          /\ hit' = Met
       \/ state' \in {"S", "?"} /\ UNCHANGED <<phase, hit>>
    /\ pc' = "observe"
    /\ UNCHANGED <<uid, leader, stored, file, run, before, newLeader, back, landed,
                   schemaSeen, memory, judged, load, promised>>

\* A poll of pd_leader() names another pod than the victim.
SeeNewLeader ==
    /\ pc = "observe" /\ scenario \in OnPD /\ ~newLeader
    /\ PdLeader \notin {NoPod, victim}
    /\ newLeader' = TRUE
    /\ pc' = IF scenario = "pd-restart" THEN "recover" ELSE pc
    /\ UNCHANGED <<cluster, file, run, before, state, back, landed, schemaSeen,
                   memory, judged, load, history>>

\* 120 polls and no new leader.
GiveUpLeader ==
    /\ pc = "observe" /\ scenario = "pd-restart"
    /\ pc' = "recover"
    /\ UNCHANGED <<cluster, file, run, evidence, memory, judged, load, history>>

\* SIGCONT after STALL_S or FREEZE_S.  When the liveness probe has restarted
\* the container the pid is the new JVM's and the signal changes nothing.
ResumeJvm ==
    /\ pc = "observe" /\ scenario \in Freeze /\ phase[victim] # "absent"
    /\ phase' = [phase EXCEPT ![victim] = IF @ = "frozen" THEN "ready" ELSE @]
    /\ pc' = "recover"
    /\ UNCHANGED <<uid, leader, stored, file, run, evidence, memory, judged, load, history>>

AllReady == \A p \in Role(scenario) : phase[p] \in {"ready", "frozen"}

\* wait_ready (crash scenarios) or a fixed pause, then ld.stop.set().
StopLoad ==
    /\ pc = "recover"
    /\ back' \in IF scenario \in Crash /\ AllReady THEN BOOLEAN ELSE {FALSE}
    /\ stop' = TRUE
    /\ pc' = "join"
    /\ UNCHANGED <<cluster, file, run, before, state, newLeader, landed, schemaSeen,
                   memory, judged, lpc, n, acked, history>>

\* Mutant: join with a timeout that runs out.
Join_Timeout ==
    /\ pc = "join"
    /\ pc' = "after"
    /\ UNCHANGED <<cluster, file, run, evidence, memory, judged, load, history>>

\* ld.join(), without a timeout.
Join ==
    /\ pc = "join" /\ lpc \in {"ended", "died"}
    /\ pc' = "after"
    /\ UNCHANGED <<cluster, file, run, evidence, memory, judged, load, history>>

\* Mutant: the freeze scenarios take the fault for granted.
Landed_Assumed == scenario \in Crash => uid[victim] # before

\* Proof that the fault landed.
Landed == /\ scenario \in Crash => uid[victim] # before
          /\ scenario \in Freeze => state = "T"

\* The victim as it is now, and for pd-restart the schema round over the
\* servers (a server that answers late or not at all counts as not seen).
ReadAfter ==
    /\ pc = "after" /\ phase[victim] # "absent"
    /\ landed' = Landed
    /\ schemaSeen' \in IF scenario = "pd-restart" THEN BOOLEAN ELSE {FALSE}
    /\ pc' = "save"
    /\ UNCHANGED <<cluster, file, run, before, state, newLeader, back, memory,
                   judged, load, history>>

\* Mutant: the oracle of this run replaces what earlier runs acknowledged.
Truncate_Forgetful ==
    /\ pc = "save"
    /\ memory' = acked
    /\ disk' = {} /\ torn' = TRUE
    /\ pc' = "dump"
    /\ UNCHANGED <<cluster, run, evidence, judged, load, history>>

\* oracle["acked"].update(ld.acked); open(oracle.json, "w") empties the file.
Truncate ==
    /\ pc = "save"
    /\ memory' = memory \cup acked
    /\ disk' = {} /\ torn' = TRUE
    /\ pc' = "dump"
    /\ UNCHANGED <<cluster, run, evidence, judged, load, history>>

\* json.dump.
Dump ==
    /\ pc = "dump"
    /\ disk' = memory /\ torn' = FALSE
    /\ pc' = "verify"
    /\ UNCHANGED <<cluster, run, evidence, memory, judged, load, history>>

\* verify: a batch that is stored may still not be readable (a request that
\* fails counts as lost); a sample of the base data may or may not match.
Verify ==
    /\ pc = "verify"
    /\ found' \in SUBSET (memory \cap stored)
    /\ bad' \in BOOLEAN
    /\ pc' = "judge"
    /\ UNCHANGED <<cluster, file, run, evidence, memory, verdict, load, history>>

\* Mutant: mismatches of the sample decide, lost writes are only reported.
Healthy_NoLost ==
    /\ ~bad
    /\ scenario = "store-crash" => back
    /\ scenario \in OnPD        => newLeader
    /\ scenario = "pd-restart"  => schemaSeen

\* What a scenario asks for besides the fault having landed.
Healthy ==
    /\ ~bad /\ memory \ found = {}
    /\ scenario = "store-crash" => back
    /\ scenario \in OnPD        => newLeader
    /\ scenario = "pd-restart"  => schemaSeen

Judge ==
    /\ pc = "judge"
    /\ verdict' = IF ~landed THEN "INCONCLUSIVE" ELSE IF Healthy THEN "PASS" ELSE "FAIL"
    /\ promised' = promised \cup acked
    /\ pc' = "idle"
    /\ UNCHANGED <<cluster, file, run, evidence, memory, found, bad, load, hit>>

\* An exception of the main thread ends the process and its daemon thread.
EndProcess ==
    /\ pc' = "idle" /\ lpc' = "none"
    /\ UNCHANGED <<cluster, file, run, evidence, memory, judged, stop, n, acked, history>>

\* kubectl on a pod that is not there, or pods(...)[victim].
VictimGone ==
    /\ \/ /\ pc = "choose"
          /\ \E p \in Role(scenario) : /\ phase[p] = "absent"
                                       /\ scenario \in OnPD => p = PdLeader
       \/ pc \in {"load", "observe", "after"} /\ phase[victim] = "absent"
    /\ EndProcess

\* Any kubectl that fails (check=True) or times out, a body that is not JSON,
\* Ctrl-C, a lost terminal.
Abort == pc # "idle" /\ EndProcess

----------------------------------------------------------------------------
(* The load thread.                                                        *)

Batch == <<scenario, n>>

\* Mutant: the flag is looked at once, before the loop.
Iterate_Endless ==
    /\ lpc = "check"
    /\ lpc' = "write" /\ n' = IF n < MaxBatches THEN n + 1 ELSE n
    /\ UNCHANGED <<cluster, file, pc, run, evidence, memory, judged, stop, acked, history>>

\* Head of the loop: stop, or the next batch (at the bound, wait for stop).
Iterate ==
    /\ lpc = "check"
    /\ \/ stop /\ lpc' = "ended" /\ UNCHANGED n
       \/ ~stop /\ n < MaxBatches /\ lpc' = "write" /\ n' = n + 1
    /\ UNCHANGED <<cluster, file, pc, run, evidence, memory, judged, stop, acked, history>>

\* HTTP 201.
WriteAcknowledged ==
    /\ lpc = "write"
    /\ lpc' = "read"
    /\ stored' = stored \cup {Batch}
    /\ acked' = acked \cup {Batch}
    /\ UNCHANGED <<uid, phase, leader, file, pc, run, evidence, memory, judged,
                   stop, n, hit, promised>>

\* Another status, or a timeout (status 0): the batch may be stored all the
\* same.  An error body that cannot be read raises and the thread dies.
WriteFailed ==
    /\ lpc = "write"
    /\ lpc' \in {"read", "died"}
    /\ stored' \in {stored, stored \cup {Batch}}
    /\ UNCHANGED <<uid, phase, leader, file, pc, run, evidence, memory, judged,
                   stop, n, acked, history>>

\* The reader's turn, and 0.2 s; a 200 whose body has no "edges" raises.
ReadVertex ==
    /\ lpc = "read"
    /\ lpc' \in {"check", "died"}
    /\ UNCHANGED <<cluster, file, pc, run, evidence, memory, judged, stop, n, acked, history>>

----------------------------------------------------------------------------
(* The cluster.                                                            *)

ClusterStep(step) ==
    /\ step
    /\ UNCHANGED <<file, pc, run, evidence, memory, judged, load, history>>

\* A deleted pod is created again under a new uid.
CreatePod(p) ==
    ClusterStep(/\ phase[p] = "absent"
                /\ phase' = [phase EXCEPT ![p] = "starting"]
                /\ uid' = [uid EXCEPT ![p] = @ + 1]
                /\ UNCHANGED <<leader, stored>>)

PodReady(p) ==
    ClusterStep(/\ phase[p] = "starting"
                /\ phase' = [phase EXCEPT ![p] = "ready"]
                /\ UNCHANGED <<uid, leader, stored>>)

\* The liveness probe restarts a frozen container; the pod keeps its uid.
LivenessKill(p) ==
    ClusterStep(/\ phase[p] = "frozen"
                /\ phase' = [phase EXCEPT ![p] = "starting"]
                /\ UNCHANGED <<uid, leader, stored>>)

\* The PD leadership moves, or is lost for a while.
Elect ==
    ClusterStep(/\ leader' \in {NoPod} \cup {p \in PDs : phase[p] = "ready"}
                /\ leader' # leader
                /\ UNCHANGED <<uid, phase, stored>>)

\* The system under test loses a batch.
LoseBatch ==
    ClusterStep(/\ \E b \in stored : stored' = stored \ {b}
                /\ UNCHANGED <<uid, phase, leader>>)

----------------------------------------------------------------------------
ScenarioStep ==
    \/ NoLeader \/ (\E p \in Pods : ChooseVictim(p))
    \/ DeletePod \/ StopJvm \/ SeeNewLeader \/ GiveUpLeader \/ ResumeJvm
    \/ StopLoad \/ Join \/ ReadAfter \/ Truncate \/ Dump \/ Verify \/ Judge
    \/ VictimGone

LoadStep == Iterate \/ WriteAcknowledged \/ WriteFailed \/ ReadVertex

ClusterMove ==
    \/ \E p \in Pods : CreatePod(p) \/ PodReady(p) \/ LivenessKill(p)
    \/ Elect \/ LoseBatch

Next ==
    \/ \E s \in Scenarios : Start(s)
    \/ ScenarioStep \/ Abort \/ LoadStep \/ ClusterMove

Spec == Init /\ [][Next]_vars

\* Sleeps, polls and requests all end: every request carries a timeout.
FairSpec == Spec /\ WF_vars(ScenarioStep) /\ WF_vars(LoadStep)

----------------------------------------------------------------------------
TypeOK ==
    /\ uid \in [Pods -> Nat]
    /\ phase \in [Pods -> {"absent", "starting", "ready", "frozen"}]
    /\ leader \in PDs \cup {NoPod} /\ stored \subseteq Batches
    /\ disk \subseteq Batches /\ torn \in BOOLEAN
    /\ pc \in {"idle", "choose", "load", "observe", "recover", "join", "after",
               "save", "dump", "verify", "judge"}
    /\ runs \in 0..MaxRuns /\ scenario \in Scenarios
    /\ victim \in Role(scenario) \cup {NoPod}
    /\ pc \notin {"idle", "choose"} => victim # NoPod
    /\ before \in Nat /\ state \in {"T", "S", "?"}
    /\ newLeader \in BOOLEAN /\ back \in BOOLEAN
    /\ landed \in BOOLEAN /\ schemaSeen \in BOOLEAN
    /\ memory \subseteq Batches /\ found \subseteq Batches /\ bad \in BOOLEAN
    /\ verdict \in {"none", "PASS", "FAIL", "INCONCLUSIVE"}
    /\ lpc \in {"none", "check", "write", "read", "ended", "died"}
    /\ stop \in BOOLEAN /\ n \in 0..MaxBatches
    /\ lpc \in {"write", "read"} => n >= 1
    /\ acked \subseteq Batches
    /\ hit \in {"nothing", "pod", "leader"}
    /\ promised \subseteq Batches

\* A PASS is earned: the fault did meet the victim, and every batch
\* acknowledged in this run, or in an earlier run that came to a verdict,
\* was read back after the fault.
PassIsEarned ==
    verdict = "PASS" => hit # "nothing" /\ promised \subseteq found

\* Between runs the file holds every batch acknowledged in a run that came to
\* a verdict, unless a run was killed while it was writing the file.
OracleComplete == pc = "idle" /\ ~torn => promised \subseteq disk

Joined == pc \in {"after", "save", "dump", "verify", "judge"}

\* The battery keeps the books of AckLedger without any slack: what it reads
\* back, and what it saves in oracle.json for the next process, is all that was
\* acknowledged, since nothing is after the join; and no later run forgets it.
Ledger == INSTANCE AckLedger WITH
    Slack   <- 0,
    stage   <- IF pc = "idle" THEN "idle" ELSE IF Joined THEN "closed" ELSE "writing",
    entered <- acked,
    late    <- {},
    owed    <- promised,
    clean   <- verdict = "PASS"
LedgerSpec == Ledger!Spec

\* Every scenario comes to its end, whatever the cluster does, because the
\* join waits for a load thread whose requests all end.
RunEnds == pc # "idle" ~> pc = "idle"

\* A claim the battery does not keep: "delete the PD leader pod under load",
\* "SIGSTOP the PD leader JVM".
LeaderWasHit == verdict = "PASS" /\ scenario \in OnPD => hit = "leader"

----------------------------------------------------------------------------
\* Why a PASS is earned: what each stage of a run knows.
FaultStage ==
    /\ pc \in {"choose", "load"} => state = "?" /\ ~landed
    /\ Joined => lpc \in {"ended", "died"}
    /\ pc \in {"idle", "choose"} => lpc \in {"none", "ended", "died"}
    /\ state = "T" => hit # "nothing"
    /\ pc \notin {"idle", "choose", "load"} /\ scenario \in Crash => hit # "nothing"
    /\ landed => hit # "nothing"

LedgerStage ==
    /\ pc \in {"dump", "verify", "judge"} => promised \cup acked \subseteq memory
    /\ pc \in {"verify", "judge"} => acked \subseteq disk
    /\ ~torn => promised \subseteq disk
    /\ pc \notin {"idle", "dump"} => ~torn
    /\ pc # "idle" => promised \subseteq memory
    /\ pc # "idle" => verdict = "none"

BatteryInv == TypeOK /\ FaultStage /\ LedgerStage /\ PassIsEarned
=============================================================================
