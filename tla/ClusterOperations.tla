------------------------- MODULE ClusterOperations -------------------------
(***************************************************************************)
(* Three programs that do to a cluster what an operator would, and report  *)
(* what became of it:                                                      *)
(*   cluster/k3s_rolling_upgrade.py upgrades Store, PD and Server one after*)
(*     the other under the load of k3s_faults.py, and then checks that     *)
(*     what was acknowledged is still there;                               *)
(*   cold_start of cluster/k3s_faults.py starts new Servers while there    *)
(*     are no Stores;                                                      *)
(*   cluster/k3s_pd_disk_full.py fills the disk of the only PD, frees it,  *)
(*     and restarts the PD if its sampler has last seen it not ready.      *)
(*                                                                         *)
(* A pod of a workload has a slot: the "old" pod, "both" it and a new one, *)
(* none ("gone"), the new one "coming" up or in service ("new").  A batch  *)
(* of twenty vertices is a number; 0 is what earlier scenarios wrote.      *)
(***************************************************************************)
EXTENDS Integers, Sequences, FiniteSets

CONSTANTS Slots,        \* replicas of each workload
          MaxBatches    \* bound on the batches of the load

ASSUME RolloutAssumption == IsFiniteSet(Slots) /\ MaxBatches \in Nat

Order     == <<"store", "pd", "server">>
Workloads == {"store", "pd", "server"}

VARIABLES
    program,    \* "upgrade", "cold-start" or "disk-full"
    pc, step,   \* place in it; the workload that is upgraded, as index of Order
    pod, rolling, storesWanted,   \* slots; workloads with a new template; replicas > 0
    bornCold, crashed,            \* new Servers: created without a Store; restarted
    stored,     \* batches the database holds
    load, stop, n, acked,         \* the load thread
    sampling, asked, last,        \* the sampler, the row it is taking, its last row
    mem, file,  \* acknowledged batches: of the process, of oracle.json
    joined, readback,             \* the load had ended; batches verify found
    seenGone, mid, after, srv,    \* locals of cold_start
    disk, pdReady, sinceFree,     \* the PD; history: its states since the disk was freed
    restarted, basis,             \* locals of disk-full: decision, and the row it took
    verdict

cluster == <<pod, rolling, storesWanted, bornCold, crashed>>
loader  == <<load, stop, n, acked>>
sampler == <<sampling, asked, last>>
books   == <<mem, file, joined, readback>>
locals  == <<seenGone, mid, after, srv>>
pd      == <<disk, pdReady, sinceFree, restarted, basis>>
vars == <<program, pc, step, cluster, stored, loader, sampler, books, locals, pd, verdict>>

\* A row of the sampler: begun after the disk was freed; pd_ready_http is 200.
Rows  == [fresh : BOOLEAN, ok : BOOLEAN]
NoRow == [fresh |-> FALSE, ok |-> FALSE, none |-> TRUE]

Init ==
    /\ program \in {"upgrade", "cold-start", "disk-full"} /\ pc = "begin" /\ step = 1
    /\ pod = [w \in Workloads |-> [s \in Slots |-> "old"]]
    /\ rolling = {} /\ storesWanted = TRUE
    /\ bornCold = {} /\ crashed = {} /\ stored = {0}
    /\ load = "none" /\ stop = FALSE /\ n = 0 /\ acked = {}
    /\ sampling = "off" /\ asked = FALSE /\ last = NoRow
    /\ mem = {0} /\ file = {0} /\ joined = FALSE /\ readback = {}
    /\ seenGone = FALSE /\ mid = {} /\ srv = FALSE
    /\ after = [new |-> {}, restarted |-> {}]
    /\ disk = "free" /\ pdReady = TRUE /\ sinceFree = {}
    /\ restarted = FALSE /\ basis = NoRow
    /\ verdict = "none"

Settled(w) == \A s \in Slots : pod[w][s] \in {"old", "new"}

----------------------------------------------------------------------------
(* k3s_rolling_upgrade.py, main *)

Begin ==
    /\ program = "upgrade" /\ pc = "begin" /\ pc' = "helm"
    /\ load' = "top" /\ sampling' = "idle"
    /\ UNCHANGED <<program, step, cluster, stored, stop, n, acked, asked, last, books, locals,
                   pd, verdict>>

\* helm upgrade without --wait: the workload gets a new template.
Helm ==
    /\ pc = "helm" /\ pc' = "status"
    /\ rolling' = rolling \cup {Order[step]}
    /\ UNCHANGED <<program, step, pod, storesWanted, bornCold, crashed, stored, loader, sampler,
                   books, locals, pd, verdict>>

NextStep ==
    /\ pc' = IF step < Len(Order) THEN "helm" ELSE "stop"
    /\ step' = IF step < Len(Order) THEN step + 1 ELSE step
    /\ UNCHANGED <<program, cluster, stored, loader, sampler, books, locals, pd, verdict>>

\* Mutant: the status is looked at once and not waited for.
RolledOut_Once == pc = "status" /\ NextStep

\* kubectl rollout status: every replica is updated and ready.
RolledOut ==
    /\ pc = "status" /\ \A s \in Slots : pod[Order[step]][s] = "new"
    /\ NextStep

StopLoad ==
    /\ pc = "stop" /\ pc' = "join" /\ stop' = TRUE
    /\ UNCHANGED <<program, step, cluster, stored, load, n, acked, sampler, books, locals, pd,
                   verdict>>

\* Mutant: the acknowledgements are taken before the load is told to stop.
JoinLoad_Unstopped ==
    /\ pc \in {"stop", "join"} /\ pc' = "save"
    /\ joined' = (load \in {"ended", "died"})
    /\ UNCHANGED <<program, step, cluster, stored, loader, sampler, mem, file, readback, locals,
                   pd, verdict>>

\* The join ends with the thread or after 150 seconds.
JoinLoad ==
    /\ pc = "join" /\ pc' = "save"
    /\ joined' = (load \in {"ended", "died"})
    /\ UNCHANGED <<program, step, cluster, stored, loader, sampler, mem, file, readback, locals,
                   pd, verdict>>

\* Mutant: the oracle of this run replaces what earlier runs acknowledged.
Save_Forgetful ==
    /\ pc = "save" /\ pc' = "dump"
    /\ mem' = acked /\ file' = {}
    /\ UNCHANGED <<program, step, cluster, stored, loader, sampler, joined, readback, locals,
                   pd, verdict>>

\* oracle["acked"].update, and open(..., "w") empties the file.
Save ==
    /\ pc = "save" /\ pc' = "dump"
    /\ mem' = mem \cup acked /\ file' = {}
    /\ UNCHANGED <<program, step, cluster, stored, loader, sampler, joined, readback, locals,
                   pd, verdict>>

\* json.dump; finish waits for the sampler for at most 15 seconds.
Dump ==
    /\ pc = "dump" /\ pc' = "verify"
    /\ file' = mem
    /\ UNCHANGED <<program, step, cluster, stored, loader, sampler, mem, joined, readback,
                   locals, pd, verdict>>

\* verify, of both programs: what is owed is read one by one.
Verify ==
    /\ pc = "verify" /\ pc' = "judge"
    /\ readback' = mem \cap stored
    /\ UNCHANGED <<program, step, cluster, stored, loader, sampler, mem, file, joined, locals,
                   pd, verdict>>

\* A summary states acked_lost and no verdict.
Report ==
    /\ pc = "judge" /\ pc' = "done"
    /\ verdict' = IF mem \subseteq readback THEN "none-lost" ELSE "lost"
    /\ UNCHANGED <<program, step, cluster, stored, loader, sampler, books, locals, pd>>

\* min() of no rows raises.
Summarise == program = "upgrade" /\ last # NoRow /\ Report

\* helm, kubectl and a rollout that is not over in 15 minutes raise.
Abort ==
    /\ pc \notin {"done", "aborted"} /\ pc' = "aborted"
    /\ UNCHANGED <<program, step, cluster, stored, loader, sampler, books, locals, pd, verdict>>

----------------------------------------------------------------------------
(* The threads beside it *)

\* The sampler takes a row in two steps, its time and then its answers.
BeginRow ==
    /\ sampling = "idle" /\ sampling' = "asking"
    /\ asked' = (pc = "freed")
    /\ UNCHANGED <<program, pc, step, cluster, stored, loader, last, books, locals, pd,
                   verdict>>

\* A PD that is not reached (its ip not listed, since kubectl is called with
\* check=False, or no answer in 4 seconds) is recorded as 0, like one not ready.
EndRow ==
    /\ sampling = "asking" /\ sampling' = "idle"
    /\ \E ok \in {pdReady, FALSE} : last' = [fresh |-> asked, ok |-> ok]
    /\ UNCHANGED <<program, pc, step, cluster, stored, loader, asked, books, locals, pd,
                   verdict>>

\* Nothing catches what the sampler raises: in k3s_rolling_upgrade.py when a
\* kubectl fails, in k3s_pd_disk_full.py only when it takes more than 120 seconds.
SamplerDies ==
    /\ sampling = "asking" /\ sampling' = "dead"
    /\ UNCHANGED <<program, pc, step, cluster, stored, loader, asked, last, books, locals, pd,
                   verdict>>

Iterate ==
    /\ load = "top"
    /\ \/ stop /\ load' = "ended" /\ UNCHANGED n
       \/ ~stop /\ n < MaxBatches /\ load' = "writing" /\ n' = n + 1
    /\ UNCHANGED <<program, pc, step, cluster, stored, stop, acked, sampler, books, locals, pd,
                   verdict>>

Write(status) ==
    /\ load = "writing"
    /\ load' \in {"top", "died"}
    /\ acked' = IF status = 201 THEN acked \cup {n} ELSE acked
    /\ stored' \in IF status = 201 THEN {stored \cup {n}} ELSE {stored, stored \cup {n}}
    /\ UNCHANGED <<program, pc, step, cluster, stop, n, sampler, books, locals, pd, verdict>>

----------------------------------------------------------------------------
(* cold_start *)

ScaleDown ==
    /\ program = "cold-start" /\ pc = "begin" /\ pc' = "gone"
    /\ storesWanted' = FALSE
    /\ UNCHANGED <<program, step, pod, rolling, bornCold, crashed, stored, loader, sampler,
                   books, locals, pd, verdict>>

\* No Store pod is listed, or 120 polls have passed; it goes on in silence.
StoresGone ==
    /\ pc = "gone" /\ pc' = "roll"
    /\ seenGone' \in {\A s \in Slots : pod["store"][s] = "gone", FALSE}
    /\ UNCHANGED <<program, step, cluster, stored, loader, sampler, books, mid, after, srv, pd,
                   verdict>>

\* Mutant: the Stores are scaled up before the wait of 150 seconds.
Roll_StoresBack ==
    /\ pc = "roll" /\ pc' = "mid"
    /\ rolling' = rolling \cup {"server"} /\ storesWanted' = TRUE
    /\ UNCHANGED <<program, step, pod, bornCold, crashed, stored, loader, sampler, books,
                   locals, pd, verdict>>

Roll ==
    /\ pc = "roll" /\ pc' = "mid"
    /\ rolling' = rolling \cup {"server"}
    /\ UNCHANGED <<program, step, pod, storesWanted, bornCold, crashed, stored, loader, sampler,
                   books, locals, pd, verdict>>

NewServers == {s \in Slots : pod["server"][s] \in {"both", "new"}}

\* The listing after 150 seconds.
LookMid ==
    /\ pc = "mid" /\ pc' = "up"
    /\ mid' = NewServers
    /\ UNCHANGED <<program, step, cluster, stored, loader, sampler, books, seenGone, after, srv,
                   pd, verdict>>

ScaleUp ==
    /\ pc = "up" /\ pc' = "ready"
    /\ storesWanted' = TRUE
    /\ UNCHANGED <<program, step, pod, rolling, bornCold, crashed, stored, loader, sampler,
                   books, locals, pd, verdict>>

\* wait_ready of the Stores, whose result is only reported, and of the Servers:
\* as many pods as replicas, all Ready.
ServersReady ==
    /\ pc = "ready" /\ pc' = "after"
    /\ srv' \in {Settled("server"), FALSE}
    /\ UNCHANGED <<program, step, cluster, stored, loader, sampler, books, seenGone, mid, after,
                   pd, verdict>>

\* The pods that were not there at the start, with their restarts.
ListAfter ==
    /\ pc = "after" /\ pc' = "verify"
    /\ after' = [new |-> NewServers, restarted |-> NewServers \cap crashed]
    /\ UNCHANGED <<program, step, cluster, stored, loader, sampler, books, seenGone, mid, srv,
                   pd, verdict>>

Judge ==
    /\ program = "cold-start" /\ pc = "judge" /\ pc' = "done"
    /\ verdict' = IF srv /\ after.restarted = {} /\ mem \subseteq readback
                  THEN "PASS" ELSE "FAIL"
    /\ UNCHANGED <<program, step, cluster, stored, loader, sampler, books, locals, pd>>

----------------------------------------------------------------------------
(* k3s_pd_disk_full.py, main.  Nobody looks at the answers of exec. *)

StartSampling ==
    /\ program = "disk-full" /\ pc = "begin" /\ pc' = "baseline"
    /\ sampling' = "idle"
    /\ UNCHANGED <<program, step, cluster, stored, loader, asked, last, books, locals, pd,
                   verdict>>

Fill ==
    /\ pc = "baseline" /\ pc' = "full"
    /\ disk' \in {"free", "full"}
    /\ UNCHANGED <<program, step, cluster, stored, loader, sampler, books, locals, pdReady,
                   sinceFree, restarted, basis, verdict>>

Free ==
    /\ pc = "full" /\ pc' = "freed"
    /\ disk' \in {"free", disk} /\ sinceFree' = {pdReady}
    /\ UNCHANGED <<program, step, cluster, stored, loader, sampler, books, locals, pdReady,
                   restarted, basis, verdict>>

Decide(row) ==
    /\ pc = "freed" /\ last # NoRow
    /\ basis' = row
    /\ restarted' = ~row.ok /\ pc' = IF row.ok THEN "verify" ELSE "restart"
    /\ UNCHANGED <<program, step, cluster, stored, loader, sampler, books, locals, disk,
                   pdReady, sinceFree, verdict>>

\* Mutant: /v1/health is looked at, which says 200 of a PD that is not ready.
DecideOnLast_Health == Decide([last EXCEPT !.ok = TRUE])

\* rows[-1], whenever it was taken; without rows it raises.
DecideOnLast == Decide(last)

\* The PD pod is deleted; the wait for it ends by itself.
RestartPd ==
    /\ pc = "restart" /\ pc' = "verify"
    /\ pdReady' = FALSE /\ sinceFree' = sinceFree \cup {FALSE}
    /\ UNCHANGED <<program, step, cluster, stored, loader, sampler, books, locals, disk,
                   restarted, basis, verdict>>

\* The logs of the PD, the counts of each phase (none of no rows) and what verify
\* found.
SummariseDisk == program = "disk-full" /\ Report

----------------------------------------------------------------------------
(* The cluster.  A StatefulSet replaces a pod by deleting it first, the    *)
(* Deployment by adding one, each pod when the others are in service.      *)

Put(w, s, state) == pod' = [pod EXCEPT ![w][s] = state]

Replace(w, s) ==
    /\ w \in rolling /\ pod[w][s] = "old" /\ Settled(w)
    /\ Put(w, s, IF w = "server" THEN "both" ELSE "gone")
    /\ bornCold' = IF w = "server" /\ \A t \in Slots : pod["store"][t] = "gone"
                   THEN bornCold \cup {s} ELSE bornCold
    /\ UNCHANGED <<program, pc, step, rolling, storesWanted, crashed, stored, loader, sampler,
                   books, locals, pd, verdict>>

\* Scaled down: the Stores go.
Remove(s) ==
    /\ ~storesWanted /\ pod["store"][s] # "gone" /\ Put("store", s, "gone")
    /\ UNCHANGED <<program, pc, step, rolling, storesWanted, bornCold, crashed, stored, loader,
                   sampler, books, locals, pd, verdict>>

Create(w, s) ==
    /\ pod[w][s] = "gone" /\ (w = "store" => storesWanted) /\ Put(w, s, "coming")
    /\ UNCHANGED <<program, pc, step, rolling, storesWanted, bornCold, crashed, stored, loader,
                   sampler, books, locals, pd, verdict>>

\* A new Server needs a Store to come up.
Serve(w, s) ==
    /\ pod[w][s] \in {"coming", "both"} /\ Put(w, s, "new")
    /\ w = "server" => \E t \in Slots : pod["store"][t] \in {"old", "new"}
    /\ UNCHANGED <<program, pc, step, rolling, storesWanted, bornCold, crashed, stored, loader,
                   sampler, books, locals, pd, verdict>>

RestartServer(s) ==
    /\ s \in NewServers /\ crashed' = crashed \cup {s}
    /\ UNCHANGED <<program, pc, step, pod, rolling, storesWanted, bornCold, stored, loader,
                   sampler, books, locals, pd, verdict>>

\* A PD may fail at any time; with a full disk it does not come back.
PdChanges ==
    /\ program = "disk-full" /\ (disk = "full" => pdReady)
    /\ pdReady' = ~pdReady
    /\ sinceFree' = IF sinceFree = {} THEN {} ELSE sinceFree \cup {~pdReady}
    /\ UNCHANGED <<program, pc, step, cluster, stored, loader, sampler, books, locals, disk,
                   restarted, basis, verdict>>

LoseBatch(b) ==
    /\ b \in stored /\ stored' = stored \ {b}
    /\ UNCHANGED <<program, pc, step, cluster, loader, sampler, books, locals, pd, verdict>>

----------------------------------------------------------------------------
Upgrade   == \/ Begin \/ Helm \/ RolledOut \/ StopLoad \/ JoinLoad \/ Save \/ Dump
             \/ Verify \/ Summarise \/ Abort
ColdStart == \/ ScaleDown \/ StoresGone \/ Roll \/ LookMid \/ ScaleUp \/ ServersReady
             \/ ListAfter \/ Judge
DiskFull  == StartSampling \/ Fill \/ Free \/ DecideOnLast \/ RestartPd \/ SummariseDisk
Threads   == BeginRow \/ EndRow \/ SamplerDies \/ Iterate \/ \E status \in {201, 0} : Write(status)
Cluster   == \/ \E w \in Workloads, s \in Slots : Replace(w, s) \/ Create(w, s) \/ Serve(w, s)
             \/ \E s \in Slots : Remove(s) \/ RestartServer(s)
             \/ PdChanges \/ \E b \in stored : LoseBatch(b)

Next == Upgrade \/ ColdStart \/ DiskFull \/ Threads \/ Cluster

Spec == Init /\ [][Next]_vars

----------------------------------------------------------------------------
TypeOK ==
    /\ program \in {"upgrade", "cold-start", "disk-full"} /\ step \in DOMAIN Order
    /\ pc \in {"begin", "helm", "status", "stop", "join", "save", "dump", "verify", "judge",
              "gone", "roll", "mid", "up", "ready", "after", "baseline", "full", "freed",
              "restart", "done", "aborted"}
    /\ pod \in [Workloads -> [Slots -> {"old", "both", "gone", "coming", "new"}]]
    /\ rolling \subseteq Workloads /\ storesWanted \in BOOLEAN
    /\ bornCold \subseteq Slots /\ crashed \subseteq Slots
    /\ load \in {"none", "top", "writing", "ended", "died"} /\ stop \in BOOLEAN
    /\ n \in 0..MaxBatches /\ acked \subseteq 1..n /\ stored \subseteq 0..n
    /\ sampling \in {"off", "idle", "asking", "dead"} /\ asked \in BOOLEAN
    /\ last \in Rows \cup {NoRow} /\ basis \in Rows \cup {NoRow}
    /\ disk \in {"free", "full"} /\ pdReady \in BOOLEAN /\ sinceFree \subseteq BOOLEAN
    /\ restarted \in BOOLEAN /\ joined \in BOOLEAN
    /\ mem \subseteq 0..n /\ file \subseteq 0..n /\ readback \subseteq 0..n
    /\ seenGone \in BOOLEAN /\ srv \in BOOLEAN /\ mid \subseteq Slots
    /\ after \in [new : SUBSET Slots, restarted : SUBSET Slots]
    /\ verdict \in {"none", "none-lost", "lost", "PASS", "FAIL"}

Old(w) == \A s \in Slots : pod[w][s] = "old"
New(w) == \A s \in Slots : pod[w][s] = "new"

\* "One component at a time": a workload of which a pod has been touched comes
\* after workloads that are new throughout.
OneWorkloadAtATime ==
    program = "upgrade" =>
        \A i \in DOMAIN Order : ~Old(Order[i]) => \A j \in 1..i - 1 : New(Order[j])

\* A summary without losses has seen every batch the load was acknowledged if
\* its join succeeded, and all but one if the join gave up, since the load looks
\* at its stop flag before every batch; and oracle.json holds what it has seen.
LateBatches ==
    verdict = "none-lost" =>
        /\ 0 \in readback /\ readback \subseteq file
        /\ joined => acked \subseteq readback
        /\ \E late \in 0..MaxBatches : acked \subseteq readback \cup {late}

\* The three programs keep the books of AckLedger with a slack of one batch: the
\* books are closed when the acknowledgements are taken over, and the thread a
\* join has given up on looks at its stop flag before the next batch.
Closed == pc \in {"dump", "verify", "judge", "done"}
Ledger == INSTANCE AckLedger WITH
    Batches <- 0..MaxBatches,
    Slack   <- 1,
    stage   <- CASE pc \in {"begin", "done"} -> "idle"
                 [] pc = "aborted" -> "void"
                 [] pc \in {"dump", "verify", "judge"} -> "closed"
                 [] OTHER -> "writing",
    entered <- IF Closed THEN acked \cap mem ELSE acked,
    late    <- IF Closed THEN acked \ mem ELSE {},
    owed    <- IF pc = "done" THEN mem ELSE {0},
    found   <- readback,
    clean   <- verdict \in {"none-lost", "PASS"}
LedgerSpec == Ledger!Spec

\* A PASS of cold-start that saw the Stores gone: a new Server that was listed
\* after 150 seconds and again at the end had been created without a Store.
ColdStartWasCold ==
    verdict = "PASS" /\ seenGone => mid \cap after.new \subseteq bornCold

\* A PD is left alone for what was seen: if the row of the decision was begun
\* after the disk was freed, the PD has been ready since.  (It may be restarted
\* although it was ready throughout, after a row that did not reach it; and the
\* code does not look at the time of the row.)
LeftAloneOnEvidence ==
    basis.fresh /\ ~restarted => TRUE \in sinceFree

\* The places of a program are its own, but for the read-back and the end.
Places ==
    /\ pc \in {"helm", "status", "stop", "join", "save", "dump"} => program = "upgrade"
    /\ pc \in {"gone", "roll", "mid", "up", "ready", "after"} => program = "cold-start"
    /\ pc \in {"baseline", "full", "freed", "restart"} => program = "disk-full"

\* How far a program has come bounds what the cluster may look like.
UpgradeStage ==
    /\ program = "upgrade" =>
        /\ storesWanted
        /\ \A j \in 1..step - 1 : New(Order[j])
        /\ \A w \in rolling : \E i \in 1..step : w = Order[i]
        /\ \A w \in Workloads : ~Old(w) => w \in rolling
    /\ load # "none" => program = "upgrade"

LedgerStage ==
    /\ 0 \in mem /\ mem \subseteq {0} \cup acked
    /\ load = "writing" => n > 0 /\ n \notin acked
    /\ pc = "begin" => load = "none" /\ acked = {} /\ readback = {}
    /\ pc # "done" => verdict = "none"
    /\ program = "upgrade" /\ pc \in {"dump", "verify", "judge", "done"} =>
        /\ stop /\ acked \subseteq mem \cup {n}
        /\ joined => acked \subseteq mem
    /\ pc \in {"join", "save"} => stop
    /\ pc \in {"begin", "helm", "status", "stop", "join"} => ~joined
    /\ joined => load \in {"ended", "died"}
    /\ program = "upgrade" /\ pc \in {"verify", "judge", "done"} => file = mem
    /\ readback \subseteq mem
    /\ verdict = "none-lost" => /\ program # "cold-start" /\ pc = "done"
                               /\ mem \subseteq readback
    /\ program # "upgrade" => /\ acked = {} /\ file = mem

ColdStage ==
    /\ \A s \in Slots : pod["server"][s] \in {"old", "both", "new"}
    /\ pc \in {"begin", "gone", "roll", "mid"} => mid = {}
    /\ program = "cold-start" /\ pc \in {"begin", "gone", "roll"} => "server" \notin rolling
    /\ "server" \notin rolling => NewServers = {}
    /\ program = "cold-start" /\ pc \in {"gone", "roll", "mid", "up"} => ~storesWanted
    /\ program = "cold-start" /\ seenGone /\ pc \in {"roll", "mid", "up"} =>
        /\ \A s \in Slots : pod["store"][s] = "gone"
        /\ NewServers \subseteq bornCold
    /\ seenGone => mid \subseteq bornCold
    /\ seenGone => program = "cold-start"

DiskStage ==
    /\ program # "disk-full" => /\ disk = "free" /\ pdReady /\ sinceFree = {} /\ ~asked
                               /\ basis = NoRow
    /\ pc \in {"begin", "baseline", "full"} => ~asked /\ ~last.fresh /\ basis = NoRow
    /\ program = "disk-full" /\ pc \notin {"begin", "baseline", "full", "aborted"} =>
          pdReady \in sinceFree
    /\ asked => pdReady \in sinceFree
    /\ last.fresh /\ last.ok => TRUE \in sinceFree

OperationsInv ==
    /\ TypeOK /\ Places /\ UpgradeStage /\ LedgerStage /\ ColdStage /\ DiskStage
    /\ OneWorkloadAtATime /\ LeftAloneOnEvidence
=============================================================================
