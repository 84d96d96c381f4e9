---------------------- MODULE ClusterOperationsProofs ----------------------
(***************************************************************************)
(* Proofs about ClusterOperations for any number of replicas and batches.  *)
(* The invariant has one stage for each program: how far the program has   *)
(* come bounds what pods, batches and the PD may look like.  Each stage is *)
(* kept by steps of its own; the steps that leave its variables alone are  *)
(* grouped.                                                                *)
(***************************************************************************)
EXTENDS ClusterOperations, FiniteSetTheorems, TLAPS

(* TypeOK in four parts *)
\* Truth values, and rows of the sampler.
Flags ==
    /\ storesWanted \in BOOLEAN /\ stop \in BOOLEAN /\ asked \in BOOLEAN
    /\ last \in Rows \cup {NoRow} /\ basis \in Rows \cup {NoRow}
    /\ pdReady \in BOOLEAN /\ sinceFree \subseteq BOOLEAN
    /\ restarted \in BOOLEAN /\ joined \in BOOLEAN
    /\ seenGone \in BOOLEAN /\ srv \in BOOLEAN

\* Where the programs and their threads are.
Stages ==
    /\ program \in {"upgrade", "cold-start", "disk-full"} /\ step \in 1..3
    /\ pc \in {"begin", "helm", "status", "stop", "join", "save", "dump", "verify", "judge",
              "gone", "roll", "mid", "up", "ready", "after", "baseline", "full", "freed",
              "restart", "done", "aborted"}
    /\ load \in {"none", "top", "writing", "ended", "died"} /\ disk \in {"free", "full"}
    /\ sampling \in {"off", "idle", "asking", "dead"}
    /\ verdict \in {"none", "none-lost", "lost", "PASS", "FAIL"}

\* The pods, and what has been listed of them.
PodsOK ==
    /\ pod \in [Workloads -> [Slots -> {"old", "both", "gone", "coming", "new"}]]
    /\ rolling \subseteq Workloads
    /\ bornCold \subseteq Slots /\ crashed \subseteq Slots /\ mid \subseteq Slots
    /\ after \in [new : SUBSET Slots, restarted : SUBSET Slots]

\* The batches: none is in the books that the load has not begun.
BatchesOK ==
    /\ n \in 0..MaxBatches /\ acked \subseteq 1..n /\ stored \subseteq 0..n
    /\ mem \subseteq 0..n /\ file \subseteq 0..n /\ readback \subseteq 0..n

\* The three workloads in their order.
LEMMA OrderValues ==
  /\ Order[1] = "store" /\ Order[2] = "pd" /\ Order[3] = "server"
  /\ DOMAIN Order = 1..3 /\ Len(Order) = 3
BY DEF Order

\* Every place of Order holds a workload.
LEMMA StepValues == ASSUME NEW i \in 1..3 PROVE Order[i] \in Workloads
<1>1. i = 1 \/ i = 2 \/ i = 3
  OBVIOUS
<1> QED
  BY <1>1, OrderValues, Zenon DEF Workloads

\* The next step of three is a step.
LEMMA StepRange ==
  ASSUME NEW i \in 1..3, NEW j, j = i \/ (i < 3 /\ j = i + 1) PROVE j \in 1..3
OBVIOUS

\* A batch that is being written is one of those begun.
LEMMA BatchRange == ASSUME NEW i \in 0..MaxBatches, i > 0 PROVE i \in 1..i /\ i \in 0..i
BY RolloutAssumption

\* TypeOK in four parts: truth values, places, pods, numbered batches.
LEMMA TypeSplit == TypeOK <=> Flags /\ Stages /\ PodsOK /\ BatchesOK
BY OrderValues, Zenon DEF TypeOK, Flags, Stages, PodsOK, BatchesOK

\* Every step keeps the truth values and the rows of the sampler.
LEMMA FlagsStep == Flags /\ [Next]_vars => Flags'
<1> SUFFICES ASSUME Flags, [Next]_vars PROVE Flags'
  OBVIOUS
<1> USE DEF Flags, cluster, loader, sampler, books, locals, pd
<1>1. ASSUME Upgrade PROVE Flags'
  <2>1. ASSUME JoinLoad PROVE Flags'
    <3>1. joined' \in BOOLEAN
      <4>1. joined' = (load \in {"ended", "died"})
        BY <2>1, Zenon DEF JoinLoad
      <4>2. joined' = TRUE \/ joined' = FALSE
        BY <4>1, SMT
      <4> QED
        BY <4>2, Zenon
    <3> QED
      BY <2>1, <3>1, Zenon DEF JoinLoad
  <2>2. ASSUME StopLoad PROVE Flags'
    BY <2>2, Zenon DEF StopLoad
  <2>3. ASSUME Begin \/ Helm \/ RolledOut \/ Save \/ Dump \/ Verify \/ Summarise \/ Abort
        PROVE  UNCHANGED <<storesWanted, stop, asked, last, basis, pdReady, sinceFree, restarted,
                           joined, seenGone, srv>>
    BY <2>3, Zenon DEF Begin, Helm, RolledOut, NextStep, Save, Dump, Verify, Summarise, Report,
                       Abort
  <2>4. ASSUME Begin \/ Helm \/ RolledOut \/ Save \/ Dump \/ Verify \/ Summarise \/ Abort
        PROVE  Flags'
    BY <2>3, <2>4, Zenon 
  <2> QED
    BY <1>1, <2>1, <2>2, <2>4, Zenon DEF Upgrade
<1>2. ASSUME ColdStart PROVE Flags'
  <2>1. ASSUME ScaleDown PROVE Flags'
    BY <2>1, Zenon DEF ScaleDown
  <2>2. ASSUME StoresGone PROVE Flags'
    BY <2>2, Zenon DEF StoresGone
  <2>3. ASSUME ScaleUp PROVE Flags'
    BY <2>3, Zenon DEF ScaleUp
  <2>4. ASSUME ServersReady PROVE Flags'
    BY <2>4, Zenon DEF ServersReady, Settled
  <2>5. ASSUME Roll \/ LookMid \/ ListAfter \/ Judge PROVE Flags'
    BY <2>5, Zenon DEF Roll, LookMid, ListAfter, Judge
  <2> QED
    BY <1>2, <2>1, <2>2, <2>3, <2>4, <2>5, Zenon DEF ColdStart
<1>3. ASSUME DiskFull PROVE Flags'
  <2>1. ASSUME Free PROVE Flags'
    BY <2>1, Zenon DEF Free
  <2>2. ASSUME DecideOnLast PROVE Flags'
    <3>1. last.ok \in BOOLEAN
      <4>1. ASSUME last \in Rows PROVE last.ok \in BOOLEAN
        BY <4>1, Zenon DEF Rows
      <4>2. ASSUME last = NoRow PROVE last.ok = FALSE
        BY <4>2, SMT DEF NoRow
      <4> QED
        BY <4>1, <4>2, Zenon
    <3> QED
      BY <2>2, <3>1, Zenon DEF DecideOnLast, Decide
  <2>3. ASSUME RestartPd PROVE Flags'
    BY <2>3, Zenon DEF RestartPd
  <2>4. ASSUME StartSampling \/ Fill \/ SummariseDisk PROVE Flags'
    BY <2>4, Zenon DEF StartSampling, Fill, SummariseDisk, Report
  <2> QED
    BY <1>3, <2>1, <2>2, <2>3, <2>4, Zenon DEF DiskFull
<1>4. ASSUME Threads PROVE Flags'
  <2>1. ASSUME BeginRow PROVE Flags'
    BY <2>1, Zenon DEF BeginRow
  <2>2. ASSUME EndRow PROVE Flags'
    <3>1. last' = [fresh |-> asked, ok |-> pdReady] \/ last' = [fresh |-> asked, ok |-> FALSE]
      BY <2>2, Zenon DEF EndRow
    <3>2. asked \in BOOLEAN /\ pdReady \in BOOLEAN
      OBVIOUS
    <3>3. last' \in Rows
      <4> HIDE DEF Flags
      <4>1. CASE last' = [fresh |-> asked, ok |-> pdReady]
        BY <3>2, <4>1 DEF Rows
      <4>2. CASE last' = [fresh |-> asked, ok |-> FALSE]
        BY <3>2, <4>2 DEF Rows
      <4> QED
        BY <3>1, <4>1, <4>2
    <3> QED
      BY <2>2, <3>3, Zenon DEF EndRow
  <2>3. ASSUME SamplerDies \/ Iterate PROVE Flags'
    BY <2>3, Zenon DEF SamplerDies, Iterate
  <2>4. ASSUME NEW status \in {201, 0}, Write(status) PROVE Flags'
    BY <2>4, Zenon DEF Write
  <2> QED
    BY <1>4, <2>1, <2>2, <2>3, <2>4, Zenon DEF Threads
<1>5. ASSUME Cluster PROVE Flags'
  <2>1. ASSUME NEW w \in Workloads, NEW s \in Slots, Replace(w, s) \/ Create(w, s) \/ Serve(w, s)
        PROVE  Flags'
    BY <2>1, Zenon DEF Replace, Create, Serve
  <2>2. ASSUME NEW s \in Slots, Remove(s) \/ RestartServer(s) PROVE Flags'
    BY <2>2, Zenon DEF Remove, RestartServer
  <2>3. ASSUME PdChanges PROVE Flags'
    <3>1. pdReady' \in BOOLEAN
      BY <2>3, Zenon DEF PdChanges
    <3>2. sinceFree' \subseteq BOOLEAN
      <4>1. sinceFree' = {} \/ sinceFree' = sinceFree \cup {~pdReady}
        BY <2>3, Zenon DEF PdChanges
      <4>2. CASE pdReady
        <5>1. ~pdReady = FALSE
          BY <4>2, Zenon
        <5> QED
          BY <4>1, <5>1, Zenon
      <4>3. CASE ~pdReady
        <5>1. ~pdReady = TRUE
          BY <4>3, Zenon
        <5> QED
          BY <4>1, <5>1, Zenon
      <4> QED
        BY <4>2, <4>3, Zenon
    <3> QED
      BY <2>3, <3>1, <3>2, Zenon DEF PdChanges
  <2>4. ASSUME NEW b \in stored, LoseBatch(b) PROVE Flags'
    BY <2>4, Zenon DEF LoseBatch
  <2> QED
    BY <1>5, <2>1, <2>2, <2>3, <2>4, Zenon DEF Cluster
<1>6. ASSUME UNCHANGED vars PROVE Flags'
  BY <1>6, Zenon DEF vars
<1> QED
  BY <1>1, <1>2, <1>3, <1>4, <1>5, <1>6, Zenon DEF Next

\* Every step keeps the places and states of the programs and their threads.
LEMMA StagesStep == Stages /\ [Next]_vars => Stages'
<1> SUFFICES ASSUME Stages, [Next]_vars PROVE Stages'
  OBVIOUS
<1> USE DEF Stages, cluster, loader, sampler, books, locals, pd
<1>1. ASSUME Upgrade PROVE Stages'
  <2>1. ASSUME RolledOut PROVE Stages'
    <3>1. step' = step \/ (step < 3 /\ step' = step + 1)
      BY <2>1, OrderValues, Zenon DEF RolledOut, NextStep
    <3>2. step' \in 1..3
      BY <3>1, StepRange, Zenon
    <3>3. pc' \in {"helm", "stop"} /\ UNCHANGED <<program, load, disk, sampling, verdict>>
      BY <2>1, Zenon DEF RolledOut, NextStep
    <3> QED
      BY <3>2, <3>3, Zenon
  <2>2. ASSUME Begin \/ Helm \/ StopLoad \/ JoinLoad PROVE Stages'
    BY <2>2, Zenon DEF Begin, Helm, StopLoad, JoinLoad
  <2>3. ASSUME Save \/ Dump \/ Verify \/ Abort PROVE Stages'
    BY <2>3, Zenon DEF Save, Dump, Verify, Abort
  <2>4. ASSUME Summarise PROVE Stages'
    BY <2>4 DEF Summarise, Report
  <2> QED
    BY <1>1, <2>1, <2>2, <2>3, <2>4, Zenon DEF Upgrade
<1>2. ASSUME ColdStart PROVE Stages'
  <2>1. ASSUME Judge PROVE Stages'
    BY <2>1 DEF Judge
  <2>2. ASSUME ScaleDown \/ StoresGone \/ Roll \/ LookMid PROVE Stages'
    BY <2>2, Zenon DEF ScaleDown, StoresGone, Roll, LookMid
  <2>3. ASSUME ScaleUp \/ ServersReady \/ ListAfter PROVE Stages'
    BY <2>3, Zenon DEF ScaleUp, ServersReady, ListAfter
  <2> QED
    BY <1>2, <2>1, <2>2, <2>3, Zenon DEF ColdStart
<1>3. ASSUME DiskFull PROVE Stages'
  <2>1. ASSUME Fill \/ Free PROVE Stages'
    BY <2>1 DEF Fill, Free
  <2>2. ASSUME DecideOnLast PROVE Stages'
    BY <2>2 DEF DecideOnLast, Decide
  <2>3. ASSUME StartSampling \/ RestartPd PROVE Stages'
    BY <2>3, Zenon DEF StartSampling, RestartPd
  <2>4. ASSUME SummariseDisk PROVE Stages'
    BY <2>4 DEF SummariseDisk, Report
  <2> QED
    BY <1>3, <2>1, <2>2, <2>3, <2>4, Zenon DEF DiskFull
<1>4. ASSUME Threads PROVE Stages'
  <2>1. ASSUME BeginRow \/ EndRow \/ SamplerDies \/ Iterate PROVE Stages'
    BY <2>1, Zenon DEF BeginRow, EndRow, SamplerDies, Iterate
  <2>2. ASSUME NEW status \in {201, 0}, Write(status) PROVE Stages'
    BY <2>2 DEF Write
  <2> QED
    BY <1>4, <2>1, <2>2, Zenon DEF Threads
<1>5. ASSUME Cluster PROVE Stages'
  <2>1. ASSUME NEW w \in Workloads, NEW s \in Slots,
               Replace(w, s) \/ Create(w, s) \/ Serve(w, s)
        PROVE  Stages'
    BY <2>1, Zenon DEF Replace, Create, Serve
  <2>2. ASSUME NEW s \in Slots, Remove(s) \/ RestartServer(s) PROVE Stages'
    BY <2>2, Zenon DEF Remove, RestartServer
  <2>3. ASSUME PdChanges PROVE Stages'
    BY <2>3, Zenon DEF PdChanges
  <2>4. ASSUME NEW b \in stored, LoseBatch(b) PROVE Stages'
    <3>1. UNCHANGED <<program, pc, step, load, disk, sampling, verdict>>
      BY <2>4, Zenon DEF LoseBatch
    <3> QED
      BY <3>1
  <2> HIDE DEF Stages
  <2> QED
    BY <1>5, <2>1, <2>2, <2>3, <2>4, Zenon DEF Cluster
<1>6. ASSUME UNCHANGED vars PROVE Stages'
  <2>1. UNCHANGED <<program, pc, step, load, disk, sampling, verdict>>
    BY <1>6, Zenon DEF vars
  <2> QED
    BY <2>1
<1> HIDE DEF Stages
<1> QED
  BY <1>1, <1>2, <1>3, <1>4, <1>5, <1>6, Zenon DEF Next

\* The steps that touch the pods or what cold_start has listed of them.
LEMMA PodsFrame ==
  ASSUME [Next]_vars
  PROVE  \/ UNCHANGED <<pod, rolling, bornCold, crashed, mid, after>>
         \/ Helm \/ Roll \/ LookMid \/ ListAfter
         \/ \E w \in Workloads, s \in Slots : Replace(w, s) \/ Create(w, s) \/ Serve(w, s)
         \/ \E s \in Slots : Remove(s) \/ RestartServer(s)
<1> USE DEF cluster, loader, sampler, books, locals, pd
<1> DEFINE Same == UNCHANGED <<pod, rolling, bornCold, crashed, mid, after>>
<1>1. ASSUME Begin \/ RolledOut \/ StopLoad \/ JoinLoad \/ Save \/ Dump \/ Verify PROVE Same
  BY <1>1, Zenon DEF Begin, RolledOut, NextStep, StopLoad, JoinLoad, Save, Dump, Verify
<1>2. ASSUME Summarise \/ Abort PROVE Same
  BY <1>2, Zenon DEF Summarise, Report, Abort
<1>3. ASSUME ScaleDown \/ StoresGone \/ ScaleUp \/ ServersReady \/ Judge PROVE Same
  BY <1>3, Zenon DEF ScaleDown, StoresGone, ScaleUp, ServersReady, Judge
<1>4. ASSUME DiskFull PROVE Same
  BY <1>4, Zenon DEF DiskFull, StartSampling, Fill, Free, DecideOnLast, Decide, RestartPd,
                     SummariseDisk, Report
<1>5. ASSUME Threads \/ PdChanges \/ \E b \in stored : LoseBatch(b) PROVE Same
  BY <1>5, Zenon DEF Threads, BeginRow, EndRow, SamplerDies, Iterate, Write, PdChanges, LoseBatch
<1>6. ASSUME UNCHANGED vars PROVE Same
  BY <1>6, Zenon DEF vars
<1> QED
  BY <1>1, <1>2, <1>3, <1>4, <1>5, <1>6, Zenon DEF Next, Upgrade, ColdStart, Cluster

\* Every step keeps the types of the pods and of the listings.
LEMMA PodsStep == PodsOK /\ Stages /\ [Next]_vars => PodsOK'
<1> SUFFICES ASSUME PodsOK, Stages, [Next]_vars PROVE PodsOK'
  OBVIOUS
<1> USE DEF PodsOK, cluster, loader, sampler, books, locals, pd
<1>1. NewServers \subseteq Slots
  BY DEF NewServers
<1>2. CASE UNCHANGED <<pod, rolling, bornCold, crashed, mid, after>>
  BY <1>2, Zenon
<1>3. CASE Helm
  <2>1. Order[step] \in Workloads
    BY StepValues, Zenon DEF Stages
  <2> QED
    BY <1>3, <2>1, Zenon DEF Helm
<1>4. CASE Roll
  BY <1>4, Zenon DEF Roll, Workloads
<1>5. CASE LookMid
  BY <1>1, <1>5, Zenon DEF LookMid
<1>6. CASE ListAfter
  BY <1>1, <1>6 DEF ListAfter
<1>7. ASSUME NEW w \in Workloads, NEW s \in Slots, Replace(w, s) \/ Create(w, s) \/ Serve(w, s)
      PROVE  PodsOK'
  <2>1. UNCHANGED <<rolling, crashed, mid, after>>
    BY <1>7, Zenon DEF Replace, Create, Serve
  <2>2. PICK state \in {"both", "gone", "coming", "new"} : Put(w, s, state)
    BY <1>7, Zenon DEF Replace, Create, Serve
  <2>3. pod' \in [Workloads -> [Slots -> {"old", "both", "gone", "coming", "new"}]]
    BY <2>2 DEF Put
  <2>4. bornCold' = bornCold \/ bornCold' = bornCold \cup {s}
    BY <1>7, Zenon DEF Replace, Create, Serve
  <2> QED
    BY <2>1, <2>3, <2>4, Zenon
<1>8. ASSUME NEW s \in Slots, Remove(s) \/ RestartServer(s) PROVE PodsOK'
  <2>1. UNCHANGED <<rolling, bornCold, mid, after>>
    BY <1>8, Zenon DEF Remove, RestartServer
  <2>2. pod' = pod \/ Put("store", s, "gone")
    BY <1>8, Zenon DEF Remove, RestartServer
  <2>3. pod' \in [Workloads -> [Slots -> {"old", "both", "gone", "coming", "new"}]]
    BY <2>2 DEF Put
  <2>4. crashed' = crashed \/ crashed' = crashed \cup {s}
    BY <1>8, Zenon DEF Remove, RestartServer
  <2> QED
    BY <2>1, <2>3, <2>4, Zenon
<1> QED
  BY <1>2, <1>3, <1>4, <1>5, <1>6, <1>7, <1>8, PodsFrame, Zenon

\* The steps that touch the batches: only the load numbers and writes them.
LEMMA BatchesFrame ==
  ASSUME [Next]_vars
  PROVE  \/ UNCHANGED <<n, acked, stored, mem, file, readback>>
         \/ Save \/ Dump \/ Verify \/ Iterate \/ \E status \in {201, 0} : Write(status)
         \/ \E b \in stored : LoseBatch(b)
<1> USE DEF cluster, loader, sampler, books, locals, pd
<1> DEFINE Same == UNCHANGED <<n, acked, stored, mem, file, readback>>
<1>1. ASSUME Begin \/ Helm \/ RolledOut \/ StopLoad \/ JoinLoad \/ Summarise \/ Abort
      PROVE  Same
  BY <1>1, Zenon DEF Begin, Helm, RolledOut, NextStep, StopLoad, JoinLoad, Summarise, Report, Abort
<1>2. ASSUME ColdStart PROVE Same
  BY <1>2, Zenon DEF ColdStart, ScaleDown, StoresGone, Roll, LookMid, ScaleUp, ServersReady,
                     ListAfter, Judge
<1>3. ASSUME DiskFull PROVE Same
  BY <1>3, Zenon DEF DiskFull, StartSampling, Fill, Free, DecideOnLast, Decide, RestartPd,
                     SummariseDisk, Report
<1>4. ASSUME BeginRow \/ EndRow \/ SamplerDies \/ PdChanges PROVE Same
  BY <1>4, Zenon DEF BeginRow, EndRow, SamplerDies, PdChanges
<1>5. ASSUME NEW w \in Workloads, NEW s \in Slots, Replace(w, s) \/ Create(w, s) \/ Serve(w, s)
      PROVE  Same
  BY <1>5, Zenon DEF Replace, Create, Serve
<1>6. ASSUME NEW s \in Slots, Remove(s) \/ RestartServer(s) PROVE Same
  BY <1>6, Zenon DEF Remove, RestartServer
<1>7. ASSUME UNCHANGED vars PROVE Same
  BY <1>7, Zenon DEF vars
<1> QED
  BY <1>1, <1>2, <1>3, <1>4, <1>5, <1>6, <1>7, Zenon DEF Next, Upgrade, Threads, Cluster

\* Every step leaves only batches that the load has begun, and 0.
LEMMA BatchesStep == BatchesOK /\ LedgerStage /\ [Next]_vars => BatchesOK'
<1> SUFFICES ASSUME BatchesOK, LedgerStage, [Next]_vars PROVE BatchesOK'
  OBVIOUS
<1> USE RolloutAssumption DEF BatchesOK, cluster, loader, sampler, books, locals, pd
<1>1. CASE Save \/ Dump \/ Verify
  <2>1. mem' \subseteq 0..n
    <3>1. mem' = mem \/ mem' = mem \cup acked
      BY <1>1, Zenon DEF Save, Dump, Verify
    <3>2. 1..n \subseteq 0..n
      OBVIOUS
    <3> QED
      BY <3>1, <3>2, Zenon
  <2>2. file' \subseteq 0..n /\ readback' \subseteq 0..n /\ UNCHANGED <<n, acked, stored>>
    BY <1>1, Zenon DEF Save, Dump, Verify
  <2> QED
    BY <2>1, <2>2, Zenon
<1>2. CASE Iterate
  <2>1. UNCHANGED <<acked, stored, mem, file, readback>>
    BY <1>2, Zenon DEF Iterate
  <2>2. n' = n \/ (n' = n + 1 /\ n < MaxBatches)
    BY <1>2, Zenon DEF Iterate
  <2>3. n' \in 0..MaxBatches /\ 0..n \subseteq 0..n' /\ 1..n \subseteq 1..n'
    BY <2>2
  <2> QED
    BY <2>1, <2>3, Zenon
<1>3. ASSUME NEW status \in {201, 0}, Write(status) PROVE BatchesOK'
  <2>1. load = "writing" /\ UNCHANGED <<n, mem, file, readback>>
    BY <1>3, Zenon DEF Write
  <2>2. n \in 1..n /\ n \in 0..n
    BY <2>1, BatchRange, Zenon DEF LedgerStage
  <2>3. acked' = acked \/ acked' = acked \cup {n}
    BY <1>3, Zenon DEF Write
  <2>4. stored' = stored \/ stored' = stored \cup {n}
    BY <1>3, Zenon DEF Write
  <2> QED
    BY <2>1, <2>2, <2>3, <2>4, Zenon
<1>4. ASSUME NEW b \in stored, LoseBatch(b) PROVE BatchesOK'
  BY <1>4, Zenon DEF LoseBatch
<1>5. CASE UNCHANGED <<n, acked, stored, mem, file, readback>>
  BY <1>5, Zenon
<1> QED
  BY <1>1, <1>2, <1>3, <1>4, <1>5, BatchesFrame, Zenon

\* Put changes one slot of one workload.
LEMMA PutEffect ==
  ASSUME NEW w \in Workloads, NEW s \in Slots, NEW state, Put(w, s, state),
         pod \in [Workloads -> [Slots -> {"old", "both", "gone", "coming", "new"}]]
  PROVE  \A v \in Workloads, t \in Slots :
            pod'[v][t] = IF v = w /\ t = s THEN state ELSE pod[v][t]
BY DEF Put

\* A program stays in its own places, and is the same program to the end.
LEMMA PlacesStep == Places /\ [Next]_vars => Places' /\ program' = program
<1> SUFFICES ASSUME Places, [Next]_vars PROVE Places' /\ program' = program
  OBVIOUS
<1> USE DEF Places, cluster, loader, sampler, books, locals, pd
<1>1. ASSUME Upgrade PROVE Places' /\ program' = program
  BY <1>1 DEF Upgrade, Begin, Helm, RolledOut, NextStep, StopLoad, JoinLoad, Save, Dump, Verify,
              Summarise, Report, Abort
<1>2. ASSUME ColdStart PROVE Places' /\ program' = program
  BY <1>2 DEF ColdStart, ScaleDown, StoresGone, Roll, LookMid, ScaleUp, ServersReady, ListAfter,
              Judge
<1>3. ASSUME DiskFull PROVE Places' /\ program' = program
  BY <1>3 DEF DiskFull, StartSampling, Fill, Free, DecideOnLast, Decide, RestartPd,
              SummariseDisk, Report
<1>4. ASSUME Threads PROVE UNCHANGED <<program, pc>>
  BY <1>4 DEF Threads, BeginRow, EndRow, SamplerDies, Iterate, Write
<1>5. ASSUME Cluster PROVE UNCHANGED <<program, pc>>
  BY <1>5 DEF Cluster, Replace, Create, Serve, Remove, RestartServer, PdChanges, LoseBatch
<1>6. ASSUME UNCHANGED vars PROVE UNCHANGED <<program, pc>>
  BY <1>6 DEF vars
<1> QED
  BY <1>1, <1>2, <1>3, <1>4, <1>5, <1>6 DEF Next

\* Every step keeps the stage of the upgrade: a pod in service on the new
\* template stays (nothing scales the Stores down), and only a workload with a
\* new template loses old pods.
LEMMA UpgradeStep == TypeOK /\ Places /\ UpgradeStage /\ [Next]_vars => UpgradeStage'
<1> SUFFICES ASSUME TypeOK, Places, UpgradeStage, [Next]_vars PROVE UpgradeStage'
  OBVIOUS
<1> USE DEF Places, UpgradeStage, Old, New, cluster, loader, sampler, books, locals, pd
<1>1. step \in 1..3 /\ \A i \in 1..3 : Order[i] \in Workloads
  BY StepValues, TypeSplit DEF Stages
<1>2. pod \in [Workloads -> [Slots -> {"old", "both", "gone", "coming", "new"}]]
  BY DEF TypeOK
<1>3. ASSUME Begin PROVE UpgradeStage'
  BY <1>3 DEF Begin
<1>4. ASSUME Helm PROVE UpgradeStage'
  BY <1>1, <1>4 DEF Helm
<1>5. ASSUME RolledOut PROVE UpgradeStage'
  BY <1>1, <1>5, OrderValues DEF RolledOut, NextStep
<1>6. ASSUME ScaleDown \/ Roll \/ ScaleUp PROVE UpgradeStage'
  BY <1>6 DEF ScaleDown, Roll, ScaleUp
<1>7. ASSUME Iterate \/ \E status \in {201, 0} : Write(status) PROVE UpgradeStage'
  BY <1>7 DEF Iterate, Write
<1>8. ASSUME NEW w \in Workloads, NEW s \in Slots, Replace(w, s) \/ Create(w, s) \/ Serve(w, s)
      PROVE  UpgradeStage'
  <2>1. UNCHANGED <<program, step, storesWanted, rolling, load>>
    BY <1>8, Zenon DEF Replace, Create, Serve
  <2>2. PICK state \in {"both", "gone", "coming", "new"} : Put(w, s, state)
    BY <1>8, Zenon DEF Replace, Create, Serve
  <2>3. \A v \in Workloads, t \in Slots :
           pod'[v][t] = IF v = w /\ t = s THEN state ELSE pod[v][t]
    BY <1>2, <2>2, PutEffect
  <2>4. pod[w][s] # "new"
    BY <1>8 DEF Replace, Create, Serve
  <2>5. ASSUME program = "upgrade" PROVE w \in rolling
    <3>1. pod[w][s] # "old" \/ w \in rolling
      BY <1>8 DEF Replace, Create, Serve
    <3> QED
      BY <2>5, <3>1
  <2>6. ASSUME program = "upgrade", NEW j \in 1..step - 1 PROVE New(Order[j])'
    <3>1. Order[j] \in Workloads /\ New(Order[j])
      BY <1>1, <2>6
    <3> QED
      BY <2>3, <2>4, <3>1
  <2>7. ASSUME program = "upgrade", NEW v \in Workloads, v \notin rolling PROVE Old(v)'
    BY <2>3, <2>5, <2>7
  <2> QED
    BY <2>1, <2>6, <2>7
<1>9. ASSUME NEW s \in Slots, Remove(s) PROVE UpgradeStage'
  BY <1>1, <1>2, <1>9 DEF Remove, Put
<1>10. ASSUME \/ StopLoad \/ JoinLoad \/ Save \/ Dump \/ Verify \/ Summarise \/ Abort
              \/ StoresGone \/ LookMid \/ ServersReady \/ ListAfter \/ Judge
       PROVE  UNCHANGED <<program, step, storesWanted, rolling, pod, load>>
  BY <1>10, Zenon DEF StopLoad, JoinLoad, Save, Dump, Verify, Summarise, Report, Abort,
                      StoresGone, LookMid, ServersReady, ListAfter, Judge
<1>11. ASSUME DiskFull \/ BeginRow \/ EndRow \/ SamplerDies
       PROVE  UNCHANGED <<program, step, storesWanted, rolling, pod, load>>
  BY <1>11, Zenon DEF DiskFull, StartSampling, Fill, Free, DecideOnLast, Decide, RestartPd,
                      SummariseDisk, Report, BeginRow, EndRow, SamplerDies
<1>12. ASSUME \/ \E s \in Slots : RestartServer(s)
              \/ PdChanges \/ \E b \in stored : LoseBatch(b)
              \/ UNCHANGED vars
       PROVE  UNCHANGED <<program, step, storesWanted, rolling, pod, load>>
  BY <1>12, Zenon DEF RestartServer, PdChanges, LoseBatch, vars
<1>13. ASSUME UNCHANGED <<program, step, storesWanted, rolling, pod, load>> PROVE UpgradeStage'
  BY <1>13
<1> HIDE DEF UpgradeStage
<1> QED
  BY <1>3, <1>4, <1>5, <1>6, <1>7, <1>8, <1>9, <1>10, <1>11, <1>12, <1>13, Zenon
     DEF Next, Upgrade, ColdStart, Threads, Cluster

\* Every step keeps the ledger: once the stop flag is set the load begins no
\* batch, so at most batch n is acknowledged after the acknowledgements are saved.
LEMMA LedgerStep ==
  TypeOK /\ Places /\ UpgradeStage /\ LedgerStage /\ [Next]_vars => LedgerStage'
<1> SUFFICES ASSUME TypeOK, Places, UpgradeStage, LedgerStage, [Next]_vars PROVE LedgerStage'
  OBVIOUS
<1> USE DEF Places, LedgerStage, cluster, loader, sampler, books, locals, pd
<1>1. n \in Nat /\ acked \subseteq 1..n /\ (load # "none" => program = "upgrade")
  BY TypeSplit, RolloutAssumption DEF BatchesOK, UpgradeStage
<1>2. ASSUME Begin PROVE LedgerStage'
  BY <1>2 DEF Begin
<1>3. ASSUME Helm \/ RolledOut PROVE LedgerStage'
  <2>1. pc \in {"helm", "status"} /\ pc' \in {"helm", "status", "stop"}
    BY <1>3 DEF Helm, RolledOut, NextStep
  <2>2. UNCHANGED <<program, loader, books, verdict>>
    BY <1>3, Zenon DEF Helm, RolledOut, NextStep
  <2> QED
    BY <2>1, <2>2
<1>4. ASSUME StopLoad PROVE LedgerStage'
  BY <1>4 DEF StopLoad
<1>5. ASSUME JoinLoad PROVE LedgerStage'
  BY <1>5 DEF JoinLoad
<1>6. ASSUME Save PROVE LedgerStage'
  BY <1>6 DEF Save
<1>7. ASSUME Dump PROVE LedgerStage'
  BY <1>7 DEF Dump
<1>8. ASSUME Verify PROVE LedgerStage'
  BY <1>8 DEF Verify
<1>9. ASSUME Summarise \/ SummariseDisk PROVE LedgerStage'
  <2>1. pc = "judge" /\ pc' = "done" /\ program # "cold-start"
        /\ UNCHANGED <<program, loader, books>>
    BY <1>9 DEF Summarise, SummariseDisk, Report
  <2>2. verdict' = "none-lost" => mem \subseteq readback
    BY <1>9, Zenon DEF Summarise, SummariseDisk, Report
  <2> QED
    BY <2>1, <2>2
<1>10. ASSUME Abort PROVE LedgerStage'
  BY <1>10 DEF Abort
<1>11. ASSUME \/ ColdStart
              \/ StartSampling \/ Fill \/ Free \/ DecideOnLast \/ RestartPd
       PROVE  LedgerStage'
  <2> USE <1>11 DEF ColdStart, ScaleDown, StoresGone, Roll, LookMid, ScaleUp, ServersReady,
                    ListAfter, Judge, StartSampling, Fill, Free, DecideOnLast, Decide, RestartPd
  <2>1. program # "upgrade" /\ UNCHANGED <<program, loader, books>>
    OBVIOUS
  <2>2. verdict' # "none-lost"
    OBVIOUS
  <2>3. pc' \notin {"begin", "helm", "status", "stop", "join", "save"}
    OBVIOUS
  <2> QED
    BY <2>1, <2>2, <2>3
<1>12. ASSUME Iterate PROVE LedgerStage'
  <2>1. n + 1 > 0 /\ n + 1 \notin acked
    BY <1>1
  <2> QED
    BY <1>1, <1>12, <2>1 DEF Iterate
<1>13. ASSUME NEW status \in {201, 0}, Write(status) PROVE LedgerStage'
  BY <1>1, <1>13 DEF Write
<1>14. ASSUME BeginRow \/ EndRow \/ SamplerDies \/ UNCHANGED vars
       PROVE  UNCHANGED <<program, pc, loader, books, verdict>>
  BY <1>14, Zenon DEF BeginRow, EndRow, SamplerDies, vars
<1>15. ASSUME Cluster PROVE UNCHANGED <<program, pc, loader, books, verdict>>
  BY <1>15, Zenon DEF Cluster, Replace, Create, Serve, Remove, RestartServer, PdChanges,
                      LoseBatch
<1>16. ASSUME UNCHANGED <<program, pc, loader, books, verdict>> PROVE LedgerStage'
  BY <1>16
<1> HIDE DEF LedgerStage
<1> QED
  BY <1>2, <1>3, <1>4, <1>5, <1>6, <1>7, <1>8, <1>9, <1>10, <1>11, <1>12, <1>13,
     <1>14, <1>15, <1>16, Zenon DEF Next, Upgrade, DiskFull, Threads

\* Every step keeps the stage of cold_start: while the Stores are scaled down
\* and were seen gone, a Server that is created is born without a Store.
LEMMA ColdStep == TypeOK /\ Places /\ ColdStage /\ [Next]_vars => ColdStage'
<1> SUFFICES ASSUME TypeOK, Places, ColdStage, [Next]_vars PROVE ColdStage'
  OBVIOUS
<1> USE DEF Places, ColdStage, NewServers, cluster, loader, sampler, books, locals, pd
<1>1. pod \in [Workloads -> [Slots -> {"old", "both", "gone", "coming", "new"}]]
  BY DEF TypeOK
<1>2. "server" \in Workloads /\ "store" \in Workloads
  BY DEF Workloads
<1>3. ASSUME Helm PROVE ColdStage'
  BY <1>3 DEF Helm
<1>4. ASSUME ScaleDown PROVE ColdStage'
  BY <1>4 DEF ScaleDown
<1>5. ASSUME StoresGone PROVE ColdStage'
  BY <1>5 DEF StoresGone
<1>6. ASSUME Roll PROVE ColdStage'
  BY <1>6 DEF Roll
<1>7. ASSUME LookMid PROVE ColdStage'
  BY <1>7 DEF LookMid
<1>8. ASSUME ScaleUp PROVE ColdStage'
  BY <1>8 DEF ScaleUp
<1>9. ASSUME ServersReady \/ ListAfter \/ Judge \/ DiskFull PROVE ColdStage'
  <2>1. UNCHANGED <<program, cluster, seenGone, mid>>
    BY <1>9, Zenon DEF ServersReady, ListAfter, Judge, DiskFull, StartSampling, Fill, Free,
                       DecideOnLast, Decide, RestartPd, SummariseDisk, Report
  <2>2. pc' \notin {"begin", "gone", "roll", "mid", "up"}
    BY <1>9 DEF ServersReady, ListAfter, Judge, DiskFull, StartSampling, Fill, Free,
                DecideOnLast, Decide, RestartPd, SummariseDisk, Report
  <2> QED
    BY <2>1, <2>2
<1>10. ASSUME \/ Begin \/ RolledOut \/ StopLoad \/ JoinLoad \/ Save \/ Dump \/ Verify
              \/ Summarise \/ Abort
       PROVE  ColdStage'
  BY <1>10 DEF Begin, RolledOut, NextStep, StopLoad, JoinLoad, Save, Dump, Verify, Summarise,
               Report, Abort
<1>11. ASSUME NEW w \in Workloads, NEW s \in Slots, Replace(w, s) \/ Create(w, s) \/ Serve(w, s)
       PROVE  ColdStage'
  <2>1. UNCHANGED <<program, pc, rolling, storesWanted, mid, seenGone>>
    BY <1>11, Zenon DEF Replace, Create, Serve
  <2>2. PICK state \in {"both", "gone", "coming", "new"} : Put(w, s, state)
    BY <1>11, Zenon DEF Replace, Create, Serve
  <2>3. \A v \in Workloads, t \in Slots :
           pod'[v][t] = IF v = w /\ t = s THEN state ELSE pod[v][t]
    BY <1>1, <2>2, PutEffect
  <2>4. bornCold \subseteq bornCold'
    BY <1>11 DEF Replace, Create, Serve
  <2>5. CASE w = "server"
    BY <1>1, <1>2, <1>11, <2>1, <2>3, <2>5 DEF Replace, Create, Serve, Put
  <2>6. CASE w # "server"
    BY <1>1, <1>2, <1>11, <2>1, <2>3, <2>4, <2>6 DEF Replace, Create, Serve
  <2> QED
    BY <2>5, <2>6
<1>12. ASSUME NEW s \in Slots, Remove(s) PROVE ColdStage'
  <2>1. \A v \in Workloads, t \in Slots :
           pod'[v][t] = IF v = "store" /\ t = s THEN "gone" ELSE pod[v][t]
    BY <1>1, <1>2, <1>12, PutEffect DEF Remove
  <2> QED
    BY <1>2, <1>12, <2>1 DEF Remove
<1>13. ASSUME NEW s \in Slots, RestartServer(s) PROVE ColdStage'
  BY <1>13 DEF RestartServer
<1>14. ASSUME Threads \/ PdChanges \/ (\E b \in stored : LoseBatch(b)) \/ UNCHANGED vars
       PROVE  UNCHANGED <<program, pc, cluster, seenGone, mid>>
  BY <1>14, Zenon DEF Threads, BeginRow, EndRow, SamplerDies, Iterate, Write, PdChanges,
                      LoseBatch, vars
<1>15. ASSUME UNCHANGED <<program, pc, cluster, seenGone, mid>> PROVE ColdStage'
  BY <1>15
<1> HIDE DEF ColdStage
<1> QED
  BY <1>3, <1>4, <1>5, <1>6, <1>7, <1>8, <1>9, <1>10, <1>11, <1>12, <1>13, <1>14,
     <1>15, Zenon DEF Next, Upgrade, ColdStart, Cluster

\* Every step keeps the stage of disk-full: a row that was begun after the disk
\* was freed and says ready tells of a time since.
LEMMA DiskStep ==
  TypeOK /\ Places /\ DiskStage /\ LeftAloneOnEvidence /\ [Next]_vars
    => DiskStage' /\ LeftAloneOnEvidence'
<1> SUFFICES ASSUME TypeOK, Places, DiskStage, LeftAloneOnEvidence, [Next]_vars
             PROVE  DiskStage' /\ LeftAloneOnEvidence'
  OBVIOUS
<1> USE DEF Places, DiskStage, LeftAloneOnEvidence, cluster, loader, sampler, books, locals, pd
<1>1. pdReady \in BOOLEAN /\ restarted \in BOOLEAN
  BY Zenon DEF TypeOK
<1>2. NoRow.fresh = FALSE
  BY DEF NoRow
<1>3. last \in Rows \/ last = NoRow
  BY Zenon DEF TypeOK
<1>4. ASSUME Free PROVE DiskStage' /\ LeftAloneOnEvidence'
  BY <1>1, <1>2, <1>4 DEF Free
<1>5. ASSUME DecideOnLast PROVE DiskStage' /\ LeftAloneOnEvidence'
  BY <1>1, <1>2, <1>3, <1>5 DEF DecideOnLast, Decide, Rows
<1>6. ASSUME RestartPd PROVE DiskStage' /\ LeftAloneOnEvidence'
  BY <1>6 DEF RestartPd
<1>7. ASSUME PdChanges PROVE DiskStage' /\ LeftAloneOnEvidence'
  BY <1>1, <1>7 DEF PdChanges
<1>8. ASSUME BeginRow PROVE DiskStage' /\ LeftAloneOnEvidence'
  BY <1>8 DEF BeginRow
<1>9. ASSUME EndRow PROVE DiskStage' /\ LeftAloneOnEvidence'
  <2>1. UNCHANGED <<program, pc, asked, pd>>
    BY <1>9, Zenon DEF EndRow
  <2>2. CASE last' = [fresh |-> asked, ok |-> pdReady]
    BY <1>1, <2>1, <2>2
  <2>3. CASE last' = [fresh |-> asked, ok |-> FALSE]
    BY <2>1, <2>3
  <2> QED
    BY <1>9, <2>2, <2>3, Zenon DEF EndRow
<1>10. ASSUME StartSampling \/ Fill \/ SummariseDisk PROVE DiskStage' /\ LeftAloneOnEvidence'
  <2>1. /\ UNCHANGED <<program, asked, last, pdReady, sinceFree, restarted, basis>>
        /\ program = "disk-full"
    BY <1>10 DEF StartSampling, Fill, SummariseDisk, Report
  <2>2. pc' \in {"begin", "baseline", "full"} => pc \in {"begin", "baseline", "full"}
    BY <1>10 DEF StartSampling, Fill, SummariseDisk, Report
  <2>3. pc \in {"begin", "baseline", "full", "aborted"}
          => pc' \in {"begin", "baseline", "full", "aborted"}
    BY <1>10 DEF StartSampling, Fill, SummariseDisk, Report
  <2> QED
    BY <2>1, <2>2, <2>3
<1>11. ASSUME Upgrade \/ ColdStart PROVE DiskStage' /\ LeftAloneOnEvidence'
  <2> USE <1>11 DEF Upgrade, Begin, Helm, RolledOut, NextStep, StopLoad, JoinLoad, Save, Dump,
                    Verify, Summarise, Report, Abort, ColdStart, ScaleDown, StoresGone, Roll,
                    LookMid, ScaleUp, ServersReady, ListAfter, Judge
  <2>1. UNCHANGED <<program, asked, last, pd>>
    OBVIOUS
  <2>2. pc' \notin {"begin", "baseline", "full"}
    OBVIOUS
  <2>3. program = "disk-full" => pc' = "aborted" \/ pc \notin {"begin", "baseline", "full"}
    OBVIOUS
  <2>4. pc # "aborted" \/ pc' = "aborted"
    OBVIOUS
  <2> QED
    BY <2>1, <2>2, <2>3, <2>4
<1>12. ASSUME \/ SamplerDies \/ Iterate \/ (\E status \in {201, 0} : Write(status))
              \/ (\E b \in stored : LoseBatch(b)) \/ UNCHANGED vars
       PROVE  UNCHANGED <<program, pc, asked, last, pd>>
  BY <1>12, Zenon DEF SamplerDies, Iterate, Write, LoseBatch, vars
<1>13. ASSUME \/ \E w \in Workloads, s \in Slots : Replace(w, s) \/ Create(w, s) \/ Serve(w, s)
              \/ \E s \in Slots : Remove(s) \/ RestartServer(s)
       PROVE  UNCHANGED <<program, pc, asked, last, pd>>
  BY <1>13, Zenon DEF Replace, Create, Serve, Remove, RestartServer
<1>14. ASSUME UNCHANGED <<program, pc, asked, last, pd>> PROVE DiskStage' /\ LeftAloneOnEvidence'
  BY <1>14
<1> HIDE DEF DiskStage, LeftAloneOnEvidence
<1> QED
  BY <1>4, <1>5, <1>6, <1>7, <1>8, <1>9, <1>10, <1>11, <1>12, <1>13, <1>14, Zenon
     DEF Next, DiskFull, Threads, Cluster

\* Only the workloads up to the current step have been touched.
LEMMA Sequential == TypeOK /\ UpgradeStage => OneWorkloadAtATime
<1> SUFFICES ASSUME TypeOK, UpgradeStage, program = "upgrade",
                    NEW i \in DOMAIN Order, ~Old(Order[i]), NEW j \in 1..i - 1
             PROVE  New(Order[j])
  BY DEF OneWorkloadAtATime
<1>1. i \in 1..3 /\ step \in 1..3
  BY OrderValues, TypeSplit DEF Stages
<1>2. Order[i] \in rolling
  BY <1>1, StepValues DEF UpgradeStage
<1>3. PICK k \in 1..step : Order[i] = Order[k]
  BY <1>2 DEF UpgradeStage
<1>4. i = k
  BY <1>1, <1>3, OrderValues
<1>5. j \in 1..step - 1
  BY <1>1, <1>4
<1> QED
  BY <1>5 DEF UpgradeStage

\* Before any program has begun.
LEMMA OperationsInit == Init => OperationsInv
<1> SUFFICES ASSUME Init PROVE OperationsInv
  OBVIOUS
<1>1. Flags
  BY Zenon DEF Init, Flags
<1>2. Stages
  BY DEF Init, Stages
<1>3. PodsOK
  BY DEF Init, PodsOK
<1>4. BatchesOK
  BY RolloutAssumption DEF Init, BatchesOK
<1>5. TypeOK
  BY <1>1, <1>2, <1>3, <1>4, TypeSplit
<1>6. Places
  BY DEF Init, Places
<1>7. UpgradeStage
  BY DEF Init, UpgradeStage, Old, New
<1>8. LedgerStage
  BY DEF Init, LedgerStage
<1>9. ColdStage
  BY DEF Init, ColdStage, NewServers, Workloads
<1>10. NoRow.fresh = FALSE
  BY DEF NoRow
<1>11. DiskStage /\ LeftAloneOnEvidence
  BY <1>10 DEF Init, DiskStage, LeftAloneOnEvidence
<1> QED
  BY <1>5, <1>6, <1>7, <1>8, <1>9, <1>11, Sequential DEF OperationsInv

\* The invariant of the three programs, for any number of replicas and any
\* length of the load (k3s_rolling_upgrade.py, cold_start, k3s_pd_disk_full.py).
THEOREM OperationsInvariant == Spec => []OperationsInv
<1>1. ASSUME OperationsInv, [Next]_vars PROVE OperationsInv'
  <2> USE <1>1 DEF OperationsInv
  <2>1. TypeOK'
    <3>1. Flags /\ Stages /\ PodsOK /\ BatchesOK
      BY TypeSplit
    <3>2. Flags' /\ Stages' /\ PodsOK' /\ BatchesOK'
      BY <3>1, FlagsStep, StagesStep, PodsStep, BatchesStep
    <3> QED
      BY <3>2, TypeSplit, PTL
  <2>2. Places' /\ UpgradeStage' /\ LedgerStage'
    BY PlacesStep, UpgradeStep, LedgerStep
  <2>3. ColdStage' /\ DiskStage' /\ LeftAloneOnEvidence'
    BY ColdStep, DiskStep
  <2>4. OneWorkloadAtATime'
    BY <2>1, <2>2, Sequential, PTL
  <2> QED
    BY <2>1, <2>2, <2>3, <2>4
<1> QED
  BY <1>1, OperationsInit, PTL DEF Spec

\* A workload of which a pod has been touched comes after workloads that are
\* new throughout: the loop of k3s_rolling_upgrade.py waits for each rollout.
THEOREM OrderedUpgrade == Spec => []OneWorkloadAtATime
<1>1. OperationsInv => OneWorkloadAtATime
  BY DEF OperationsInv
<1> QED
  BY <1>1, OperationsInvariant, PTL

\* A summary of k3s_rolling_upgrade.py without losses covers every acknowledged
\* batch if its join succeeded, and all but one if it gave up.
THEOREM AcknowledgedSurvive == Spec => []LateBatches
<1>1. OperationsInv => LateBatches
  <2> SUFFICES ASSUME OperationsInv, verdict = "none-lost" PROVE LateBatches
    BY DEF LateBatches
  <2>1. /\ program # "cold-start" /\ pc = "done" /\ mem \subseteq readback
        /\ readback \subseteq mem /\ 0 \in mem
    BY DEF OperationsInv, LedgerStage
  <2>2. file = mem
    BY <2>1, TypeSplit DEF OperationsInv, LedgerStage, Stages
  <2>3. (joined => acked \subseteq mem) /\ acked \subseteq mem \cup {n}
    BY <2>1 DEF OperationsInv, LedgerStage
  <2>4. n \in 0..MaxBatches
    BY DEF OperationsInv, TypeOK
  <2> QED
    BY <2>1, <2>2, <2>3, <2>4 DEF LateBatches
<1> QED
  BY <1>1, OperationsInvariant, PTL

\* A PASS of cold_start that saw the Stores gone speaks of Servers that were
\* created without a Store.
THEOREM PassWasCold == Spec => []ColdStartWasCold
<1>1. OperationsInv => ColdStartWasCold
  BY DEF OperationsInv, ColdStage, ColdStartWasCold
<1> QED
  BY <1>1, OperationsInvariant, PTL

\* k3s_pd_disk_full.py leaves the PD alone, on a row from after the disk was freed,
\* only if the PD has been ready since.
THEOREM LeftAloneIsFounded == Spec => []LeftAloneOnEvidence
<1>1. OperationsInv => LeftAloneOnEvidence
  BY DEF OperationsInv
<1> QED
  BY <1>1, OperationsInvariant, PTL

(* The books of AckLedger *)
\* Before a program begins nothing is acknowledged, and batch 0 is owed.
LEMMA BooksInit == Init => Ledger!Init
BY RolloutAssumption DEF Init, Ledger!Init, Closed

\* A step that leaves the place, the read-back and the verdict alone moves no
\* books if it leaves acknowledgements and the database alone as well.
LEMMA BooksFrame ==
  ASSUME UNCHANGED <<pc, mem, acked, stored, readback, verdict>> PROVE UNCHANGED Ledger!vars
BY DEF Ledger!vars, Closed

\* The ledger counts as FiniteSets does.
LEMMA BooksCount == ASSUME NEW S PROVE Ledger!Cardinality(S) = Cardinality(S)
BY Zenon DEF Cardinality, Ledger!Cardinality

\* A write that succeeds enters the open books; after their close it is the one
\* batch the load was at when it was told to stop.
LEMMA BooksWrite ==
  ASSUME OperationsInv, OperationsInv', Write(201)
  PROVE  \/ \E b \in 0..MaxBatches : Ledger!Acknowledge(b) \/ Ledger!AcknowledgeLate(b)
         \/ Ledger!Unheard
<1>1. /\ load = "writing" /\ acked' = acked \cup {n} /\ stored' = stored \cup {n}
      /\ UNCHANGED <<program, pc, n, mem, readback, verdict>>
  BY DEF Write, sampler, books
<1>2. n \in 0..MaxBatches /\ n > 0 /\ n \notin acked /\ program = "upgrade" /\ pc # "begin"
  BY <1>1, TypeSplit DEF OperationsInv, BatchesOK, LedgerStage, UpgradeStage
<1>3. CASE pc = "aborted"
  BY <1>1, <1>3 DEF Ledger!Unheard
<1>4. CASE Closed
  <2>1. n \notin mem /\ acked \ mem = {} /\ acked' \ mem' = {n}
    BY <1>1, <1>2, <1>4 DEF OperationsInv, LedgerStage, Closed
  <2>2. Cardinality({n}) <= 1
    <3>1. Cardinality({n}) = 1
      BY FS_Singleton
    <3> QED
      BY <3>1
  <2>3. acked' \cap mem' = acked \cap mem /\ {n} = (acked \ mem) \cup {n} /\ Closed'
    BY <1>1, <1>4, <2>1 DEF Closed
  <2>4. Ledger!AcknowledgeLate(n)
    BY <1>1, <1>4, <2>1, <2>2, <2>3, BooksCount DEF Ledger!AcknowledgeLate, Closed
  <2> QED
    BY <1>2, <2>4
<1>5. CASE pc # "aborted" /\ ~Closed
  <2>1. Ledger!Acknowledge(n)
    BY <1>1, <1>2, <1>5 DEF Ledger!Acknowledge, Closed
  <2> QED
    BY <1>2, <2>1
<1> QED
  BY <1>3, <1>4, <1>5

\* Every step of a program, its threads and the cluster is a step of the ledger,
\* or leaves the books alone.
LEMMA BooksStep ==
  OperationsInv /\ OperationsInv' /\ [Next]_vars => [Ledger!Next]_(Ledger!vars)
<1> SUFFICES ASSUME OperationsInv, OperationsInv', [Next]_vars
             PROVE  [Ledger!Next]_(Ledger!vars)
  OBVIOUS
<1> USE DEF cluster, loader, sampler, books, locals, pd
<1>1. ASSUME Begin \/ ScaleDown \/ StartSampling PROVE Ledger!Begin
  <2>1. pc = "begin" /\ pc' \in {"helm", "gone", "baseline"}
        /\ UNCHANGED <<mem, acked, stored, readback, verdict>>
    BY <1>1 DEF Begin, ScaleDown, StartSampling
  <2>2. acked = {} /\ readback = {} /\ verdict = "none"
    BY <2>1 DEF OperationsInv, LedgerStage
  <2> QED
    BY <2>1, <2>2 DEF Ledger!Begin, Closed
<1>2. ASSUME \/ Helm \/ RolledOut \/ StopLoad \/ JoinLoad
             \/ StoresGone \/ Roll \/ LookMid \/ ScaleUp \/ ServersReady \/ Fill \/ Free
      PROVE  UNCHANGED Ledger!vars
  <2>1. UNCHANGED <<mem, acked, stored, readback, verdict>>
    BY <1>2, Zenon DEF Helm, RolledOut, NextStep, StopLoad, JoinLoad, StoresGone, Roll, LookMid,
                       ScaleUp, ServersReady, Fill, Free
  <2>2. {pc, pc'} \cap {"begin", "dump", "verify", "judge", "done", "aborted"} = {}
    BY <1>2 DEF Helm, RolledOut, NextStep, StopLoad, JoinLoad, StoresGone, Roll, LookMid,
                ScaleUp, ServersReady, Fill, Free
  <2> QED
    BY <2>1, <2>2 DEF Ledger!vars, Closed
<1>3. ASSUME \/ Save \/ ListAfter \/ RestartPd \/ DecideOnLast
      PROVE  Ledger!Close \/ UNCHANGED Ledger!vars
  <2>1. /\ pc \in {"save", "after", "restart", "freed"}
        /\ pc' \in {"dump", "verify", "restart"}
        /\ UNCHANGED <<acked, stored, readback, verdict>>
    BY <1>3 DEF Save, ListAfter, RestartPd, DecideOnLast, Decide
  <2>2. acked \subseteq mem'
    BY <1>3 DEF Save, ListAfter, RestartPd, DecideOnLast, Decide, OperationsInv, Places,
                LedgerStage
  <2>3. CASE pc' = "restart"
    BY <2>1, <2>3 DEF Ledger!vars, Closed
  <2>4. CASE pc' # "restart"
    BY <2>1, <2>2, <2>4 DEF Ledger!Close, Closed
  <2> QED
    BY <2>3, <2>4
<1>4. ASSUME Dump PROVE UNCHANGED Ledger!vars
  BY <1>4 DEF Dump, Ledger!vars, Closed
<1>5. ASSUME Verify PROVE Ledger!ReadBack
  BY <1>5 DEF Verify, Ledger!ReadBack, Closed
<1>6. ASSUME Summarise \/ Judge \/ SummariseDisk PROVE Ledger!Report
  <2>1. pc = "judge" /\ pc' = "done" /\ UNCHANGED <<mem, acked, stored, readback>>
    BY <1>6 DEF Summarise, Judge, SummariseDisk, Report
  <2>2. verdict' \in {"none-lost", "PASS"} => mem \subseteq readback
    BY <1>6 DEF Summarise, Judge, SummariseDisk, Report
  <2>3. {0} \cup (acked \cap mem) = mem
    BY DEF OperationsInv, LedgerStage
  <2> QED
    BY <2>1, <2>2, <2>3 DEF Ledger!Report, Closed
<1>7. ASSUME Abort PROVE Ledger!Break
  <2>1. pc # "done" /\ pc' = "aborted" /\ UNCHANGED <<stored, readback, verdict>>
    BY <1>7 DEF Abort
  <2>2. verdict = "none"
    BY <2>1 DEF OperationsInv, LedgerStage
  <2> QED
    BY <2>1, <2>2 DEF Ledger!Break
<1>8. stored' \subseteq 0..MaxBatches
  BY TypeSplit, RolloutAssumption DEF OperationsInv, TypeOK
<1>9. ASSUME Write(0) \/ \E b \in stored : LoseBatch(b) PROVE Ledger!Drift
  <2>1. UNCHANGED <<pc, mem, acked, readback, verdict>>
    BY <1>9 DEF Write, LoseBatch
  <2> QED
    BY <1>8, <2>1 DEF Ledger!Drift, Closed
<1>10. ASSUME BeginRow \/ EndRow \/ SamplerDies \/ Iterate \/ UNCHANGED vars
       PROVE  UNCHANGED Ledger!vars
  <2>1. UNCHANGED <<pc, mem, acked, stored, readback, verdict>>
    BY <1>10, Zenon DEF BeginRow, EndRow, SamplerDies, Iterate, vars
  <2> QED
    BY <2>1, BooksFrame
<1>11. ASSUME \/ \E w \in Workloads, s \in Slots : Replace(w, s) \/ Create(w, s) \/ Serve(w, s)
              \/ (\E s \in Slots : Remove(s) \/ RestartServer(s)) \/ PdChanges
       PROVE  UNCHANGED Ledger!vars
  <2>1. UNCHANGED <<pc, mem, acked, stored, readback, verdict>>
    BY <1>11, Zenon DEF Replace, Create, Serve, Remove, RestartServer, PdChanges
  <2> QED
    BY <2>1, BooksFrame
<1>12. ASSUME Write(201) PROVE Ledger!Next
  BY <1>12, BooksWrite, Zenon DEF Ledger!Next
<1> QED
  BY <1>1, <1>2, <1>3, <1>4, <1>5, <1>6, <1>7, <1>9, <1>10, <1>11, <1>12, Zenon
     DEF Next, Upgrade, ColdStart, DiskFull, Threads, Cluster, Ledger!Next

\* The three programs keep the books of AckLedger with a slack of one batch: a
\* report without losses is about all that is in them, and what is acknowledged
\* after their close is the batch the load was at when it was told to stop.
THEOREM OperationsKeepLedger == Spec => LedgerSpec
BY BooksInit, BooksStep, OperationsInvariant, PTL DEF Spec, LedgerSpec, Ledger!Spec
=============================================================================
