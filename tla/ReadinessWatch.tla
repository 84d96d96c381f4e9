--------------------------- MODULE ReadinessWatch ---------------------------
(***************************************************************************)
(* cluster/k3s_readiness.py: one process runs several scenarios in a row.  *)
(* Each starts a sampler of one Server pod, most start the load of the     *)
(* fault battery, then the fault comes and goes, the load and the sampler  *)
(* are stopped with joins that TIME OUT, and the rows decide.              *)
(*                                                                         *)
(* Unlike the battery the process goes on when a thread is late: a load    *)
(* thread may still be writing while the next scenario runs.  A batch of   *)
(* writes is the pair <<scenario number, round>>.  A kubectl call of the   *)
(* main thread that fails, and a judgement that raises, end the process    *)
(* and with it its daemon threads: pc is "aborted".                        *)
(*                                                                         *)
(* There is exactly one Server pod, under one name (with none at all the   *)
(* conditions over the pods are true of nothing), and times are exact (the *)
(* code rounds them to 0.1 s).                                             *)
(***************************************************************************)
EXTENDS Integers, Sequences

CONSTANTS
    Kinds,         \* scenarios that may be run, see below
    MaxScenarios,  \* scenarios named on the command line
    MaxSamples,    \* bound: samples of one scenario
    MaxBatches,    \* bound: rounds of a load while a kind runs
    Signals        \* bound: what may change in the Server while a kind runs

ASSUME KindsAssumption  == Kinds \subseteq {"baseline", "steady", "stores-zero", "pd-zero", "tolerant"}
ASSUME WatchAssumption  == /\ MaxScenarios \in Nat /\ MaxSamples \in Nat
                           /\ MaxBatches \in [Kinds \cup {"none"} -> Nat]
                           /\ Signals \in [Kinds \cup {"none"} -> SUBSET {"ok", "pd"}]

\* "steady" stands for store-one-down and store-roll, "tolerant" for pd-roll
\* and store-freeze: same steps, same verdict.
Scenario == 1..MaxScenarios
Batches  == Scenario \X Nat

VARIABLES
    srv,      \* the Server: [ok |-> /readiness is 200 or 503, cond |-> Ready condition,
              \*              pd |-> the body says pd_reachable or not], "up" or "down"
    pc, i, kind,            \* main thread: step, scenario
    phase,                  \* the time: "before" t_fault, "during" its first 40 s (5 s in
                            \* pd-zero), "settled" until t_back, "after" it
    verdict,
    oracle,                 \* oracle["acked"] and the file written from it
    spc, sstop, rows, head, \* the sampler of scenario i; head is the row being taken
    lpc, lstop, n, acked,   \* the load of each scenario
    saved,                  \* history: the scenarios whose load was saved
    wentDown, cameBack      \* history: the watched signal during and after the fault

main    == <<pc, i, kind, phase, verdict>>
sampler == <<spc, sstop, rows, head>>
load    == <<lpc, lstop, n, acked>>
truth   == <<wentDown, cameBack>>
vars    == <<srv, main, oracle, sampler, load, saved, truth>>

Signal  == {"up", "down"}
\* What a row records: "other" is another answer or none in time (readiness 0,
\* 401, a body without the key), "none" a pod without an ip.
Value   == Signal \cup {"other", "none"}
Phase   == {"before", "during", "settled", "after"}
Outages == {"stores-zero", "pd-zero"}

Up     == [ok |-> "up", cond |-> "up", pd |-> "up"]
NoHead == [t |-> "before", cond |-> "up"]

Init ==
    /\ srv = Up
    /\ pc = "next" /\ i = 0 /\ kind = "none" /\ phase = "before" /\ verdict = "none"
    /\ oracle = {}
    /\ spc = "none" /\ sstop = FALSE /\ rows = <<>> /\ head = NoHead
    /\ lpc = [s \in Scenario |-> "none"] /\ lstop = [s \in Scenario |-> FALSE]
    /\ n = [s \in Scenario |-> 0] /\ acked = [s \in Scenario |-> {}]
    /\ saved = {}
    /\ wentDown = FALSE /\ cameBack = FALSE

----------------------------------------------------------------------------
(* The main thread.                                                        *)

\* The next scenario of main's loop; its sampler starts.
StartScenario(k) ==
    /\ pc = "next" /\ i < MaxScenarios
    /\ pc' = "sample" /\ i' = i + 1 /\ kind' = k /\ phase' = "before" /\ verdict' = "none"
    /\ spc' = "check" /\ sstop' = FALSE /\ rows' = <<>> /\ head' = NoHead
    /\ wentDown' = FALSE /\ cameBack' = FALSE
    /\ UNCHANGED <<srv, oracle, load, saved>>

\* baseline only watches for a minute.
WatchOnly ==
    /\ pc = "sample" /\ kind = "baseline"
    /\ pc' = "finish"
    /\ UNCHANGED <<srv, i, kind, phase, verdict, oracle, sampler, load, saved, truth>>

StartLoad ==
    /\ pc = "sample" /\ kind # "baseline"
    /\ pc' = "fault" /\ lpc' = [lpc EXCEPT ![i] = "check"]
    /\ UNCHANGED <<srv, i, kind, phase, verdict, oracle, sampler, lstop, n, acked, saved, truth>>

\* History: what the signal the scenario is about does once the fault is on.
Watched(s) == IF kind = "pd-zero" THEN s.pd ELSE s.ok
Note == /\ wentDown' = (wentDown \/ (phase' # "before" /\ Watched(srv') = "down"))
        /\ cameBack' = (cameBack \/ (phase' = "after" /\ Watched(srv') = "up"))

\* t_fault is taken ...
StampFault ==
    /\ pc = "fault"
    /\ phase' = "during" /\ pc' = "inject"
    /\ UNCHANGED <<srv, i, kind, verdict, oracle, sampler, load, saved>>
    /\ Note

\* ... and kubectl scales, deletes, restarts or stops.
InjectFault ==
    /\ pc = "inject"
    /\ pc' = IF kind \in Outages THEN "back" ELSE "restore"
    /\ UNCHANGED <<srv, i, kind, phase, verdict, oracle, sampler, load, saved, truth>>

\* t_fault + 40 (+ 5 in pd-zero) is reached, perhaps within a slow kubectl.
Settle ==
    /\ pc \in {"inject", "back"} /\ kind \in Outages /\ phase = "during"
    /\ phase' = "settled"
    /\ UNCHANGED <<srv, pc, i, kind, verdict, oracle, sampler, load, saved>>
    /\ Note

\* After 120 s (90 s) t_back is taken ...
StampBack ==
    /\ pc = "back" /\ phase = "settled"
    /\ phase' = "after" /\ pc' = "restore"
    /\ UNCHANGED <<srv, i, kind, verdict, oracle, sampler, load, saved>>
    /\ Note

\* ... and kubectl scales back or waits for the pods, and a pause.
Restore ==
    /\ pc = "restore"
    /\ pc' = "stop"
    /\ UNCHANGED <<srv, i, kind, phase, verdict, oracle, sampler, load, saved, truth>>

\* kubectl fails or takes too long in the main thread, which does not catch it:
\* at the fault, at its end, where the pods are listed to judge, and between
\* two scenarios (wait_ready, busiest_store).
Abort ==
    /\ \/ pc \in {"inject", "restore", "next"}
       \/ pc = "judge" /\ kind \in Outages
    /\ pc' = "aborted"
    /\ UNCHANGED <<srv, i, kind, phase, verdict, oracle, sampler, load, saved, truth>>

\* Mutant: the thread is joined but not told to stop.
StopLoad_NoFlag ==
    /\ pc = "stop"
    /\ pc' = "join"
    /\ UNCHANGED <<srv, i, kind, phase, verdict, oracle, sampler, load, saved, truth>>

StopLoad ==
    /\ pc = "stop"
    /\ lstop' = [lstop EXCEPT ![i] = TRUE]
    /\ pc' = "join"
    /\ UNCHANGED <<srv, i, kind, phase, verdict, oracle, sampler, lpc, n, acked, saved, truth>>

Over(state) == state \in {"ended", "died"}

\* Mutant: a join without a timeout.
JoinLoad_Forever ==
    /\ pc = "join" /\ lpc[i] \in {"ended", "died"}
    /\ pc' = "save"
    /\ UNCHANGED <<srv, i, kind, phase, verdict, oracle, sampler, load, saved, truth>>

\* ld.join(timeout=150) returns when the thread is over or the time is up.
JoinLoad ==
    /\ pc = "join"
    /\ pc' = "save"
    /\ UNCHANGED <<srv, i, kind, phase, verdict, oracle, sampler, load, saved, truth>>

SaveOracle ==
    /\ pc = "save"
    /\ oracle' = oracle \cup acked[i]
    /\ saved' = saved \cup {i}
    /\ pc' = "finish"
    /\ UNCHANGED <<srv, i, kind, phase, verdict, sampler, load, truth>>

\* s.finish(): stop flag, then join(timeout=10), which may give up.
FinishSampler ==
    /\ pc = "finish"
    /\ sstop' = TRUE /\ pc' = "judge"
    /\ UNCHANGED <<srv, i, kind, phase, verdict, oracle, spc, rows, head, load, saved, truth>>

\* summarize and the scenario's own conditions, on the rows there are.
Row == 1..Len(rows)
Steady(field) == \A a, b \in Row : rows[a][field] = rows[b][field]
All200  == \A r \in Row : rows[r].ok = "up"

\* Mutant: the rows are not restricted to the time since the given moment.
Since_Ever(phases) == Row

Since(phases) == {r \in Row : rows[r].t \in phases}

\* The rows the settled fault is judged by.
Settled == Since({"settled"})

\* Mutant: the first time a signal is back is looked for from the start.
BackSeen_Anytime(field) == \E r \in Row : rows[r][field] = "up"

\* first_time(rs, ..., t_back).
BackSeen(field) == \E r \in Since({"after"}) : rows[r][field] = "up"

\* first_time(rs, ..., t_fault).
DownSeen(field) == \E r \in Since({"during", "settled", "after"}) : rows[r][field] = "down"

\* endpoints() reads a kubectl that failed as no endpoints at all, so "no
\* endpoint in some settled row" and "always in service" may come out either
\* way: eps is the outcome.
Ok(eps) ==
    CASE kind = "baseline"    -> All200 /\ Steady("ok")
      [] kind = "steady"      -> All200 /\ Steady("ok") /\ Steady("cond") /\ eps
      [] kind = "stores-zero" -> /\ DownSeen("ok") /\ DownSeen("cond")
                                 /\ BackSeen("ok") /\ BackSeen("cond")
                                 /\ Settled # {} /\ eps
      [] kind = "pd-zero"     -> /\ Settled # {} /\ \A r \in Settled : rows[r].ok = "up"
                                 /\ DownSeen("pd") /\ BackSeen("pd") /\ Steady("cond")
      [] kind = "tolerant"    -> Steady("cond")

\* A row of a pod without an ip has neither "endpoints" nor a readiness: min()
\* raises KeyError on it, sorted() TypeError when None and codes are mixed.
Unjudgeable ==
    LET noIp == {r \in Settled : rows[r].ok = "none"}
    IN  \/ kind = "stores-zero" /\ noIp # {}
        \/ kind = "pd-zero" /\ noIp \notin {{}, Settled}

Judge ==
    /\ pc = "judge"
    /\ IF Unjudgeable
         THEN pc' = "aborted" /\ UNCHANGED verdict
         ELSE /\ \E eps \in BOOLEAN : verdict' = IF Ok(eps) THEN "PASS" ELSE "FAIL"
              /\ pc' = "next"
    /\ UNCHANGED <<srv, i, kind, phase, oracle, sampler, load, saved, truth>>

----------------------------------------------------------------------------
(* The sampler.                                                            *)

\* The time is taken, then kubectl lists the pods; kubectl may raise, and
\* nothing catches it.  A pod without an ip gets its row at once.
SampleHead ==
    /\ spc = "check"
    /\ \/ sstop /\ spc' = "ended" /\ UNCHANGED <<rows, head>>
       \/ ~sstop /\ Len(rows) < MaxSamples /\ spc' = "probe"
          /\ head' = [t |-> phase, cond |-> srv.cond] /\ UNCHANGED rows
       \/ ~sstop /\ Len(rows) < MaxSamples
          /\ rows' = Append(rows, [t |-> phase, cond |-> srv.cond, ok |-> "none", pd |-> "none"])
          /\ UNCHANGED <<spc, head>>
       \/ ~sstop /\ spc' = "died" /\ UNCHANGED <<rows, head>>
    /\ UNCHANGED <<srv, main, oracle, sstop, load, saved, truth>>

\* GET /readiness, which may fail or say something else; the row is appended.
Probe ==
    /\ spc = "probe"
    /\ \E answer \in {[ok |-> srv.ok, pd |-> srv.pd], [ok |-> "other", pd |-> "other"]} :
         rows' = Append(rows, [t |-> head.t, cond |-> head.cond, ok |-> answer.ok,
                               pd |-> answer.pd])
    /\ spc' = "check"
    /\ UNCHANGED <<srv, main, oracle, sstop, head, load, saved, truth>>

----------------------------------------------------------------------------
(* The load threads: the loop of Load.run, see FaultBattery.               *)

Iterate(s) ==
    /\ lpc[s] = "check"
    /\ \/ lstop[s] /\ lpc' = [lpc EXCEPT ![s] = "ended"] /\ UNCHANGED n
       \/ ~lstop[s] /\ n[s] < MaxBatches[kind]
          /\ lpc' = [lpc EXCEPT ![s] = "write"] /\ n' = [n EXCEPT ![s] = @ + 1]
    /\ UNCHANGED <<srv, main, oracle, sampler, lstop, acked, saved, truth>>

Write(s) ==
    /\ lpc[s] = "write"
    /\ acked' \in {acked, [acked EXCEPT ![s] = @ \cup {<<s, n[s]>>}]}
    /\ lpc' \in {[lpc EXCEPT ![s] = "check"], [lpc EXCEPT ![s] = "died"]}
    /\ UNCHANGED <<srv, main, oracle, sampler, lstop, n, saved, truth>>

----------------------------------------------------------------------------
(* The cluster.                                                            *)

\* A signal of the Server changes: the probe, its Ready condition (which
\* follows the probe), what it says of PD.
ServerChanges ==
    /\ \/ \E signal \in Signals[kind], v \in Signal : srv' = [srv EXCEPT ![signal] = v]
       \/ srv' = [srv EXCEPT !.cond = srv.ok]
    /\ srv' # srv
    /\ UNCHANGED <<main, oracle, sampler, load, saved>>
    /\ Note

----------------------------------------------------------------------------
MainStep == \/ WatchOnly \/ StartLoad \/ StampFault \/ InjectFault \/ Settle
            \/ StampBack \/ Restore
            \/ StopLoad \/ JoinLoad \/ SaveOracle \/ FinishSampler \/ Judge

Next ==
    /\ pc # "aborted"
    /\ \/ \E k \in Kinds : StartScenario(k)
       \/ MainStep
       \/ Abort
       \/ SampleHead \/ Probe
       \/ \E s \in Scenario : Iterate(s) \/ Write(s)
       \/ ServerChanges

Spec == Init /\ [][Next]_vars

\* Only the main thread is fair: sleeps, joins and kubectl calls end by the
\* clock, whatever the two other threads are waiting for.
FairSpec == Spec /\ WF_vars(MainStep)

----------------------------------------------------------------------------
TypeOK ==
    /\ srv \in [ok : Signal, cond : Signal, pd : Signal]
    /\ pc \in {"next", "sample", "fault", "inject", "back", "restore", "stop", "join",
               "save", "finish", "judge", "aborted"}
    /\ i \in 0..MaxScenarios /\ (pc \notin {"next", "aborted"} => i >= 1)
    /\ kind \in Kinds \cup {"none"} /\ phase \in Phase
    /\ verdict \in {"none", "PASS", "FAIL"}
    /\ oracle \subseteq Batches
    /\ spc \in {"none", "check", "probe", "ended", "died"} /\ sstop \in BOOLEAN
    /\ head \in [t : Phase, cond : Signal]
    /\ rows \in Seq([t : Phase, cond : Signal, ok : Value, pd : Value])
    /\ lpc \in [Scenario -> {"none", "check", "write", "ended", "died"}]
    /\ lstop \in [Scenario -> BOOLEAN] /\ n \in [Scenario -> Nat]
    /\ acked \in [Scenario -> SUBSET Batches]
    /\ saved \subseteq Scenario
    /\ wentDown \in BOOLEAN /\ cameBack \in BOOLEAN

\* A PASS of a scenario that must see the signal go and come back is earned:
\* the signal was down at some moment since t_fault and up at some moment since
\* t_back, whenever the rows were taken and whichever of them failed.
OutageWasReal ==
    verdict = "PASS" /\ kind \in Outages => wentDown /\ cameBack

\* The join may give up on the load, which writes on while later scenarios run
\* and save: of what it is acknowledged in all, the oracle misses at most the
\* one batch that was under way when it was told to stop.
OnlyLastBatchForgotten == \A s \in saved : acked[s] \ oracle \subseteq {<<s, n[s]>>}

\* The oracle only grows, over all scenarios of the process.
OracleGrows == [][oracle \subseteq oracle']_oracle

\* Why the two hold: a row never says more than the Server did ...
RowsAreReal ==
    /\ pc \in {"sample", "fault"} => phase = "before"
    /\ phase # "before" /\ Watched(srv) = "down" => wentDown
    /\ phase = "after" /\ Watched(srv) = "up" => cameBack
    /\ head.t # "before" => phase # "before"
    /\ head.t = "after" => phase = "after"
    /\ \A r \in Row : /\ rows[r].t # "before" /\ Watched(rows[r]) = "down" => wentDown
                      /\ rows[r].t = "after" /\ Watched(rows[r]) = "up" => cameBack

\* ... and a load that has been told to stop ends after the round it is in.
StoppedLoads ==
    /\ saved \subseteq {s \in Scenario : lstop[s]}
    /\ pc \in {"join", "save"} => lstop[i]
    /\ OnlyLastBatchForgotten

WatchInv == TypeOK /\ RowsAreReal /\ StoppedLoads /\ OutageWasReal

\* Every scenario comes to its end, a verdict or the abort of the process,
\* although a server that does not answer may keep the sampler and the load for
\* minutes.
ScenarioEnds == pc \notin {"next", "aborted"} ~> pc \in {"next", "aborted"}

\* A claim of the file's docstring that does not hold: "Every scenario samples,
\* once per second, on every Server pod".
PassWasSampled == verdict = "PASS" => spc # "died"
=============================================================================
