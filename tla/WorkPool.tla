------------------------------ MODULE WorkPool ------------------------------
(***************************************************************************)
(* The two loaders that share work among threads:                          *)
(*   cluster/decimal_sum_bench.py, rounds of PUT .../vertices/batch that   *)
(*     add up, with an oracle of what every account must hold;             *)
(*   cluster/idx_bench.py, one load of edges, with a count of those done.  *)
(* Both put a list of work in an order, let every thread take the next     *)
(* slice of it under a lock, send it as one request and count the answer.  *)
(*                                                                         *)
(* An upsert is <<name, round, k>>, k = 2 for the duplicate of a round.    *)
(* Amounts are left out: the balance of an account is the set of upserts   *)
(* it has accumulated, and so are what BIGGER and SMALLER look at.         *)
(***************************************************************************)
EXTENDS Integers, Sequences, FiniteSets, SequencesExt

CONSTANTS
    Names,       \* accounts, or edges
    Duplicates,  \* accounts that appear twice in a round
    Workers,     \* threads
    Sizes,       \* values of the argument batch
    MaxRounds    \* rounds of the sum bench

ASSUME PoolAssumption ==
    /\ IsFiniteSet(Names) /\ MaxRounds \in Nat \ {0}
    /\ Sizes \subseteq Nat \ {0} /\ Duplicates \in 0..Cardinality(Names)
    /\ "nobody" \notin Workers

VARIABLES
    mode,       \* "shuffled", "samechunk" (sum bench) or "edges"
    size,       \* entries of a batch
    pc,         \* "plan", "run", "verify", "done"
    round, work, next,
    wpc,        \* per thread: "take", "wait", "ended" or "died"
    batch,      \* per thread: the upserts of its request
    flying,     \* requests the server has not finished
    stored,     \* per name: what the server holds
    oracle,     \* per name: what it should hold
    done,       \* upserts answered with success
    failed,     \* upserts of batches counted under errors
    wrong,      \* names reported as mismatches
    split       \* history: names with upserts of one round in two batches

pool == <<work, next, wpc, batch>>
vars == <<mode, size, pc, round, pool, flying, stored, oracle, done, failed, wrong, split>>

Upserts == Names \X (1..MaxRounds) \X {1, 2}
Of(name, ups) == {u \in ups : u[1] = name}
Rounds == IF mode = "edges" THEN 1 ELSE MaxRounds

Unread   == [n \in Names |-> {<<>>}]
NoClient == "nobody"

Init ==
    /\ mode \in {"shuffled", "samechunk", "edges"} /\ size \in Sizes
    /\ pc = "plan" /\ round = 0 /\ work = <<>> /\ next = 0
    /\ wpc = [w \in Workers |-> "ended"] /\ batch = [w \in Workers |-> {}]
    /\ flying = {} /\ stored = [n \in Names |-> {}]
    /\ oracle = [n \in Names |-> {}]
    /\ done = {} /\ failed = {} /\ wrong = {} /\ split = {}

----------------------------------------------------------------------------
\* The entries from start on that make one batch.
Slice(list, start) ==
    {list[i] : i \in {k \in DOMAIN list : start < k /\ k <= start + size}}

\* The order of a round: shuffled, or every duplicate right after its first.
Orders(ups) ==
    {list \in SetToSeqs(ups) :
        mode = "samechunk" =>
            \A i \in DOMAIN list : list[i][3] = 2 =>
                i > 1 /\ list[i - 1] = [list[i] EXCEPT ![3] = 1]}

Starts(list) == {k * size : k \in 0..Len(list)}
Straddling(list) ==
    {n \in Names : \E s, t \in Starts(list) :
        s # t /\ Of(n, Slice(list, s)) # {} /\ Of(n, Slice(list, t)) # {}}

\* A round: the oracle counts everything before anything is sent, and every
\* round starts its threads anew.
Plan(twice) ==
    /\ pc = "plan" /\ round < Rounds
    /\ pc' = "run" /\ round' = round + 1
    /\ \E list \in Orders((Names \X {round'} \X {1}) \cup (twice \X {round'} \X {2})) :
          /\ work' = list
          /\ oracle' = [n \in Names |-> oracle[n] \cup Of(n, ToSet(list))]
          /\ split' = split \cup Straddling(list)
    /\ next' = 0
    /\ wpc' = [w \in Workers |-> "take"] /\ batch' = [w \in Workers |-> {}]
    /\ UNCHANGED <<mode, size, flying, stored, done, failed, wrong>>

\* 50 accounts of each round twice; edges are all different.
PlanRound ==
    \E twice \in SUBSET Names :
        /\ Cardinality(twice) = IF mode = "edges" THEN 0 ELSE Duplicates
        /\ Plan(twice)

\* Mutant: the cursor is read and moved without the lock.
Take_Unlocked(w) ==
    /\ wpc[w] = "take" /\ next < Len(work)
    /\ next' \in {next, next + size}
    /\ batch' = [batch EXCEPT ![w] = Slice(work, next)]
    /\ wpc' = [wpc EXCEPT ![w] = "wait"]
    /\ flying' = flying \cup {[from |-> w, ups |-> batch'[w], base |-> Unread]}
    /\ UNCHANGED <<mode, size, pc, round, work, stored, oracle, done, failed, wrong, split>>

\* Under the lock: the next slice; it is sent at once.
Take(w) ==
    /\ wpc[w] = "take" /\ next < Len(work)
    /\ next' = next + size
    /\ batch' = [batch EXCEPT ![w] = Slice(work, next)]
    /\ wpc' = [wpc EXCEPT ![w] = "wait"]
    /\ flying' = flying \cup {[from |-> w, ups |-> batch'[w], base |-> Unread]}
    /\ UNCHANGED <<mode, size, pc, round, work, stored, oracle, done, failed, wrong, split>>

NothingLeft(w) ==
    /\ wpc[w] = "take" /\ next >= Len(work)
    /\ wpc' = [wpc EXCEPT ![w] = "ended"]
    /\ UNCHANGED <<mode, size, pc, round, work, next, batch, flying, stored, oracle,
                   done, failed, wrong, split>>

Mine(w) == {q \in flying : q.from = w}

\* Status 200 (201), under the lock.
Acknowledged(w) ==
    /\ wpc[w] = "wait" /\ Mine(w) = {}
    /\ wpc' = [wpc EXCEPT ![w] = "take"]
    /\ batch' = [batch EXCEPT ![w] = {}]
    /\ done' = done \cup batch[w]
    /\ UNCHANGED <<mode, size, pc, round, work, next, flying, stored, oracle,
                   failed, wrong, split>>

\* Another status: the request is over, with or without its effect.
Refused(w) ==
    /\ wpc[w] = "wait"
    /\ flying' = flying \ Mine(w)
    /\ wpc' = [wpc EXCEPT ![w] = "take"]
    /\ batch' = [batch EXCEPT ![w] = {}]
    /\ failed' = failed \cup batch[w]
    /\ UNCHANGED <<mode, size, pc, round, work, next, stored, oracle, done, wrong, split>>

\* The client gives up while the server works on.  call of the sum bench
\* catches HTTPError only, so its thread dies with nothing counted.
Abandon(w) == flying' = (flying \ Mine(w)) \cup {[q EXCEPT !.from = NoClient] : q \in Mine(w)}

TimesOut(w) ==
    /\ wpc[w] = "wait" /\ mode # "edges"
    /\ Abandon(w)
    /\ wpc' = [wpc EXCEPT ![w] = "died"]
    /\ UNCHANGED <<mode, size, pc, round, work, next, batch, stored, oracle,
                   done, failed, wrong, split>>

\* post of the edge loader returns 0 for every exception.
CountedTimeout(w) ==
    /\ wpc[w] = "wait" /\ mode = "edges"
    /\ Abandon(w)
    /\ wpc' = [wpc EXCEPT ![w] = "take"]
    /\ batch' = [batch EXCEPT ![w] = {}]
    /\ failed' = failed \cup batch[w]
    /\ UNCHANGED <<mode, size, pc, round, work, next, stored, oracle, done, wrong, split>>

\* Mutant: the next round starts while threads of this one still run.
Join_Early ==
    /\ pc = "run" /\ \E w \in Workers : wpc[w] \in {"ended", "died"}
    /\ pc' = IF round < Rounds THEN "plan" ELSE "verify"
    /\ UNCHANGED <<mode, size, round, pool, flying, stored, oracle, done, failed, wrong, split>>

Join ==
    /\ pc = "run" /\ \A w \in Workers : wpc[w] \in {"ended", "died"}
    /\ pc' = IF round < Rounds THEN "plan" ELSE "verify"
    /\ UNCHANGED <<mode, size, round, pool, flying, stored, oracle, done, failed, wrong, split>>

\* Every account the server returns is compared; one it does not return is not.
Verify ==
    /\ pc = "verify"
    /\ wrong' = IF mode = "edges" THEN {}
                ELSE {n \in Names : stored[n] # {} /\ stored[n] # oracle[n]}
    /\ pc' = "done"
    /\ UNCHANGED <<mode, size, round, pool, flying, stored, oracle, done, failed, split>>

----------------------------------------------------------------------------
(* The server: a batch reads the vertices it updates and writes them later, *)
(* without a lock across requests (docs/decimal-datatype.md).               *)

ReadExisting(q) ==
    /\ q.base = Unread
    /\ flying' = (flying \ {q}) \cup {[q EXCEPT !.base = stored]}
    /\ UNCHANGED <<mode, size, pc, round, pool, stored, oracle, done, failed, wrong, split>>

\* Entries of one vertex in one request are combined first.
CommitBatch(q) ==
    /\ q.base # Unread
    /\ stored' = [n \in Names |-> IF Of(n, q.ups) = {} THEN stored[n]
                                  ELSE q.base[n] \cup Of(n, q.ups)]
    /\ flying' = flying \ {q}
    /\ UNCHANGED <<mode, size, pc, round, pool, oracle, done, failed, wrong, split>>

----------------------------------------------------------------------------
WorkerStep(w) == \/ Take(w) \/ NothingLeft(w) \/ Acknowledged(w) \/ Refused(w)
                 \/ TimesOut(w) \/ CountedTimeout(w)

Next ==
    \/ PlanRound \/ Join \/ Verify
    \/ \E w \in Workers : WorkerStep(w)
    \/ \E q \in flying : ReadExisting(q) \/ CommitBatch(q)

Spec == Init /\ [][Next]_vars

----------------------------------------------------------------------------
TypeOK ==
    /\ mode \in {"shuffled", "samechunk", "edges"} /\ size \in Sizes
    /\ pc \in {"plan", "run", "verify", "done"} /\ round \in 0..MaxRounds
    /\ work \in Seq(Upserts) /\ next \in Nat
    /\ wpc \in [Workers -> {"take", "wait", "ended", "died"}]
    /\ batch \in [Workers -> SUBSET Upserts]
    /\ flying \subseteq [from : Workers \cup {NoClient}, ups : SUBSET Upserts,
                          base : {Unread} \cup [Names -> SUBSET Upserts]]
    /\ stored \in [Names -> SUBSET Upserts] /\ oracle \in [Names -> SUBSET Upserts]
    /\ done \subseteq Upserts /\ failed \subseteq Upserts
    /\ wrong \subseteq Names /\ split \subseteq Names

\* Work that is still to be taken in this round.
Left == {work[i] : i \in {k \in DOMAIN work : k > next}}

\* No entry is sent twice, counted twice or forgotten: an entry of this round
\* is still to be taken, in the hands of one thread (a dead one keeps it), or
\* counted, as done or as failed; after the join, entries are left behind only
\* if every thread has died.
Conserved ==
    /\ TypeOK
    /\ done \cap failed = {} /\ Left \cap (done \cup failed) = {}
    /\ \A w \in Workers : batch[w] \cap (done \cup failed \cup Left) = {}
    /\ \A v, w \in Workers : v # w => batch[v] \cap batch[w] = {}
    /\ ToSet(work) \subseteq Left \cup done \cup failed \cup UNION {batch[w] : w \in Workers}
    /\ pc \notin {"plan", "run"} /\ Left # {} => \A w \in Workers : wpc[w] = "died"

\* What the threads hold: a slice each, taken in order.
Hands ==
    /\ pc # "run" => \A w \in Workers : wpc[w] \in {"ended", "died"}
    /\ next < Len(work) => next \in Starts(work)
    /\ \A w \in Workers :
          /\ wpc[w] \in {"take", "ended"} => batch[w] = {}
          /\ wpc[w] = "ended" => next >= Len(work)
          /\ batch[w] # {} => \E s \in Starts(work) : s < next /\ batch[w] = Slice(work, s)

\* A thread waits for one request, with its batch.
Requests ==
    /\ \A q \in flying : q.from # NoClient => /\ wpc[q.from] = "wait"
                                              /\ q.ups = batch[q.from]
    /\ \A q, r \in flying : q.from = r.from /\ q.from # NoClient => q = r

\* The work of a round is in the oracle, once, and not mixed with earlier rounds.
Plans ==
    /\ \A i, j \in DOMAIN work : work[i] = work[j] => i = j
    /\ \A i \in DOMAIN work : work[i][2] = round /\ work[i] \in oracle[work[i][1]]
    /\ \A n \in Names : \A u \in oracle[n] : u[1] = n /\ u[2] <= round
    /\ \A u \in done \cup failed : u[2] <= round
    /\ Straddling(work) \subseteq split
    /\ pc # "done" => wrong = {}

\* An account no upsert of which has failed so far.
OnCourse(n) ==
    oracle[n] \subseteq done \cup Left \cup UNION {batch[w] : w \in {v \in Workers : wpc[v] = "wait"}}

\* The balance of such an account, if none of its rounds is split: nobody writes
\* it but the one request that has been sent, which has read what is stored.
Balanced(n) ==
    /\ stored[n] \subseteq oracle[n] /\ Of(n, done) \subseteq stored[n]
    /\ \A q \in flying : Of(n, q.ups) # {} => /\ q.from # NoClient
                                              /\ q.base # Unread => q.base[n] = stored[n]
    /\ \A w \in Workers : wpc[w] = "wait" /\ Mine(w) = {} => Of(n, batch[w]) \subseteq stored[n]

\* No entry is sent twice, counted twice or forgotten (Conserved), because the
\* threads share the slices of one list of different entries; and an account that
\* is on course, with no round of it split, holds every acknowledged upsert.
PoolInv ==
    /\ Conserved /\ Hands /\ Requests /\ Plans
    /\ \A n \in Names \ split : OnCourse(n) => Balanced(n)

\* A mismatch has a reason: an upsert of that account whose batch was not
\* acknowledged, or two upserts of it in different batches of one round, where
\* concurrent requests lose an update ("exactly the ones whose duplicate landed
\* in another batch").
MismatchExplained ==
    \A n \in wrong : n \in split \/ ~(oracle[n] \subseteq done)

\* A claim the sum bench does not keep: "the duplicate goes right after its first
\* entry: same batch".  The entry may be the last of its batch.
SameBatch == mode = "samechunk" => split = {}
=============================================================================
