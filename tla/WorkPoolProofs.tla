--------------------------- MODULE WorkPoolProofs ---------------------------
(***************************************************************************)
(* Proofs about WorkPool for any number of names, threads and rounds and   *)
(* any batch size.  First the ledger: every entry of the round in one      *)
(* place, every thread with a slice of its own.  Then the balances: as     *)
(* slices do not overlap, one request at a time writes an account whose    *)
(* rounds are not split, so the account holds what was acknowledged and    *)
(* nothing that was not asked for.  A mismatch has its reason in that.     *)
(***************************************************************************)
EXTENDS WorkPool, FiniteSetTheorems, TLAPS

\* Where the entries and the requests are; the part of PoolInv that does not
\* speak of balances.
Ledger == Conserved /\ Hands /\ Requests /\ Plans

----------------------------------------------------------------------------
\* The work of a round is finite: its order has a length.
LEMMA RoundIsFinite ==
  ASSUME NEW r \in 1..MaxRounds, NEW twice \in SUBSET Names
  PROVE  LET ups == (Names \X {r} \X {1}) \cup (twice \X {r} \X {2})
         IN  ups \subseteq Upserts /\ Cardinality(ups) \in Nat
<1> DEFINE copy(S, k) == S \X {r} \X {k}
           title(S, k) == [n \in S |-> <<n, r, k>>]
<1>1. ASSUME NEW S \in SUBSET Names, NEW k \in {1, 2}
      PROVE  copy(S, k) \subseteq Upserts /\ IsFiniteSet(copy(S, k))
  <2>1. IsFiniteSet(S)
    BY FS_Subset, PoolAssumption
  <2>2. title(S, k) \in [S -> copy(S, k)]
    OBVIOUS
  <2>3. \A u \in copy(S, k) : \E n \in S : title(S, k)[n] = u
    OBVIOUS
  <2>4. title(S, k) \in Surjection(S, copy(S, k))
    BY <2>2, <2>3 DEF Surjection
  <2>5. IsFiniteSet(copy(S, k))
    BY <2>1, <2>4, FS_Surjection
  <2>6. copy(S, k) \subseteq Upserts
    BY DEF Upserts
  <2> QED
    BY <2>5, <2>6
<1>2. /\ copy(Names, 1) \subseteq Upserts /\ IsFiniteSet(copy(Names, 1))
      /\ copy(twice, 2) \subseteq Upserts /\ IsFiniteSet(copy(twice, 2))
  BY <1>1
<1>3. IsFiniteSet(copy(Names, 1) \cup copy(twice, 2))
  BY <1>2, FS_Union
<1>4. Cardinality(copy(Names, 1) \cup copy(twice, 2)) \in Nat
  BY <1>3, FS_CardinalityType
<1> QED
  BY <1>2, <1>4

\* A slice and what comes after it are all that was left, with nothing twice.
LEMMA SliceOfLeft ==
  ASSUME TypeOK, Plans, next < Len(work)
  PROVE  /\ Left = Slice(work, next) \cup {work[i] : i \in {k \in DOMAIN work : k > next + size}}
         /\ Slice(work, next) \cap {work[i] : i \in {k \in DOMAIN work : k > next + size}} = {}
         /\ Slice(work, next) \subseteq Upserts
<1>1. work \in Seq(Upserts) /\ next \in Nat /\ size \in Nat \ {0}
  BY PoolAssumption DEF TypeOK
<1>2. \A i, j \in DOMAIN work : work[i] = work[j] => i = j
  BY DEF Plans
<1>3. DOMAIN work = 1..Len(work) /\ \A i \in DOMAIN work : work[i] \in Upserts
  BY <1>1
<1> QED
  BY <1>1, <1>2, <1>3 DEF Left, Slice

\* The next slice starts where a batch may start.
LEMMA NextStart ==
  ASSUME TypeOK, Hands, next < Len(work), next + size < Len(work)
  PROVE  next + size \in Starts(work)
<1>1. work \in Seq(Upserts) /\ next \in Nat /\ size \in Nat \ {0}
  BY PoolAssumption DEF TypeOK
<1>2. PICK k \in 0..Len(work) : next = k * size
  BY DEF Hands, Starts
<1>3. k \in Nat /\ (k + 1) * size = k * size + size
  BY <1>1, <1>2
<1>4. k + 1 <= Len(work)
  <2>1. k <= k * size
    BY <1>1, <1>3
  <2> QED
    BY <1>1, <1>2, <1>3, <2>1
<1> QED
  BY <1>1, <1>2, <1>3, <1>4 DEF Starts

\* What a plan makes: the entries of a new round, each once, all in the oracle.
LEMMA PlanEffect ==
  ASSUME TypeOK, NEW twice \in SUBSET Names, Plan(twice)
  PROVE  /\ round' \in 1..MaxRounds /\ round' = round + 1 /\ pc = "plan" /\ pc' = "run"
         /\ work' \in Seq(Upserts) /\ next' = 0
         /\ \A i, j \in DOMAIN work' : work'[i] = work'[j] => i = j
         /\ \A i \in DOMAIN work' : work'[i][2] = round'
         /\ oracle' = [n \in Names |-> oracle[n] \cup Of(n, ToSet(work'))]
         /\ split' = split \cup Straddling(work')
         /\ wpc' = [w \in Workers |-> "take"] /\ batch' = [w \in Workers |-> {}]
         /\ UNCHANGED <<mode, size, flying, stored, done, failed, wrong>>
<1>1. round' = round + 1 /\ pc = "plan" /\ pc' = "run" /\ next' = 0 /\ round < Rounds
      /\ wpc' = [w \in Workers |-> "take"] /\ batch' = [w \in Workers |-> {}]
      /\ UNCHANGED <<mode, size, flying, stored, done, failed, wrong>>
  BY DEF Plan
<1>2. round' \in 1..MaxRounds
  BY <1>1, PoolAssumption DEF TypeOK, Rounds
<1> DEFINE ups == (Names \X {round'} \X {1}) \cup (twice \X {round'} \X {2})
<1>3. PICK list \in Orders(ups) :
          /\ work' = list
          /\ oracle' = [n \in Names |-> oracle[n] \cup Of(n, ToSet(list))]
          /\ split' = split \cup Straddling(list)
  BY DEF Plan
<1>4. ups \subseteq Upserts /\ Cardinality(ups) \in Nat
  BY <1>2, RoundIsFinite
<1>5. /\ list \in [1..Cardinality(ups) -> ups]
      /\ \A i, j \in 1..Cardinality(ups) : i # j => list[i] # list[j]
  BY <1>3 DEF Orders, SetToSeqs
<1>6. \A u \in ups : u[2] = round'
  OBVIOUS
<1> HIDE DEF ups
<1>7. list \in Seq(Upserts) /\ DOMAIN list = 1..Cardinality(ups)
  BY <1>4, <1>5
<1>8. \A i \in DOMAIN list : list[i][2] = round'
  BY <1>5, <1>6, <1>7
<1> QED
  BY <1>1, <1>2, <1>3, <1>5, <1>7, <1>8

\* A request that is given up is still a request.
LEMMA AbandonEffect ==
  ASSUME TypeOK, NEW w \in Workers, Abandon(w)
  PROVE  /\ \A q \in flying' : q \in flying \ Mine(w) \/
                \E r \in Mine(w) : q.from = NoClient /\ q.ups = r.ups /\ q.base = r.base
         /\ flying' \subseteq [from : Workers \cup {NoClient}, ups : SUBSET Upserts,
                               base : {Unread} \cup [Names -> SUBSET Upserts]]
<1> DEFINE Request == [from : Workers \cup {NoClient}, ups : SUBSET Upserts,
                       base : {Unread} \cup [Names -> SUBSET Upserts]]
           orphan(r) == [r EXCEPT !.from = NoClient]
<1>1. flying \subseteq Request /\ Mine(w) \subseteq flying
  BY DEF TypeOK, Mine
<1>2. \A r \in Request : /\ orphan(r) \in Request /\ orphan(r).from = NoClient
                        /\ orphan(r).ups = r.ups /\ orphan(r).base = r.base
  OBVIOUS
<1>3. flying' = (flying \ Mine(w)) \cup {orphan(r) : r \in Mine(w)}
  BY DEF Abandon
<1> HIDE DEF Request, orphan
<1>4. flying' \subseteq Request
  BY <1>1, <1>2, <1>3
<1>5. \A q \in flying' :
         q \in flying \ Mine(w) \/
            \E r \in Mine(w) : q.from = NoClient /\ q.ups = r.ups /\ q.base = r.base
  BY <1>1, <1>2, <1>3
<1> QED
  BY <1>4, <1>5 DEF Request

\* Every step keeps the types.
LEMMA TypeStep == TypeOK /\ Plans /\ [Next]_vars => TypeOK'
<1> SUFFICES ASSUME TypeOK, Plans, [Next]_vars PROVE TypeOK'
  OBVIOUS
<1> USE DEF TypeOK
<1>1. ASSUME PlanRound PROVE TypeOK'
  <2>1. PICK twice \in SUBSET Names : Plan(twice)
    BY <1>1 DEF PlanRound
  <2>2. oracle' \in [Names -> SUBSET Upserts]
    BY <2>1, PlanEffect DEF Of, ToSet
  <2>3. split' \subseteq Names /\ round' \in 0..MaxRounds
    BY <2>1, PlanEffect DEF Straddling
  <2> QED
    BY <2>1, <2>2, <2>3, PlanEffect
<1>2. ASSUME NEW w \in Workers, Take(w) PROVE TypeOK'
  <2>1. Slice(work, next) \subseteq Upserts
    BY <1>2, SliceOfLeft DEF Take
  <2>2. next' \in Nat
    BY <1>2, PoolAssumption DEF Take
  <2>4. batch' \in [Workers -> SUBSET Upserts] /\ batch'[w] = Slice(work, next)
    BY <1>2, <2>1 DEF Take
  <2>5. flying' \subseteq [from : Workers \cup {NoClient}, ups : SUBSET Upserts,
                          base : {Unread} \cup [Names -> SUBSET Upserts]]
    BY <1>2, <2>4 DEF Take
  <2> QED
    BY <1>2, <2>2, <2>4, <2>5 DEF Take
<1>3. ASSUME NEW w \in Workers, NothingLeft(w) PROVE TypeOK'
  BY <1>3 DEF NothingLeft
<1>4. ASSUME NEW w \in Workers, Acknowledged(w) PROVE TypeOK'
  BY <1>4 DEF Acknowledged
<1>5. ASSUME NEW w \in Workers, Refused(w) PROVE TypeOK'
  BY <1>5 DEF Refused
<1>6. ASSUME NEW w \in Workers, TimesOut(w) PROVE TypeOK'
  <2>1. Abandon(w)
    BY <1>6 DEF TimesOut
  <2> QED
    BY <1>6, <2>1, AbandonEffect DEF TimesOut
<1>7. ASSUME NEW w \in Workers, CountedTimeout(w) PROVE TypeOK'
  <2>1. Abandon(w)
    BY <1>7 DEF CountedTimeout
  <2> QED
    BY <1>7, <2>1, AbandonEffect DEF CountedTimeout
<1>8. ASSUME Join PROVE TypeOK'
  BY <1>8 DEF Join, pool
<1>9. ASSUME Verify PROVE TypeOK'
  BY <1>9 DEF Verify, pool
<1>10. ASSUME NEW q \in flying, ReadExisting(q) PROVE TypeOK'
  BY <1>10 DEF ReadExisting, pool
<1>11. ASSUME NEW q \in flying, CommitBatch(q) PROVE TypeOK'
  <2>1. q.ups \in SUBSET Upserts /\ q.base \in [Names -> SUBSET Upserts]
    BY <1>11 DEF CommitBatch
  <2>2. stored' \in [Names -> SUBSET Upserts]
    BY <1>11, <2>1 DEF CommitBatch, Of
  <2> QED
    BY <1>11, <2>2 DEF CommitBatch, pool
<1>12. ASSUME UNCHANGED vars PROVE TypeOK'
  BY <1>12 DEF vars, pool
<1> QED
  BY <1>1, <1>2, <1>3, <1>4, <1>5, <1>6, <1>7, <1>8, <1>9, <1>10, <1>11, <1>12
     DEF Next, WorkerStep

\* What a step leaves of the plan when it leaves the work and the cursor alone.
LEMMA SamePlan ==
  ASSUME UNCHANGED <<size, work>>
  PROVE  /\ Starts(work)' = Starts(work) /\ Straddling(work)' = Straddling(work)
         /\ \A s : Slice(work, s)' = Slice(work, s)
         /\ next' = next => Left' = Left
BY DEF Starts, Straddling, Slice, Of, Left

\* A thread holds entries of this round's work.
LEMMA BatchIsWork ==
  ASSUME Hands, Plans, NEW w \in Workers
  PROVE  \A u \in batch[w] : (\E i \in DOMAIN work : u = work[i]) /\ u[2] = round
BY DEF Hands, Plans, Slice

\* Counting the batch of a waiting thread, as done or as failed, keeps the
\* ledger, whatever becomes of its request.
LEMMA CountKeeps ==
  ASSUME Ledger, TypeOK', NEW w \in Workers, wpc[w] = "wait",
         wpc' = [wpc EXCEPT ![w] = "take"], batch' = [batch EXCEPT ![w] = {}],
         \/ done' = done \cup batch[w] /\ failed' = failed
         \/ failed' = failed \cup batch[w] /\ done' = done,
         \A q \in flying' : q.from = NoClient \/ (q \in flying /\ q.from # w),
         UNCHANGED <<mode, size, pc, round, work, next, oracle, wrong, split>>
  PROVE  Ledger'
<1>1. TypeOK /\ Hands /\ Requests /\ Plans
  BY DEF Ledger, Conserved
<1>2. Left' = Left /\ Starts(work)' = Starts(work) /\ Straddling(work)' = Straddling(work)
      /\ \A s : Slice(work, s)' = Slice(work, s)
  BY SamePlan
<1>3. pc = "run"
  BY <1>1 DEF Hands
<1>4. /\ wpc'[w] = "take" /\ batch'[w] = {}
      /\ \A v \in Workers : v # w => wpc'[v] = wpc[v] /\ batch'[v] = batch[v]
  BY <1>1 DEF TypeOK
<1>5. Conserved'
  <2>1. done' \cap failed' = {} /\ Left' \cap (done' \cup failed') = {}
    BY <1>2 DEF Ledger, Conserved
  <2>2. \A v \in Workers : batch'[v] \cap (done' \cup failed' \cup Left') = {}
    BY <1>2, <1>4 DEF Ledger, Conserved
  <2>3. \A v, x \in Workers : v # x => batch'[v] \cap batch'[x] = {}
    BY <1>4 DEF Ledger, Conserved
  <2>4. ToSet(work) \subseteq Left' \cup done' \cup failed' \cup UNION {batch'[v] : v \in Workers}
    <3>1. UNION {batch[v] : v \in Workers} = batch[w] \cup UNION {batch'[v] : v \in Workers}
      BY <1>4
    <3> QED
      BY <1>2, <3>1 DEF Ledger, Conserved
  <2>5. ToSet(work') = ToSet(work)
    OBVIOUS
  <2> QED
    BY <1>3, <2>1, <2>2, <2>3, <2>4, <2>5 DEF Conserved
<1>6. Hands'
  BY <1>1, <1>2, <1>3, <1>4 DEF Hands
<1>7. Requests'
  BY <1>1, <1>4 DEF Requests
<1>8. Plans'
  <2>1. \A u \in done' \cup failed' : u[2] <= round
    <3>1. \A u \in batch[w] : u[2] = round /\ round \in Nat
      BY <1>1, BatchIsWork DEF TypeOK
    <3> QED
      BY <1>1, <3>1 DEF Plans
  <2> QED
    BY <1>1, <1>2, <2>1 DEF Plans
<1> QED
  BY <1>5, <1>6, <1>7, <1>8 DEF Ledger

\* Taking a slice keeps the ledger.
LEMMA TakeKeeps ==
  ASSUME Ledger, TypeOK', NEW w \in Workers, Take(w)
  PROVE  Ledger'
<1>1. TypeOK /\ Hands /\ Requests /\ Plans
  BY DEF Ledger, Conserved
<1>2. /\ wpc[w] = "take" /\ next < Len(work) /\ next' = next + size
      /\ batch' = [batch EXCEPT ![w] = Slice(work, next)] /\ wpc' = [wpc EXCEPT ![w] = "wait"]
      /\ flying' = flying \cup {[from |-> w, ups |-> batch'[w], base |-> Unread]}
      /\ UNCHANGED <<mode, size, pc, round, work, oracle, done, failed, wrong, split>>
  BY DEF Take
<1>3. Starts(work)' = Starts(work) /\ Straddling(work)' = Straddling(work)
      /\ \A s : Slice(work, s)' = Slice(work, s)
  BY <1>2, SamePlan
<1>4. pc = "run" /\ batch[w] = {} /\ next \in Nat /\ size \in Nat \ {0} /\ Len(work) \in Nat
  BY <1>1, <1>2, PoolAssumption DEF Hands, TypeOK
<1>5. /\ Left = Slice(work, next) \cup Left' /\ Slice(work, next) \cap Left' = {}
      /\ next + size < Len(work) => next + size \in Starts(work)
  <2>1. Left' = {work[i] : i \in {k \in DOMAIN work : k > next + size}}
    BY <1>2 DEF Left
  <2> QED
    BY <1>1, <1>2, <2>1, SliceOfLeft, NextStart
<1>6. /\ wpc'[w] = "wait" /\ batch'[w] = Slice(work, next)
      /\ \A v \in Workers : v # w => wpc'[v] = wpc[v] /\ batch'[v] = batch[v]
  BY <1>1, <1>2 DEF TypeOK
<1>7. Conserved'
  <2>1. \A v \in Workers : batch'[v] \cap (done' \cup failed' \cup Left') = {}
    <3>1. Slice(work, next) \cap (done \cup failed) = {}
      BY <1>5 DEF Ledger, Conserved
    <3> QED
      BY <1>2, <1>5, <1>6, <3>1 DEF Ledger, Conserved
  <2>2. \A v, x \in Workers : v # x => batch'[v] \cap batch'[x] = {}
    BY <1>5, <1>6 DEF Ledger, Conserved
  <2>3. ToSet(work) \subseteq Left' \cup done' \cup failed' \cup UNION {batch'[v] : v \in Workers}
    <3>1. UNION {batch'[v] : v \in Workers} = Slice(work, next) \cup UNION {batch[v] : v \in Workers}
      BY <1>4, <1>6
    <3> QED
      BY <1>2, <1>5, <3>1 DEF Ledger, Conserved
  <2>4. ToSet(work') = ToSet(work)
    BY <1>2
  <2>5. done' \cap failed' = {} /\ Left' \cap (done' \cup failed') = {}
    BY <1>2, <1>5 DEF Ledger, Conserved
  <2>6. pc' = "run"
    BY <1>2, <1>4
  <2> QED
    BY <2>1, <2>2, <2>3, <2>4, <2>5, <2>6 DEF Conserved
<1>8. Hands'
  <2>1. \A v \in Workers : wpc[v] # "ended"
    BY <1>1, <1>2, <1>4 DEF Hands
  <2>2. next < next' /\ (next' < Len(work) => next' \in Starts(work)) /\ next \in Starts(work)
    BY <1>1, <1>2, <1>4, <1>5 DEF Hands
  <2>3. \A v \in Workers : batch'[v] # {} =>
           \E s \in Starts(work) : s < next' /\ batch'[v] = Slice(work, s)
    <3>1. \A s \in Starts(work) : s \in Nat
      BY <1>4 DEF Starts
    <3>2. \A s \in Nat : s < next => s < next'
      BY <1>2, <1>4
    <3>3. ASSUME NEW v \in Workers, v # w, batch'[v] # {}
          PROVE  \E s \in Starts(work) : s < next' /\ batch'[v] = Slice(work, s)
      BY <1>1, <1>6, <3>1, <3>2, <3>3 DEF Hands
    <3> QED
      BY <1>6, <2>2, <3>3
  <2> QED
    BY <1>1, <1>2, <1>3, <1>4, <1>6, <2>1, <2>2, <2>3 DEF Hands
<1>9. Requests'
  <2>1. \A q \in flying : q.from # w
    BY <1>1, <1>2, PoolAssumption DEF Requests, NoClient
  <2> QED
    BY <1>1, <1>2, <1>6, <2>1 DEF Requests
<1>10. Plans'
  BY <1>1, <1>2, <1>3 DEF Plans
<1> QED
  BY <1>7, <1>8, <1>9, <1>10 DEF Ledger

\* A new round keeps the ledger: its entries are none of those counted before.
LEMMA PlanKeeps ==
  ASSUME Ledger, TypeOK', PlanRound
  PROVE  Ledger'
<1>1. TypeOK /\ Hands /\ Requests /\ Plans
  BY DEF Ledger, Conserved
<1>2. PICK twice \in SUBSET Names : Plan(twice)
  BY DEF PlanRound
<1>3. /\ round' = round + 1 /\ pc = "plan" /\ pc' = "run" /\ next' = 0
      /\ work' \in Seq(Upserts) /\ \A i, j \in DOMAIN work' : work'[i] = work'[j] => i = j
      /\ \A i \in DOMAIN work' : work'[i][2] = round'
      /\ oracle' = [n \in Names |-> oracle[n] \cup Of(n, ToSet(work'))]
      /\ split' = split \cup Straddling(work')
      /\ wpc' = [w \in Workers |-> "take"] /\ batch' = [w \in Workers |-> {}]
      /\ UNCHANGED <<mode, size, flying, stored, done, failed, wrong>>
  BY <1>1, <1>2, PlanEffect
<1>4. Left' = ToSet(work') /\ round \in Nat
  <2>1. \A i \in DOMAIN work' : i > 0
    BY <1>3
  <2> QED
    BY <1>1, <1>3, <2>1 DEF Left, ToSet, TypeOK
<1>5. Conserved'
  <2>1. Left' \cap (done' \cup failed') = {}
    BY <1>1, <1>3, <1>4 DEF Plans, ToSet
  <2>2. \A w \in Workers : batch'[w] = {}
    BY <1>3
  <2>3. done' \cap failed' = {}
    BY <1>3 DEF Ledger, Conserved
  <2> QED
    BY <1>3, <1>4, <2>1, <2>2, <2>3 DEF Conserved
<1>6. Hands'
  <2>1. Len(work') \in Nat /\ size \in Nat
    BY <1>1, <1>3, PoolAssumption DEF TypeOK
  <2>2. 0 \in Starts(work)'
    BY <1>3, <2>1 DEF Starts
  <2> QED
    BY <1>3, <2>2 DEF Hands
<1>7. Requests'
  <2>1. \A w \in Workers : wpc[w] # "wait"
    BY <1>1, <1>3 DEF Hands
  <2>2. \A q \in flying : q.from = NoClient
    BY <1>1, <2>1 DEF Requests, TypeOK
  <2> QED
    BY <1>3, <2>2 DEF Requests
<1>8. Plans'
  <2>1. \A i \in DOMAIN work' : work'[i] \in oracle'[work'[i][1]]
    <3>1. \A i \in DOMAIN work' : work'[i] \in Upserts
      BY <1>3
    <3>2. \A u \in Upserts : u[1] \in Names
      BY DEF Upserts
    <3> QED
      BY <1>3, <3>1, <3>2 DEF Of, ToSet
  <2>2. \A n \in Names : \A u \in oracle'[n] : u[1] = n /\ u[2] <= round'
    <3>1. ASSUME NEW n \in Names, NEW u \in oracle[n] PROVE u[1] = n /\ u[2] <= round'
      <4>1. u[1] = n /\ u[2] <= round /\ u[2] \in Int
        BY <1>1, <3>1, PoolAssumption DEF Plans, TypeOK, Upserts
      <4> QED
        BY <1>3, <1>4, <4>1
    <3>2. ASSUME NEW n \in Names, NEW u \in Of(n, ToSet(work')) PROVE u[1] = n /\ u[2] <= round'
      BY <1>3, <1>4, <3>2 DEF Of, ToSet
    <3> QED
      BY <1>3, <3>1, <3>2
  <2>3. \A u \in done' \cup failed' : u[2] <= round'
    <3>1. ASSUME NEW u \in done \cup failed PROVE u[2] <= round /\ u[2] \in Int
      BY <1>1, <3>1, PoolAssumption DEF Plans, TypeOK, Upserts
    <3> QED
      BY <1>3, <1>4, <3>1
  <2>4. Straddling(work)' \subseteq split' /\ wrong' = {}
    <3>1. Straddling(work)' = Straddling(work')
      BY <1>3 DEF Straddling, Starts, Slice, Of
    <3>2. Straddling(work') \subseteq split'
      BY <1>3
    <3>3. wrong' = {}
      BY <1>1, <1>3 DEF Plans
    <3> QED
      BY <3>1, <3>2, <3>3
  <2> QED
    BY <1>3, <2>1, <2>2, <2>3, <2>4 DEF Plans
<1> QED
  BY <1>5, <1>6, <1>7, <1>8 DEF Ledger

\* A timeout of the sum bench keeps the ledger: the dead thread keeps its batch.
LEMMA TimeoutKeeps ==
  ASSUME Ledger, TypeOK', NEW w \in Workers, TimesOut(w)
  PROVE  Ledger'
<1>1. TypeOK /\ Hands /\ Requests /\ Plans
  BY DEF Ledger, Conserved
<1>2. /\ wpc[w] = "wait" /\ Abandon(w) /\ wpc' = [wpc EXCEPT ![w] = "died"]
      /\ UNCHANGED <<size, pc, round, work, next, batch, oracle, done, failed, wrong, split>>
  BY DEF TimesOut
<1>3. Left' = Left /\ Starts(work)' = Starts(work) /\ Straddling(work)' = Straddling(work)
      /\ \A s : Slice(work, s)' = Slice(work, s)
  BY <1>2, SamePlan
<1>4. pc = "run" /\ wpc'[w] = "died" /\ \A v \in Workers : v # w => wpc'[v] = wpc[v]
  BY <1>1, <1>2 DEF Hands, TypeOK
<1>5. Conserved'
  BY <1>2, <1>3, <1>4 DEF Ledger, Conserved, ToSet
<1>6. Hands'
  BY <1>1, <1>2, <1>3, <1>4 DEF Hands
<1>7. Requests'
  <2>1. \A q \in flying' : q.from = NoClient \/ (q \in flying /\ q.from # w)
    BY <1>1, <1>2, AbandonEffect DEF Mine
  <2> QED
    BY <1>1, <1>2, <1>4, <2>1 DEF Requests
<1>8. Plans'
  BY <1>1, <1>2, <1>3, <1>4 DEF Plans
<1> QED
  BY <1>5, <1>6, <1>7, <1>8 DEF Ledger

\* A thread that finds no work, the join and the comparison keep the ledger.
LEMMA EndsKeep ==
  ASSUME Ledger, TypeOK', (\E w \in Workers : NothingLeft(w)) \/ Join \/ Verify
  PROVE  Ledger'
<1>1. TypeOK /\ Hands /\ Requests /\ Plans
  BY DEF Ledger, Conserved
<1>2. UNCHANGED <<size, round, work, next, batch, flying, oracle, done, failed, split>>
  BY DEF NothingLeft, Join, Verify, pool
<1>3. Left' = Left /\ Starts(work)' = Starts(work) /\ Straddling(work)' = Straddling(work)
      /\ \A s : Slice(work, s)' = Slice(work, s)
  BY <1>2, SamePlan
<1>4. next >= Len(work) => Left = {}
  BY <1>1 DEF Left, TypeOK
<1>5. Hands' /\ Requests' /\ Plans'
  <2>1. CASE \E w \in Workers : NothingLeft(w)
    <3>1. PICK w \in Workers : NothingLeft(w)
      BY <2>1
    <3>2. /\ wpc[w] = "take" /\ next >= Len(work) /\ wpc' = [wpc EXCEPT ![w] = "ended"]
          /\ UNCHANGED <<pc, wrong>>
      BY <3>1 DEF NothingLeft
    <3>3. pc = "run" /\ wpc'[w] = "ended" /\ \A v \in Workers : v # w => wpc'[v] = wpc[v]
      BY <1>1, <3>2 DEF Hands, TypeOK
    <3>4. Hands'
      BY <1>1, <1>2, <1>3, <3>2, <3>3 DEF Hands
    <3>5. Requests'
      BY <1>1, <1>2, <3>2, <3>3 DEF Requests
    <3>6. Plans'
      BY <1>1, <1>2, <1>3, <3>2 DEF Plans
    <3> QED
      BY <3>4, <3>5, <3>6
  <2>2. CASE Join \/ Verify
    <3>1. wpc' = wpc /\ (\A v \in Workers : wpc[v] \in {"ended", "died"})
          /\ (pc' # "done" => wrong' = wrong /\ pc # "done")
      BY <1>1, <2>2 DEF Join, Verify, Hands, pool
    <3>2. Hands'
      BY <1>1, <1>2, <1>3, <3>1 DEF Hands
    <3>3. Requests'
      BY <1>1, <1>2, <3>1 DEF Requests
    <3>4. Plans'
      BY <1>1, <1>2, <1>3, <3>1 DEF Plans
    <3> QED
      BY <3>2, <3>3, <3>4
  <2> QED
    BY <2>1, <2>2
<1>6. Conserved'
  <2>1. pc' \notin {"plan", "run"} /\ Left # {} => \A w \in Workers : wpc'[w] = "died"
    BY <1>1, <1>2, <1>4, <1>5 DEF Hands
  <2> QED
    BY <1>2, <1>3, <2>1 DEF Ledger, Conserved, ToSet
<1> QED
  BY <1>5, <1>6 DEF Ledger

\* What the server does keeps the ledger.
LEMMA ServerKeeps ==
  ASSUME Ledger, TypeOK', NEW q \in flying, ReadExisting(q) \/ CommitBatch(q)
  PROVE  Ledger'
<1>1. TypeOK /\ Hands /\ Requests /\ Plans
  BY DEF Ledger, Conserved
<1>2. UNCHANGED <<size, pc, round, work, next, wpc, batch, oracle, done, failed, wrong, split>>
  BY DEF ReadExisting, CommitBatch, pool
<1>3. Left' = Left /\ Starts(work)' = Starts(work) /\ Straddling(work)' = Straddling(work)
      /\ \A s : Slice(work, s)' = Slice(work, s)
  BY <1>2, SamePlan
<1>4. \A r \in flying' : r \in flying \ {q} \/ (r.from = q.from /\ r.ups = q.ups)
  BY <1>1 DEF ReadExisting, CommitBatch, TypeOK
<1>5. \A r, x \in flying' : r \notin flying \ {q} /\ x \notin flying \ {q} => r = x
  BY DEF ReadExisting, CommitBatch
<1>6. Requests'
  BY <1>1, <1>2, <1>4, <1>5 DEF Requests
<1>7. Conserved'
  BY <1>2, <1>3 DEF Ledger, Conserved, ToSet
<1>8. Hands' /\ Plans'
  BY <1>1, <1>2, <1>3 DEF Hands, Plans
<1> QED
  BY <1>6, <1>7, <1>8 DEF Ledger

\* Every step keeps the ledger.
LEMMA LedgerStep == Ledger /\ [Next]_vars => Ledger'
<1> SUFFICES ASSUME Ledger, [Next]_vars PROVE Ledger'
  OBVIOUS
<1>1. TypeOK /\ Hands /\ Requests /\ Plans
  BY DEF Ledger, Conserved
<1>2. TypeOK'
  BY <1>1, TypeStep
<1>3. ASSUME NEW w \in Workers, Acknowledged(w) PROVE Ledger'
  <2>1. \A q \in flying' : q.from = NoClient \/ (q \in flying /\ q.from # w)
    BY <1>3 DEF Acknowledged, Mine
  <2> QED
    BY <1>2, <1>3, <2>1, CountKeeps DEF Acknowledged
<1>4. ASSUME NEW w \in Workers, Refused(w) PROVE Ledger'
  <2>1. \A q \in flying' : q.from = NoClient \/ (q \in flying /\ q.from # w)
    BY <1>4 DEF Refused, Mine
  <2> QED
    BY <1>2, <1>4, <2>1, CountKeeps DEF Refused
<1>5. ASSUME NEW w \in Workers, CountedTimeout(w) PROVE Ledger'
  <2>1. \A q \in flying' : q.from = NoClient \/ (q \in flying /\ q.from # w)
    BY <1>1, <1>5, AbandonEffect DEF CountedTimeout, Mine
  <2> QED
    BY <1>2, <1>5, <2>1, CountKeeps DEF CountedTimeout
<1>6. ASSUME UNCHANGED vars PROVE Ledger'
  <2>1. UNCHANGED <<size, pc, round, work, next, wpc, batch, flying, oracle, done, failed, wrong,
                    split>>
    BY <1>6 DEF vars, pool
  <2>2. Left' = Left /\ Starts(work)' = Starts(work) /\ Straddling(work)' = Straddling(work)
        /\ \A s : Slice(work, s)' = Slice(work, s)
    BY <2>1, SamePlan
  <2>3. Conserved'
    BY <1>2, <2>1, <2>2 DEF Ledger, Conserved, ToSet
  <2>4. Hands' /\ Requests' /\ Plans'
    BY <1>1, <2>1, <2>2 DEF Hands, Requests, Plans
  <2> QED
    BY <2>3, <2>4 DEF Ledger
<1> QED
  BY <1>2, <1>3, <1>4, <1>5, <1>6, TakeKeeps, PlanKeeps, TimeoutKeeps, EndsKeep, ServerKeeps
     DEF Next, WorkerStep

----------------------------------------------------------------------------
\* Two threads do not hold upserts of the same account, unless a round of it is
\* split over two batches.
LEMMA OneBatch ==
  ASSUME Ledger, NEW n \in Names \ split, NEW v \in Workers, NEW w \in Workers, v # w
  PROVE  Of(n, batch[v]) = {} \/ Of(n, batch[w]) = {}
<1> SUFFICES ASSUME Of(n, batch[v]) # {}, Of(n, batch[w]) # {} PROVE FALSE
  OBVIOUS
<1>1. batch[v] # {} /\ batch[w] # {} /\ batch[v] \cap batch[w] = {}
  BY DEF Of, Ledger, Conserved
<1>2. PICK s \in Starts(work) : batch[v] = Slice(work, s)
  BY <1>1 DEF Ledger, Hands
<1>3. PICK t \in Starts(work) : batch[w] = Slice(work, t)
  BY <1>1 DEF Ledger, Hands
<1>4. s # t
  BY <1>1, <1>2, <1>3
<1>5. n \in Straddling(work)
  BY <1>2, <1>3, <1>4 DEF Straddling
<1> QED
  BY <1>5 DEF Ledger, Plans

\* What a thread holds of an account is in its oracle.
LEMMA HeldIsExpected ==
  ASSUME Ledger, NEW n \in Names, NEW w \in Workers
  PROVE  Of(n, batch[w]) \subseteq oracle[n]
BY BatchIsWork DEF Ledger, Plans, Of

\* A thread whose request is refused or given up held nothing of an account that
\* is still on course, so that account's balance is as it was.
LEMMA GiveUpBalances ==
  ASSUME PoolInv, NEW n \in Names \ split, NEW w \in Workers, wpc[w] = "wait",
         wpc'[w] # "wait",
         \A v \in Workers : v # w => wpc'[v] = wpc[v] /\ batch'[v] = batch[v],
         \A q \in flying' : q \in flying \ Mine(w) \/
            \E r \in Mine(w) : q.from = NoClient /\ q.ups = r.ups /\ q.base = r.base,
         flying \ Mine(w) \subseteq flying',
         UNCHANGED <<size, work, next, stored, oracle, done>>, OnCourse(n)'
  PROVE  Balanced(n)'
<1>1. Ledger
  BY DEF PoolInv, Ledger
<1>2. Left' = Left
  BY SamePlan
<1>3. Of(n, batch[w]) = {}
  <2> SUFFICES ASSUME NEW u \in Of(n, batch[w]) PROVE FALSE
    OBVIOUS
  <2>1. u \in oracle[n] /\ u \in batch[w]
    BY <1>1, HeldIsExpected DEF Of
  <2>2. u \notin done \cup Left
    BY <1>1, <2>1 DEF Ledger, Conserved
  <2>3. \A v \in Workers : v # w => u \notin batch[v]
    BY <1>1, <2>1 DEF Ledger, Conserved
  <2> QED
    BY <1>2, <2>1, <2>2, <2>3 DEF OnCourse
<1>4. OnCourse(n)
  BY <1>2 DEF OnCourse
<1>5. Balanced(n)
  BY <1>4 DEF PoolInv
<1>6. \A q \in Mine(w) : Of(n, q.ups) = {}
  <2>1. NoClient \notin Workers
    BY PoolAssumption DEF NoClient
  <2> QED
    BY <1>1, <1>3, <2>1 DEF Ledger, Requests, Mine
<1>7. \A q \in flying' : Of(n, q.ups) # {} => q \in flying
  BY <1>6
<1>8. \A v \in Workers : v # w => Mine(v) \subseteq Mine(v)'
  BY DEF Mine
<1>9. \A q \in flying' : Of(n, q.ups)' = Of(n, q.ups)
  BY DEF Of
<1>10. \A v \in Workers : Of(n, batch[v])' = Of(n, batch'[v])
  BY DEF Of
<1> QED
  BY <1>5, <1>7, <1>8 DEF Balanced, Of

\* Writing a batch: the account is written by the one request that is under way
\* for it, from what is stored.
LEMMA CommitBalances ==
  ASSUME PoolInv, NEW n \in Names \ split, OnCourse(n), NEW q \in flying, CommitBatch(q)
  PROVE  Balanced(n)'
<1>1. Ledger /\ Balanced(n) /\ TypeOK /\ Requests
  BY DEF PoolInv, Ledger, Conserved
<1>2. /\ flying' = flying \ {q} /\ UNCHANGED <<wpc, batch, oracle, done>>
      /\ q.base # Unread
      /\ stored'[n] = IF Of(n, q.ups) = {} THEN stored[n] ELSE q.base[n] \cup Of(n, q.ups)
  BY DEF CommitBatch, pool
<1>3. q.from # NoClient => q.from \in Workers
  BY <1>1 DEF TypeOK
<1>4. \A v \in Workers : Mine(v)' = {} => Mine(v) = {} \/ (q.from = v /\ batch[v] = q.ups)
  <2>1. NoClient \notin Workers
    BY PoolAssumption DEF NoClient
  <2> QED
    BY <1>1, <1>2, <2>1 DEF Mine, Requests
<1>5. CASE Of(n, q.ups) = {}
  BY <1>1, <1>2, <1>4, <1>5 DEF Balanced, Of
<1>6. CASE Of(n, q.ups) # {}
  <2>1. q.from \in Workers /\ q.ups = batch[q.from] /\ wpc[q.from] = "wait"
        /\ q.base[n] = stored[n]
    BY <1>1, <1>2, <1>3, <1>6 DEF Balanced, Requests
  <2>2. stored'[n] = stored[n] \cup Of(n, q.ups)
    BY <1>2, <1>6, <2>1
  <2>3. stored'[n] \subseteq oracle[n]
    BY <1>1, <2>1, <2>2, HeldIsExpected DEF Balanced
  <2>4. \A r \in flying' : Of(n, r.ups) = {}
    <3> SUFFICES ASSUME NEW r \in flying', Of(n, r.ups) # {} PROVE FALSE
      OBVIOUS
    <3>1. r \in flying /\ r # q /\ r.from # NoClient
      BY <1>1, <1>2 DEF Balanced
    <3>2. r.from \in Workers /\ r.ups = batch[r.from] /\ r.from # q.from
      BY <1>1, <3>1 DEF Requests, TypeOK
    <3> QED
      BY <1>1, <1>6, <2>1, <3>2, OneBatch
  <2>5. \A v \in Workers : wpc[v] = "wait" /\ Mine(v)' = {} => Of(n, batch[v]) \subseteq stored'[n]
    BY <1>1, <1>4, <2>2 DEF Balanced
  <2> QED
    BY <1>1, <1>2, <2>2, <2>3, <2>4, <2>5 DEF Balanced, Of
<1> QED
  BY <1>5, <1>6

\* A new round gives an account on course nothing but work that is left.
LEMMA PlanBalances ==
  ASSUME PoolInv, PlanRound, NEW n \in Names \ split', OnCourse(n)'
  PROVE  Balanced(n)'
<1>1. TypeOK /\ Hands /\ Plans
  BY DEF PoolInv, Conserved
<1>2. PICK twice \in SUBSET Names : Plan(twice)
  BY DEF PlanRound
<1>3. /\ round' = round + 1 /\ pc = "plan"
      /\ work' \in Seq(Upserts) /\ \A i \in DOMAIN work' : work'[i][2] = round'
      /\ oracle' = [m \in Names |-> oracle[m] \cup Of(m, ToSet(work'))]
      /\ split' = split \cup Straddling(work')
      /\ wpc' = [w \in Workers |-> "take"] /\ batch' = [w \in Workers |-> {}]
      /\ UNCHANGED <<mode, size, flying, stored, done, failed, wrong>>
  BY <1>1, <1>2, PlanEffect
<1>4. oracle[n] \subseteq oracle'[n] /\ n \notin split
  BY <1>3
<1>5. oracle[n] \subseteq done
  <2> SUFFICES ASSUME NEW u \in oracle[n] PROVE u \in done
    OBVIOUS
  <2>1. u \in done \cup Left'
    BY <1>3, <1>4 DEF OnCourse
  <2>2. u[2] <= round /\ round \in Nat
    BY <1>1 DEF Plans, TypeOK
  <2>3. u \notin Left'
    <3>1. \A x \in Left' : x[2] = round'
      BY <1>3 DEF Left
    <3> QED
      BY <1>3, <2>2, <3>1
  <2> QED
    BY <2>1, <2>3
<1>6. Balanced(n)
  BY <1>4, <1>5 DEF PoolInv, OnCourse
<1>7. \A w \in Workers : wpc'[w] # "wait"
  BY <1>3
<1> QED
  BY <1>3, <1>4, <1>6, <1>7 DEF Balanced, Of

\* Every step keeps the balance of the accounts that stay on course.
LEMMA BalanceStep ==
  ASSUME PoolInv, [Next]_vars, NEW n \in Names \ split', OnCourse(n)'
  PROVE  Balanced(n)'
<1>1. Ledger /\ TypeOK /\ Hands /\ Requests /\ Plans
  BY DEF PoolInv, Ledger, Conserved
<1>2. ASSUME PlanRound PROVE Balanced(n)'
  BY <1>2, PlanBalances
<1>3. ASSUME NEW w \in Workers, Take(w) PROVE Balanced(n)'
  <2>1. /\ wpc[w] = "take" /\ next < Len(work) /\ next' = next + size
        /\ batch' = [batch EXCEPT ![w] = Slice(work, next)] /\ wpc' = [wpc EXCEPT ![w] = "wait"]
        /\ flying' = flying \cup {[from |-> w, ups |-> batch'[w], base |-> Unread]}
        /\ UNCHANGED <<work, stored, oracle, done, split>>
    BY <1>3 DEF Take
  <2>2. /\ wpc'[w] = "wait" /\ batch'[w] = Slice(work, next)
        /\ \A v \in Workers : v # w => wpc'[v] = wpc[v] /\ batch'[v] = batch[v]
    BY <1>1, <2>1 DEF TypeOK
  <2>3. Left = Slice(work, next) \cup Left'
    <3>1. Left' = {work[i] : i \in {k \in DOMAIN work : k > next + size}}
      BY <2>1 DEF Left
    <3> QED
      BY <1>1, <2>1, <3>1, SliceOfLeft
  <2>4. OnCourse(n)
    BY <2>1, <2>2, <2>3 DEF OnCourse
  <2>5. Balanced(n)
    BY <2>1, <2>4 DEF PoolInv
  <2>6. \A v \in Workers : Mine(v)' = {} => v # w /\ Mine(v) = {}
    <3> DEFINE sent == [from |-> w, ups |-> batch'[w], base |-> Unread]
    <3>0. sent.from = w /\ flying' = flying \cup {sent}
      BY <2>1
    <3> HIDE DEF sent
    <3>1. flying \subseteq flying' /\ \E q \in flying' : q.from = w
      BY <3>0
    <3>2. \A v \in Workers : Mine(v) \subseteq Mine(v)'
      BY <3>1 DEF Mine
    <3>3. Mine(w)' # {}
      BY <3>1 DEF Mine
    <3> QED
      BY <3>2, <3>3
  <2>7. \A q \in flying' : q \in flying \/ (q.from = w /\ q.base = Unread)
    BY <2>1
  <2>8. NoClient # w
    BY PoolAssumption DEF NoClient
  <2> QED
    BY <2>1, <2>2, <2>5, <2>6, <2>7, <2>8 DEF Balanced, Of
<1>4. ASSUME NEW w \in Workers, Acknowledged(w) PROVE Balanced(n)'
  <2>1. /\ wpc[w] = "wait" /\ Mine(w) = {} /\ wpc' = [wpc EXCEPT ![w] = "take"]
        /\ batch' = [batch EXCEPT ![w] = {}] /\ done' = done \cup batch[w]
        /\ UNCHANGED <<size, work, next, flying, stored, oracle, split>>
    BY <1>4 DEF Acknowledged
  <2>2. /\ wpc'[w] = "take"
        /\ \A v \in Workers : v # w => wpc'[v] = wpc[v] /\ batch'[v] = batch[v]
    BY <1>1, <2>1 DEF TypeOK
  <2>3. Left' = Left
    BY <2>1, SamePlan
  <2>4. OnCourse(n)
    BY <2>1, <2>2, <2>3 DEF OnCourse
  <2>5. Balanced(n)
    BY <2>1, <2>4 DEF PoolInv
  <2> QED
    BY <2>1, <2>2, <2>5 DEF Balanced, Of, Mine
<1>5. ASSUME NEW w \in Workers, Refused(w) PROVE Balanced(n)'
  <2>1. /\ wpc[w] = "wait" /\ wpc' = [wpc EXCEPT ![w] = "take"]
        /\ batch' = [batch EXCEPT ![w] = {}] /\ flying' = flying \ Mine(w)
        /\ UNCHANGED <<size, work, next, stored, oracle, done, split>>
    BY <1>5 DEF Refused
  <2>2. /\ wpc'[w] = "take"
        /\ \A v \in Workers : v # w => wpc'[v] = wpc[v] /\ batch'[v] = batch[v]
    BY <1>1, <2>1 DEF TypeOK
  <2> QED
    BY <2>1, <2>2, GiveUpBalances
<1>6. ASSUME NEW w \in Workers, TimesOut(w) \/ CountedTimeout(w) PROVE Balanced(n)'
  <2>1. /\ wpc[w] = "wait" /\ Abandon(w)
        /\ UNCHANGED <<size, work, next, stored, oracle, done, split>>
    BY <1>6 DEF TimesOut, CountedTimeout
  <2>2. /\ wpc'[w] # "wait"
        /\ \A v \in Workers : v # w => wpc'[v] = wpc[v] /\ batch'[v] = batch[v]
    BY <1>1, <1>6 DEF TypeOK, TimesOut, CountedTimeout
  <2>3. flying \ Mine(w) \subseteq flying'
    BY <2>1 DEF Abandon
  <2>4. \A q \in flying' : q \in flying \ Mine(w) \/
            \E r \in Mine(w) : q.from = NoClient /\ q.ups = r.ups /\ q.base = r.base
    BY <1>1, <2>1, AbandonEffect
  <2> QED
    BY <2>1, <2>2, <2>3, <2>4, GiveUpBalances
<1>7. ASSUME (\E w \in Workers : NothingLeft(w)) \/ Join \/ Verify PROVE Balanced(n)'
  <2>1. UNCHANGED <<size, work, next, batch, flying, stored, oracle, done, split>>
    BY <1>7 DEF NothingLeft, Join, Verify, pool
  <2>2. \A v \in Workers : wpc'[v] = "wait" <=> wpc[v] = "wait"
    BY <1>1, <1>7 DEF NothingLeft, Join, Verify, pool, TypeOK
  <2>3. Left' = Left
    BY <2>1, SamePlan
  <2>4. OnCourse(n)
    BY <2>1, <2>2, <2>3 DEF OnCourse
  <2>5. Balanced(n)
    BY <2>1, <2>4 DEF PoolInv
  <2> QED
    BY <2>1, <2>2, <2>5 DEF Balanced, Of, Mine
<1>8. ASSUME NEW q \in flying, ReadExisting(q) PROVE Balanced(n)'
  <2>1. /\ flying' = (flying \ {q}) \cup {[q EXCEPT !.base = stored]}
        /\ UNCHANGED <<size, work, next, wpc, batch, stored, oracle, done, split>>
    BY <1>8 DEF ReadExisting, pool
  <2>2. Left' = Left
    BY <2>1, SamePlan
  <2>3. OnCourse(n)
    BY <2>1, <2>2 DEF OnCourse
  <2>4. Balanced(n)
    BY <2>1, <2>3 DEF PoolInv
  <2>5. \E r \in flying' : /\ r.from = q.from /\ r.ups = q.ups /\ r.base = stored
                          /\ flying' = (flying \ {q}) \cup {r}
    BY <1>1, <2>1 DEF TypeOK
  <2>6. \A v \in Workers : Mine(v)' = {} => Mine(v) = {}
    BY <2>5 DEF Mine
  <2> QED
    BY <2>1, <2>4, <2>5, <2>6 DEF Balanced, Of
<1>9. ASSUME NEW q \in flying, CommitBatch(q) PROVE Balanced(n)'
  <2>1. UNCHANGED <<size, work, next, wpc, batch, oracle, done, split>>
    BY <1>9 DEF CommitBatch, pool
  <2>2. Left' = Left
    BY <2>1, SamePlan
  <2>3. OnCourse(n)
    BY <2>1, <2>2 DEF OnCourse
  <2> QED
    BY <1>9, <2>1, <2>3, CommitBalances
<1>10. ASSUME UNCHANGED vars PROVE Balanced(n)'
  <2>1. UNCHANGED <<size, work, next, wpc, batch, flying, stored, oracle, done, split>>
    BY <1>10 DEF vars, pool
  <2>2. Left' = Left
    BY <2>1, SamePlan
  <2>3. OnCourse(n)
    BY <2>1, <2>2 DEF OnCourse
  <2>4. Balanced(n)
    BY <2>1, <2>3 DEF PoolInv
  <2> QED
    BY <2>1, <2>4 DEF Balanced, Of, Mine
<1> QED
  BY <1>2, <1>3, <1>4, <1>5, <1>6, <1>7, <1>8, <1>9, <1>10 DEF Next, WorkerStep

\* A mismatch is reported at the end only, of an account that is not on course,
\* or split; what it is compared with stays.
LEMMA MismatchStep == PoolInv /\ MismatchExplained /\ [Next]_vars => MismatchExplained'
<1> SUFFICES ASSUME PoolInv, MismatchExplained, [Next]_vars PROVE MismatchExplained'
  OBVIOUS
<1>1. TypeOK /\ Hands /\ Plans
  BY DEF PoolInv, Conserved
<1>2. ASSUME Verify PROVE MismatchExplained'
  <2>1. /\ UNCHANGED <<stored, oracle, done, split>>
        /\ wrong' \subseteq {n \in Names : stored[n] # {} /\ stored[n] # oracle[n]}
    BY <1>2 DEF Verify
  <2>2. SUFFICES ASSUME NEW n \in Names, stored[n] # oracle[n], n \notin split,
                        oracle[n] \subseteq done
                 PROVE  FALSE
    BY <2>1 DEF MismatchExplained
  <2>3. Balanced(n)
    BY <2>2 DEF PoolInv, OnCourse
  <2>4. oracle[n] \subseteq Of(n, done)
    BY <1>1, <2>2 DEF Plans, Of
  <2> QED
    BY <2>2, <2>3, <2>4 DEF Balanced
<1>3. CASE ~Verify /\ pc # "done"
  <2>1. wrong = {}
    BY <1>1, <1>3 DEF Plans
  <2>2. wrong' = wrong
    BY <1>3 DEF Next, WorkerStep, PlanRound, Plan, Take, NothingLeft, Acknowledged, Refused,
                TimesOut, CountedTimeout, Join, ReadExisting, CommitBatch, vars
  <2> QED
    BY <2>1, <2>2 DEF MismatchExplained
<1>4. CASE ~Verify /\ pc = "done"
  <2>1. \A w \in Workers : wpc[w] \in {"ended", "died"}
    BY <1>1, <1>4 DEF Hands
  <2>2. UNCHANGED <<wrong, oracle, done, split>>
    BY <1>4, <2>1 DEF Next, WorkerStep, PlanRound, Plan, Take, NothingLeft, Acknowledged, Refused,
                TimesOut, CountedTimeout, Join, ReadExisting, CommitBatch, vars
  <2> QED
    BY <2>2 DEF MismatchExplained
<1> QED
  BY <1>2, <1>3, <1>4

\* Before the first round nothing has been planned, sent or stored.
LEMMA PoolInit == Init => PoolInv /\ MismatchExplained
<1> SUFFICES ASSUME Init PROVE PoolInv /\ MismatchExplained
  OBVIOUS
<1> USE DEF Init
<1>1. work = <<>> /\ next = 0 /\ DOMAIN work = {} /\ Len(work) = 0
  OBVIOUS
<1>2. Left = {} /\ ToSet(work) = {}
  BY <1>1 DEF Left, ToSet
<1>3. TypeOK
  BY PoolAssumption DEF TypeOK
<1>4. Conserved
  BY <1>2, <1>3 DEF Conserved
<1>5. Hands
  BY <1>1 DEF Hands
<1>6. Requests
  BY DEF Requests
<1>7. Plans
  <2>1. \A s : Slice(work, s) = {}
    BY <1>1 DEF Slice
  <2>2. Straddling(work) = {}
    BY <2>1 DEF Straddling, Of
  <2> QED
    BY <1>1, <2>2 DEF Plans
<1>8. \A n \in Names : Balanced(n)
  BY DEF Balanced, Of
<1> QED
  BY <1>4, <1>5, <1>6, <1>7, <1>8 DEF PoolInv, MismatchExplained

----------------------------------------------------------------------------
\* The ledger of the loaders, and with it the balance of every account that is
\* on course and not split, hold in every state: any number of names, threads
\* and rounds, any batch size.
THEOREM PoolInvariant == Spec => []PoolInv
<1>1. Init => PoolInv
  BY PoolInit
<1>2. PoolInv /\ [Next]_vars => PoolInv'
  <2> SUFFICES ASSUME PoolInv, [Next]_vars PROVE PoolInv'
    OBVIOUS
  <2>1. Ledger'
    BY LedgerStep DEF PoolInv, Ledger
  <2>2. \A n \in Names \ split' : OnCourse(n)' => Balanced(n)'
    BY BalanceStep
  <2> QED
    BY <2>1, <2>2 DEF PoolInv, Ledger
<1> QED
  BY <1>1, <1>2, PTL DEF Spec

\* No loader sends an entry twice, counts one twice or forgets one.
THEOREM EntriesConserved == Spec => []Conserved
<1>1. PoolInv => Conserved
  BY DEF PoolInv
<1> QED
  BY <1>1, PoolInvariant, PTL

\* Every mismatch the sum bench reports has one of the two reasons.
THEOREM MismatchesExplained == Spec => []MismatchExplained
<1>1. Init => MismatchExplained
  BY PoolInit
<1>2. PoolInv /\ MismatchExplained /\ [Next]_vars => MismatchExplained'
  BY MismatchStep
<1> QED
  BY <1>1, <1>2, PoolInvariant, PTL DEF Spec
=============================================================================
