------------------------ MODULE SuiteVerdictsProofs ------------------------
(***************************************************************************)
(* Proofs about SuiteVerdicts for any sections, selections, servers,       *)
(* answers and number of runs.  CoreInv is about the shape of the reports  *)
(* (a key is used once); TileInv, ScriptInv and OrderInv build on it, one  *)
(* for each claim: the union of the tiles, the vertices of K5, and the     *)
(* order of the cases, from which a clean comparison gets its meaning.     *)
(* What a sequence, a sum or a program holds at each place is found by the *)
(* least place where it would not (LeastNat, SetInduction).                *)
(***************************************************************************)
EXTENDS SuiteVerdicts, FiniteSetTheorems, WellFoundedInduction, TLAPS

----------------------------------------------------------------------------
(* The parts of the invariants                                             *)

\* A report as the run process makes one: a key is used once, and is made of
\* the section, the name, the part and the number of the copy.
WellMade(report) ==
    /\ report \in Seq(ToSet(report))
    /\ \A i, j \in DOMAIN report : report[i].key = report[j].key => i = j
    /\ \A i \in DOMAIN report :
          /\ report[i].err \in BOOLEAN
          /\ report[i].key = <<report[i].asked.sec, report[i].asked.name,
                               report[i].key[3], report[i].key[4]>>

\* The reports there are.
Reports ==
    /\ WellMade(cases) /\ \A f \in DOMAIN files : WellMade(files[f])
    /\ expect = NoReport \/ WellMade(expect)

\* A run that has not come to its end has no file yet.
RunsLeft == Len(files) + (IF pc = "run" THEN 1 ELSE 0) <= runs

\* The tiles are those of the cases.
TilesSoFar ==
    /\ tiles.err <=> \E i \in DOMAIN cases : IsTile(cases[i]) /\ cases[i].err
    /\ ~tiles.err => tiles.ids = TileIds(cases)[Len(cases)]

\* A cleanup comes before the next baseline.
CleanupAhead(list) ==
    \E j \in DOMAIN list : list[j].ask = "cleanup" /\ \A m \in 1..j : list[m].ask # "baseline"

\* A script that is not the very next request comes after its baseline, and its
\* cleanup before another.
ScriptsAhead(list) ==
    \A k \in DOMAIN list : list[k].ask = "script" =>
        /\ k > 1 => list[k - 1].ask = "baseline"
        /\ \E j \in DOMAIN list : /\ j > k /\ list[j].ask = "cleanup"
                                  /\ \A m \in k..j : list[m].ask # "baseline"

\* The request before the script got no answer.
BaseFailed == \E k \in DOMAIN cases : cases[k].asked.ask = "baseline" /\ cases[k].err

\* What K5 knows of the graph: fresh vertices nobody has lost are those of this
\* run, and it will drop them; the baseline was taken without them.
GraphKnown ==
    /\ ScriptsAhead(todo)
    /\ \A b \in Backends : fresh[b] /\ ~lost[b] =>
          b = backend /\ pc = "run" /\ CleanupAhead(todo)
    /\ pc = "run" /\ todo # <<>> /\ todo[1].ask = "script" =>
          base = BagCardinality(Gold) \/ lost[backend] \/ BaseFailed

\* The requests of a selection.
Asks(sel) ==
    UNION {{Request(s, k) : k \in DOMAIN Steps[s]} : s \in {x \in ToSet(Order) : x \in sel}}

\* A request comes before another, by its section and then by its place in it.
Before(a, b) ==
    \/ \E i, j \in DOMAIN Order : Order[i] = a.sec /\ Order[j] = b.sec /\ i < j
    \/ a.sec = b.sec /\ a.no < b.no

\* What a request is recorded as when it does not fail.
PartsOf(ask) ==
    CASE ask = "script"  -> {"before", "after", "gain", "change"}
      [] ask = "pages"   -> {"ids", "pages"}
      [] ask = "repeat"  -> {"distinct"}
      [] ask = "cleanup" -> {}
      [] OTHER           -> {"ids"}

\* The place of a part among those of its request.
PartNo == [before |-> 1, after |-> 2, gain |-> 3, change |-> 4,
           ids |-> 1, pages |-> 2, distinct |-> 1]

\* A case comes before another, by its request and then by its part.
Earlier(c, d) ==
    \/ Before(c.asked, d.asked)
    \/ c.asked = d.asked /\ PartNo[c.key[3]] < PartNo[d.key[3]]

\* A report so far, and what is still to be asked: in order, and without errors
\* nothing is missing.
Follows(report, list, sel) ==
    /\ \A k \in DOMAIN list : list[k] \in Asks(sel)
    /\ \A i, j \in DOMAIN list : i < j => Before(list[i], list[j])
    /\ \A i \in DOMAIN report : /\ report[i].asked \in Asks(sel)
                                /\ report[i].key[3] \in PartsOf(report[i].asked.ask)
    /\ \A i, j \in DOMAIN report : i < j => Earlier(report[i], report[j])
    /\ \A i \in DOMAIN report, k \in DOMAIN list : Before(report[i].asked, list[k])
    /\ (\A i \in DOMAIN report : ~report[i].err) =>
          \A a \in Asks(sel) :
             \/ \E k \in DOMAIN list : list[k] = a
             \/ \A p \in PartsOf(a.ask) :
                   \E i \in DOMAIN report : report[i].asked = a /\ report[i].key[3] = p

\* A report of a run that came to its end.
Whole(report) == \E sel \in Selections : Follows(report, <<>>, sel)

----------------------------------------------------------------------------
(* Induction *)

\* A set of natural numbers has a least one.
LEMMA LeastNat ==
    \A S \in SUBSET Nat : S # {} => \E m \in S : \A k \in S : m <= k
<1> SUFFICES ASSUME NEW S \in SUBSET Nat, S # {}
             PROVE  \E m \in S : \A k \in S : m <= k
  OBVIOUS
<1> DEFINE R == OpToRel(<, Nat)
<1>1. IsWellFoundedOn(R, Nat)
  BY NatLessThanWellFounded
<1>2. R = {ss \in Nat \X Nat : ss[1] < ss[2]}
  BY DEF OpToRel
<1> HIDE DEF R
<1>3. PICK m \in S : \A k \in S : <<k, m>> \notin R
  BY <1>1, WFMin
<1>4. \A k \in S : ~(k < m)
  BY <1>2, <1>3
<1> QED
  BY <1>4

\* A set with 0 and every successor has every number.
LEMMA SetInduction ==
    ASSUME NEW S, 0 \in S, \A n \in Nat : n \in S => n + 1 \in S
    PROVE  \A n \in Nat : n \in S
<1> SUFFICES ASSUME Nat \ S # {} PROVE FALSE
  OBVIOUS
<1>1. PICK m \in Nat \ S : \A k \in Nat \ S : m <= k
  BY LeastNat
<1>2. m # 0 /\ m - 1 \in Nat /\ m - 1 \in S
  BY <1>1
<1> QED
  BY <1>1, <1>2

\* The program of a selection grows section by section.
LEMMA ProgramsUnfold ==
    ASSUME NEW sel
    PROVE  Programs(sel) = [i \in 0..Len(Order) |->
               IF i = 0 THEN <<>>
               ELSE IF Order[i] \in sel THEN Programs(sel)[i - 1] \o Section(Order[i])
               ELSE Programs(sel)[i - 1]]
<1> DEFINE step(s, i) == IF Order[i] \in sel THEN s \o Section(Order[i]) ELSE s
           Fits(f, n) == f = [i \in 0..n |-> IF i = 0 THEN <<>> ELSE step(f[i - 1], i)]
           T == {n \in Nat : \E f : Fits(f, n)}
<1>1. 0 \in T
  <2> DEFINE f == [i \in 0..0 |-> <<>>]
  <2>1. Fits(f, 0)
    OBVIOUS
  <2> QED
    BY <2>1
<1>2. ASSUME NEW n \in Nat, n \in T PROVE n + 1 \in T
  <2>1. PICK f : Fits(f, n)
    BY <1>2
  <2> DEFINE g == [i \in 0..(n + 1) |-> IF i <= n THEN f[i] ELSE step(f[n], n + 1)]
  <2> HIDE DEF step
  <2>2. \A i \in 0..n : f[i] = IF i = 0 THEN <<>> ELSE step(f[i - 1], i)
    BY <2>1
  <2>3. \A i \in 0..(n + 1) : g[i] = IF i = 0 THEN <<>> ELSE step(g[i - 1], i)
    BY <2>2
  <2> DEFINE h == [i \in 0..(n + 1) |-> IF i = 0 THEN <<>> ELSE step(g[i - 1], i)]
  <2>4. \A i \in 0..(n + 1) : g[i] = h[i]
    <3> HIDE DEF g
    <3> QED
      BY <2>3
  <2>5. g = h
    <3>1. DOMAIN g = 0..(n + 1) /\ DOMAIN h = 0..(n + 1)
      OBVIOUS
    <3>2. g = [i \in 0..(n + 1) |-> g[i]] /\ h = [i \in 0..(n + 1) |-> h[i]]
      OBVIOUS
    <3> HIDE DEF g, h
    <3> QED
      BY <2>4, <3>2
  <2> HIDE DEF g
  <2>6. Fits(g, n + 1)
    BY <2>5
  <2> HIDE DEF Fits
  <2> QED
    BY <2>6
<1>3. Len(Order) \in T
  <2>1. Len(Order) \in Nat
    BY SuiteAssumption
  <2> HIDE DEF T
  <2> QED
    BY <1>1, <1>2, <2>1, SetInduction
<1>4. PICK f : Fits(f, Len(Order))
  BY <1>3
<1>5. Programs(sel) = CHOOSE h : Fits(h, Len(Order))
  BY DEF Programs
<1> HIDE DEF Fits
<1>6. Fits(Programs(sel), Len(Order))
  BY <1>4, <1>5
<1> QED
  BY <1>6 DEF Fits

\* The ids of the tiles grow case by case.
LEMMA TileIdsUnfold ==
    ASSUME NEW report, Len(report) \in Nat
    PROVE  TileIds(report) = [i \in 0..Len(report) |->
               IF i = 0 THEN EmptyBag
               ELSE IF IsTile(report[i]) THEN TileIds(report)[i - 1] (+) report[i].ids
               ELSE TileIds(report)[i - 1]]
<1> DEFINE step(s, i) == IF IsTile(report[i]) THEN s (+) report[i].ids ELSE s
           Fits(f, n) == f = [i \in 0..n |-> IF i = 0 THEN EmptyBag ELSE step(f[i - 1], i)]
           T == {n \in Nat : \E f : Fits(f, n)}
<1>1. 0 \in T
  <2> DEFINE f == [i \in 0..0 |-> EmptyBag]
  <2>1. Fits(f, 0)
    OBVIOUS
  <2> QED
    BY <2>1
<1>2. ASSUME NEW n \in Nat, n \in T PROVE n + 1 \in T
  <2>1. PICK f : Fits(f, n)
    BY <1>2
  <2> DEFINE g == [i \in 0..(n + 1) |-> IF i <= n THEN f[i] ELSE step(f[n], n + 1)]
  <2> HIDE DEF step
  <2>2. \A i \in 0..n : f[i] = IF i = 0 THEN EmptyBag ELSE step(f[i - 1], i)
    BY <2>1
  <2>3. \A i \in 0..(n + 1) : g[i] = IF i = 0 THEN EmptyBag ELSE step(g[i - 1], i)
    <3>1. \A i \in 0..n : g[i] = f[i]
      OBVIOUS
    <3>2. g[n + 1] = step(f[n], n + 1)
      OBVIOUS
    <3> HIDE DEF g
    <3>3. \A i \in 0..n : g[i] = IF i = 0 THEN EmptyBag ELSE step(g[i - 1], i)
      <4>1. \A i \in 0..n : i # 0 => i - 1 \in 0..n
        OBVIOUS
      <4> QED
        BY <2>2, <3>1, <4>1
    <3>4. g[n + 1] = step(g[n + 1 - 1], n + 1) /\ n + 1 # 0
      BY <3>1, <3>2
    <3> QED
      BY <3>3, <3>4
  <2> DEFINE h == [i \in 0..(n + 1) |-> IF i = 0 THEN EmptyBag ELSE step(g[i - 1], i)]
  <2>4. \A i \in 0..(n + 1) : g[i] = h[i]
    <3> HIDE DEF g
    <3> QED
      BY <2>3
  <2>5. g = h
    <3>1. g = [i \in 0..(n + 1) |-> g[i]] /\ h = [i \in 0..(n + 1) |-> h[i]]
      OBVIOUS
    <3> HIDE DEF g, h
    <3> QED
      BY <2>4, <3>1
  <2> HIDE DEF g
  <2>6. Fits(g, n + 1)
    BY <2>5
  <2> HIDE DEF Fits
  <2> QED
    BY <2>6
<1>3. Len(report) \in T
  <2> HIDE DEF T
  <2> QED
    BY <1>1, <1>2, SetInduction
<1>4. PICK f : Fits(f, Len(report))
  BY <1>3
<1>5. TileIds(report) = CHOOSE h : Fits(h, Len(report))
  BY DEF TileIds
<1> HIDE DEF Fits
<1>6. Fits(TileIds(report), Len(report))
  BY <1>4, <1>5
<1> QED
  BY <1>6 DEF Fits

----------------------------------------------------------------------------
(* Reports that grow *)

\* A sequence is one of its own elements.
LEMMA OwnElements == \A S : \A u \in Seq(S) : u \in Seq(ToSet(u))
<1> SUFFICES ASSUME NEW S, NEW u \in Seq(S) PROVE u \in Seq(ToSet(u))
  OBVIOUS
<1>1. Len(u) \in Nat /\ u \in [1..Len(u) -> S]
  OBVIOUS
<1>2. \A i \in 1..Len(u) : u[i] \in ToSet(u)
  BY <1>1 DEF ToSet
<1>3. u \in [1..Len(u) -> ToSet(u)]
  BY <1>1, <1>2
<1> QED
  BY <1>1, <1>3

\* What a report is after more cases.
LEMMA Appended ==
    ASSUME NEW s, NEW t, s \in Seq(ToSet(s)), t \in Seq(ToSet(t))
    PROVE  /\ s \o t \in Seq(ToSet(s \o t))
           /\ Len(s) \in Nat /\ Len(t) \in Nat /\ Len(s \o t) = Len(s) + Len(t)
           /\ DOMAIN s = 1..Len(s) /\ DOMAIN t = 1..Len(t)
           /\ DOMAIN (s \o t) = 1..(Len(s) + Len(t))
           /\ \A i \in 1..Len(s) : (s \o t)[i] = s[i]
           /\ \A k \in 1..Len(t) : (s \o t)[Len(s) + k] = t[k]
           /\ \A i \in 1..(Len(s) + Len(t)) : i \notin 1..Len(s) =>
                 i - Len(s) \in 1..Len(t) /\ (s \o t)[i] = t[i - Len(s)]
<1> DEFINE both == ToSet(s) \cup ToSet(t)
<1>1. s \in Seq(both) /\ t \in Seq(both)
  OBVIOUS
<1> HIDE DEF both
<1>2. s \o t \in Seq(both) /\ Len(s \o t) = Len(s) + Len(t)
  BY <1>1
<1>3. Len(s) \in Nat /\ Len(t) \in Nat /\ DOMAIN s = 1..Len(s) /\ DOMAIN t = 1..Len(t)
      /\ DOMAIN (s \o t) = 1..(Len(s) + Len(t))
  BY <1>1, <1>2
<1>4. /\ \A i \in 1..Len(s) : (s \o t)[i] = s[i]
      /\ \A k \in 1..Len(t) : (s \o t)[Len(s) + k] = t[k]
      /\ \A i \in 1..(Len(s) + Len(t)) : i \notin 1..Len(s) =>
            i - Len(s) \in 1..Len(t) /\ (s \o t)[i] = t[i - Len(s)]
  BY <1>1, <1>3
<1>5. s \o t \in Seq(ToSet(s \o t))
  BY <1>2, OwnElements
<1> QED
  BY <1>2, <1>3, <1>4, <1>5

\* Among one more copy than a report has cases, one is free.
LEMMA FreeCopy ==
    ASSUME NEW report, Len(report) \in Nat, DOMAIN report = 1..Len(report),
           NEW a, NEW b, NEW c
    PROVE  \E i \in 1..Len(report) + 1 : <<a, b, c, i>> \notin Keys(report)
<1> SUFFICES ASSUME \A i \in 1..Len(report) + 1 : <<a, b, c, i>> \in Keys(report)
             PROVE  FALSE
  OBVIOUS
<1> DEFINE n == Len(report)
           f == [i \in 1..n |-> report[i].key]
           g == [i \in 1..n + 1 |-> <<a, b, c, i>>]
<1>1. IsFiniteSet(1..n) /\ Cardinality(1..n) = n
      /\ IsFiniteSet(1..n + 1) /\ Cardinality(1..n + 1) = n + 1
  <2>1. n \in Nat
    OBVIOUS
  <2> HIDE DEF n
  <2>2. 1 \in Int /\ n \in Int /\ n + 1 \in Int
    BY <2>1
  <2>3. IsFiniteSet(1..n) /\ Cardinality(1..n) = IF 1 > n THEN 0 ELSE n - 1 + 1
    BY <2>2, FS_Interval
  <2>4. IsFiniteSet(1..n + 1) /\ Cardinality(1..n + 1) = IF 1 > n + 1 THEN 0 ELSE n + 1 - 1 + 1
    BY <2>2, FS_Interval
  <2> QED
    BY <2>1, <2>3, <2>4
<1>2. f \in Surjection(1..n, Keys(report))
  BY DEF Surjection, Keys
<1>3. IsFiniteSet(Keys(report)) /\ Cardinality(Keys(report)) <= n
  <2> HIDE DEF f
  <2> QED
    BY <1>1, <1>2, FS_Surjection
<1>4. g \in Injection(1..n + 1, Keys(report))
  <2>1. g \in [1..n + 1 -> Keys(report)]
    OBVIOUS
  <2>2. \A i, j \in 1..n + 1 : g[i] = g[j] => i = j
    OBVIOUS
  <2> HIDE DEF g
  <2> QED
    BY <2>1, <2>2 DEF Injection, IsInjective
<1>5. Cardinality(1..n + 1) <= Cardinality(Keys(report))
  <2> HIDE DEF g
  <2> QED
    BY <1>3, <1>4, FS_Injection
<1>6. Cardinality(Keys(report)) \in Nat
  BY <1>3, FS_CardinalityType
<1> QED
  BY <1>1, <1>3, <1>5, <1>6

\* What a record of a report has.
IsRecord(rec) == DOMAIN rec = {"key", "asked", "err", "ids", "n", "uniq"}

\* _name gives a record a key nobody has, and changes nothing else.
LEMMA NamedFacts ==
    ASSUME NEW report, Len(report) \in Nat, DOMAIN report = 1..Len(report),
           NEW rec, IsRecord(rec)
    PROVE  /\ \E i \in 1..Len(report) + 1 :
                 Named(report, rec).key = <<rec.key[1], rec.key[2], rec.key[3], i>>
           /\ Named(report, rec).key \notin Keys(report)
           /\ IsRecord(Named(report, rec))
           /\ Named(report, rec).asked = rec.asked /\ Named(report, rec).err = rec.err
           /\ Named(report, rec).ids = rec.ids /\ Named(report, rec).n = rec.n
           /\ Named(report, rec).uniq = rec.uniq
<1> DEFINE copy(i) == <<rec.key[1], rec.key[2], rec.key[3], i>>
           S == {i \in 1..Len(report) + 1 : copy(i) \notin Keys(report)}
<1>1. S # {} /\ S \subseteq Nat
  <2>1. PICK i \in 1..Len(report) + 1 : copy(i) \notin Keys(report)
    BY FreeCopy
  <2> QED
    BY <2>1
<1>2. \E x \in S : \A y \in S : x <= y
  <2> HIDE DEF S
  <2> QED
    BY <1>1, LeastNat
<1>3. Min(S) \in S
  <2> HIDE DEF S
  <2> QED
    BY <1>2 DEF Min
<1>4. Min(S) \in 1..Len(report) + 1 /\ copy(Min(S)) \notin Keys(report)
  <2> DEFINE m == Min(S)
  <2>1. m \in S
    BY <1>3
  <2> HIDE DEF m
  <2>2. m \in 1..Len(report) + 1 /\ copy(m) \notin Keys(report)
    BY <2>1
  <2> QED
    BY <2>2 DEF m
<1>5. Named(report, rec) = [rec EXCEPT !.key = copy(Min(S))]
  BY DEF Named
<1> DEFINE r == [rec EXCEPT !.key = copy(Min(S))]
<1> HIDE DEF S
<1> DEFINE v == copy(Min(S))
<1> HIDE DEF v
<1>6. r = [rec EXCEPT !.key = v]
  BY DEF v
<1>7. r.key = v /\ DOMAIN r = DOMAIN rec /\ r.asked = rec.asked /\ r.err = rec.err
      /\ r.ids = rec.ids /\ r.n = rec.n /\ r.uniq = rec.uniq
  <2> HIDE DEF r
  <2> QED
    BY <1>6 DEF IsRecord
<1>8. r.key = copy(Min(S))
  BY <1>7 DEF v
<1> HIDE DEF r
<1> QED
  BY <1>4, <1>5, <1>7, <1>8 DEF r, IsRecord

\* Every part has a number.
LEMMA PartNumbers == \A ask : \A p \in PartsOf(ask) : p \in DOMAIN PartNo /\ PartNo[p] \in 1..4
  BY DEF PartsOf, PartNo

\* What a request is recorded as: its parts in their order, and all of them unless
\* there is an error.
Recorded(step, recs) ==
    /\ recs \in Seq(ToSet(recs))
    /\ \A k \in DOMAIN recs :
          /\ IsRecord(recs[k]) /\ recs[k].err \in BOOLEAN
          /\ recs[k].asked = step
          /\ recs[k].key = <<step.sec, step.name, recs[k].key[3], 1>>
          /\ recs[k].key[3] \in PartsOf(step.ask)
    /\ \A i, j \in DOMAIN recs : i < j => PartNo[recs[i].key[3]] < PartNo[recs[j].key[3]]
    /\ (\A k \in DOMAIN recs : ~recs[k].err) =>
          \A p \in PartsOf(step.ask) : \E k \in DOMAIN recs : recs[k].key[3] = p

\* The cases the records become.
Renamed(recs) == [k \in DOMAIN recs |-> Named(cases, recs[k])]

\* The cases of a request keep what was recorded, under keys of their own.
LEMMA RenamedFacts ==
    ASSUME WellMade(cases), NEW recs, Recorded(Step, recs)
    PROVE  /\ Renamed(recs) \in Seq(ToSet(Renamed(recs)))
           /\ Len(Renamed(recs)) = Len(recs) /\ DOMAIN Renamed(recs) = DOMAIN recs
           /\ DOMAIN recs = 1..Len(recs) /\ Len(recs) \in Nat
           /\ \A k \in 1..Len(recs) :
                 /\ Renamed(recs)[k].asked = Step
                 /\ Renamed(recs)[k].err = recs[k].err /\ recs[k].err \in BOOLEAN
                 /\ Renamed(recs)[k].ids = recs[k].ids /\ Renamed(recs)[k].n = recs[k].n
                 /\ Renamed(recs)[k].key[3] = recs[k].key[3]
                 /\ Renamed(recs)[k].key \notin Keys(cases)
                 /\ Renamed(recs)[k].key =
                       <<Step.sec, Step.name, recs[k].key[3], Renamed(recs)[k].key[4]>>
           /\ \A i, j \in 1..Len(recs) : Renamed(recs)[i].key = Renamed(recs)[j].key => i = j
<1> DEFINE new == Renamed(recs)
<1>1. Len(cases) \in Nat /\ DOMAIN cases = 1..Len(cases)
  BY DEF WellMade
<1>2. DOMAIN recs = 1..Len(recs) /\ Len(recs) \in Nat
  BY DEF Recorded
<1>3. new = [k \in 1..Len(recs) |-> Named(cases, recs[k])]
  BY <1>2 DEF Renamed
<1> HIDE DEF new
<1>4. new \in Seq(ToSet(new)) /\ Len(new) = Len(recs) /\ DOMAIN new = 1..Len(recs)
  <2>1. \A k \in 1..Len(recs) : new[k] \in ToSet(new)
    BY <1>3 DEF ToSet
  <2>2. new \in [1..Len(recs) -> ToSet(new)]
    BY <1>3, <2>1
  <2> QED
    BY <1>2, <1>3, <2>2
<1>5. \A k \in 1..Len(recs) :
         /\ new[k].asked = Step
         /\ new[k].err = recs[k].err /\ recs[k].err \in BOOLEAN
         /\ new[k].ids = recs[k].ids /\ new[k].n = recs[k].n
         /\ new[k].key[3] = recs[k].key[3]
         /\ new[k].key \notin Keys(cases)
         /\ new[k].key = <<Step.sec, Step.name, recs[k].key[3], new[k].key[4]>>
  <2> TAKE k \in 1..Len(recs)
  <2>1. new[k] = Named(cases, recs[k])
    BY <1>3
  <2>2. IsRecord(recs[k]) /\ recs[k].asked = Step /\ recs[k].err \in BOOLEAN
        /\ recs[k].key = <<Step.sec, Step.name, recs[k].key[3], 1>>
    BY <1>2 DEF Recorded
  <2>3. PICK i \in 1..Len(cases) + 1 :
           new[k].key = <<recs[k].key[1], recs[k].key[2], recs[k].key[3], i>>
    <3> DEFINE rec == recs[k]
    <3>1. IsRecord(rec)
      BY <2>2
    <3> HIDE DEF rec
    <3>2. \E i \in 1..Len(cases) + 1 :
             Named(cases, rec).key = <<rec.key[1], rec.key[2], rec.key[3], i>>
      BY <1>1, <3>1, NamedFacts
    <3>3. new[k] = Named(cases, rec)
      BY <2>1 DEF rec
    <3>4. \E i \in 1..Len(cases) + 1 :
             new[k].key = <<rec.key[1], rec.key[2], rec.key[3], i>>
      BY <3>2, <3>3
    <3> QED
      BY <3>4 DEF rec
  <2>4. new[k].key \notin Keys(cases) /\ new[k].asked = recs[k].asked
        /\ new[k].err = recs[k].err /\ new[k].ids = recs[k].ids /\ new[k].n = recs[k].n
    BY <1>1, <2>1, <2>2, NamedFacts
  <2>5. recs[k].key[1] = Step.sec /\ recs[k].key[2] = Step.name
    BY <2>2
  <2>6. new[k].key[3] = recs[k].key[3] /\ new[k].key[4] = i
    BY <2>3
  <2>7. new[k].key = <<Step.sec, Step.name, recs[k].key[3], new[k].key[4]>>
    BY <2>3, <2>5, <2>6
  <2> QED
    BY <2>2, <2>4, <2>6, <2>7
<1>6. \A i, j \in 1..Len(recs) : new[i].key = new[j].key => i = j
  <2> TAKE i, j \in 1..Len(recs)
  <2> HAVE new[i].key = new[j].key
  <2>1. recs[i].key[3] = recs[j].key[3]
    BY <1>5
  <2>2. PartNo[recs[i].key[3]] \in Int
    BY <1>2, PartNumbers DEF Recorded
  <2>3. ~(i < j) /\ ~(j < i)
    BY <1>2, <2>1, <2>2 DEF Recorded
  <2> QED
    BY <2>3
<1> QED
  BY <1>2, <1>4, <1>5, <1>6 DEF new

\* The report with the cases of one more request is well made.
LEMMA EmitWellMade ==
    ASSUME WellMade(cases), NEW recs, Recorded(Step, recs), Emit(recs)
    PROVE  cases' = cases \o Renamed(recs) /\ WellMade(cases')
<1> DEFINE new == Renamed(recs)
<1>1. cases' = cases \o new
  BY DEF Emit, Renamed
<1>2. /\ new \in Seq(ToSet(new)) /\ Len(new) = Len(recs) /\ Len(recs) \in Nat
      /\ \A k \in 1..Len(recs) :
            /\ new[k].asked = Step /\ new[k].err \in BOOLEAN
            /\ new[k].key \notin Keys(cases)
            /\ new[k].key = <<Step.sec, Step.name, new[k].key[3], new[k].key[4]>>
      /\ \A i, j \in 1..Len(recs) : new[i].key = new[j].key => i = j
  BY RenamedFacts
<1> HIDE DEF new
<1>3. cases \in Seq(ToSet(cases))
  BY DEF WellMade
<1>4. /\ cases' \in Seq(ToSet(cases'))
      /\ Len(cases) \in Nat /\ DOMAIN cases = 1..Len(cases)
      /\ DOMAIN cases' = 1..(Len(cases) + Len(new))
      /\ \A i \in 1..Len(cases) : cases'[i] = cases[i]
      /\ \A i \in 1..(Len(cases) + Len(new)) : i \notin 1..Len(cases) =>
            i - Len(cases) \in 1..Len(new) /\ cases'[i] = new[i - Len(cases)]
  <2> DEFINE all == cases \o new
  <2>1. /\ all \in Seq(ToSet(all))
        /\ Len(cases) \in Nat /\ DOMAIN cases = 1..Len(cases)
        /\ DOMAIN all = 1..(Len(cases) + Len(new))
        /\ \A i \in 1..Len(cases) : all[i] = cases[i]
        /\ \A i \in 1..(Len(cases) + Len(new)) : i \notin 1..Len(cases) =>
              i - Len(cases) \in 1..Len(new) /\ all[i] = new[i - Len(cases)]
    BY <1>2, <1>3, Appended
  <2>2. cases' = all
    BY <1>1
  <2> HIDE DEF all
  <2> QED
    BY <2>1, <2>2
<1>5. \A i, j \in DOMAIN cases' : cases'[i].key = cases'[j].key => i = j
  <2> TAKE i, j \in DOMAIN cases'
  <2> HAVE cases'[i].key = cases'[j].key
  <2>1. CASE i \in 1..Len(cases) /\ j \in 1..Len(cases)
    BY <1>4, <2>1 DEF WellMade
  <2>2. CASE i \in 1..Len(cases) /\ j \notin 1..Len(cases)
    BY <1>2, <1>4, <2>2 DEF Keys
  <2>3. CASE i \notin 1..Len(cases) /\ j \in 1..Len(cases)
    BY <1>2, <1>4, <2>3 DEF Keys
  <2>4. CASE i \notin 1..Len(cases) /\ j \notin 1..Len(cases)
    <3>1. /\ i \in Int /\ j \in Int /\ Len(cases) \in Nat
          /\ i - Len(cases) \in 1..Len(new) /\ cases'[i] = new[i - Len(cases)]
          /\ j - Len(cases) \in 1..Len(new) /\ cases'[j] = new[j - Len(cases)]
      BY <1>4, <2>4
    <3>2. new[i - Len(cases)].key = new[j - Len(cases)].key
      BY <3>1
    <3>3. i - Len(cases) = j - Len(cases)
      BY <1>2, <3>1, <3>2
    <3> QED
      BY <3>1, <3>3
  <2> QED
    BY <2>1, <2>2, <2>3, <2>4
<1>6. \A i \in DOMAIN cases' :
         /\ cases'[i].err \in BOOLEAN
         /\ cases'[i].key = <<cases'[i].asked.sec, cases'[i].asked.name,
                              cases'[i].key[3], cases'[i].key[4]>>
  <2> TAKE i \in DOMAIN cases'
  <2>1. CASE i \in 1..Len(cases)
    BY <1>4, <2>1 DEF WellMade
  <2>2. CASE i \notin 1..Len(cases)
    BY <1>2, <1>4, <2>2
  <2> QED
    BY <2>1, <2>2
<1> QED
  BY <1>1, <1>4, <1>5, <1>6 DEF WellMade, new

----------------------------------------------------------------------------
(* What the requests are recorded as *)

\* A request that has one part is recorded as it.
LEMMA OnePart ==
    ASSUME NEW step, NEW part, PartsOf(step.ask) = {part}, NEW rec,
           IsRecord(rec), rec.err \in BOOLEAN, rec.asked = step,
           rec.key = <<step.sec, step.name, part, 1>>
    PROVE  Recorded(step, <<rec>>)
<1> DEFINE recs == <<rec>>
<1>1. recs \in Seq({rec}) /\ DOMAIN recs = {1} /\ recs[1] = rec
  OBVIOUS
<1>2. rec.key[3] = part
  OBVIOUS
<1> HIDE DEF recs
<1>3. /\ recs \in Seq(ToSet(recs)) /\ DOMAIN recs = {1} /\ recs[1] = rec
  BY <1>1, OwnElements
<1>4. Recorded(step, recs)
  BY <1>2, <1>3 DEF Recorded
<1> QED
  BY <1>4 DEF recs

\* The records of a case and of a scalar.
LEMMA CaseFacts ==
    ASSUME NEW step, NEW part, NEW answer
    PROVE  /\ IsRecord(Case(step, part, answer)) /\ Case(step, part, answer).asked = step
           /\ Case(step, part, answer).err = answer.err
           /\ Case(step, part, answer).ids = answer.ids
           /\ Case(step, part, answer).key = <<step.sec, step.name, part, 1>>
  BY DEF Case, IsRecord

\* A scalar is never an error.
LEMMA ScalarFacts ==
    ASSUME NEW step, NEW part, NEW value
    PROVE  /\ IsRecord(Scalar(step, part, value)) /\ Scalar(step, part, value).asked = step
           /\ Scalar(step, part, value).err \in BOOLEAN /\ ~Scalar(step, part, value).err
           /\ Scalar(step, part, value).n = value
           /\ Scalar(step, part, value).key = <<step.sec, step.name, part, 1>>
  BY DEF Scalar, IsRecord

\* An outcome has an answer or an error.
LEMMA OutcomeErr == \A answer \in Outcomes : answer.err \in BOOLEAN
<1>1. Failed.err \in BOOLEAN
  BY DEF Failed
<1>2. \A bag : Got(bag).err \in BOOLEAN
  BY DEF Got
<1> QED
  BY <1>1, <1>2 DEF Outcomes

\* A page loop is recorded as its ids and its number of pages.
LEMMA TwoParts ==
    ASSUME NEW step, step.ask = "pages", NEW answer, answer.err \in BOOLEAN, NEW count
    PROVE  Recorded(step, <<Case(step, "ids", answer), Scalar(step, "pages", count)>>)
<1> DEFINE c == Case(step, "ids", answer)
           s == Scalar(step, "pages", count)
<1>1. /\ IsRecord(c) /\ c.asked = step /\ c.err \in BOOLEAN /\ c.key[3] = "ids"
      /\ c.key = <<step.sec, step.name, "ids", 1>>
      /\ IsRecord(s) /\ s.asked = step /\ s.err \in BOOLEAN /\ s.key[3] = "pages"
      /\ s.key = <<step.sec, step.name, "pages", 1>>
  BY CaseFacts, ScalarFacts
<1> HIDE DEF c, s
<1> DEFINE recs == <<c, s>>
<1>2. recs \in Seq({c, s}) /\ DOMAIN recs = {1, 2} /\ recs[1] = c /\ recs[2] = s
  OBVIOUS
<1> HIDE DEF recs
<1>3. recs \in Seq(ToSet(recs))
  BY <1>2, OwnElements
<1>4. PartsOf(step.ask) = {"ids", "pages"} /\ PartNo["ids"] = 1 /\ PartNo["pages"] = 2
  BY DEF PartsOf, PartNo
<1>5. Recorded(step, recs)
  BY <1>1, <1>2, <1>3, <1>4 DEF Recorded
<1> QED
  BY <1>5 DEF recs, c, s

\* A script that answers is recorded as four numbers or lists.
LEMMA FourParts ==
    ASSUME NEW step, step.ask = "script", NEW one, NEW two, NEW gain, NEW change,
           one.err \in BOOLEAN, two.err \in BOOLEAN
    PROVE  Recorded(step, <<Case(step, "before", one), Case(step, "after", two),
                            Scalar(step, "gain", gain), Scalar(step, "change", change)>>)
<1> DEFINE b == Case(step, "before", one)
           a == Case(step, "after", two)
           g == Scalar(step, "gain", gain)
           h == Scalar(step, "change", change)
<1>1. /\ IsRecord(b) /\ b.asked = step /\ b.err \in BOOLEAN /\ b.key[3] = "before"
      /\ b.key = <<step.sec, step.name, "before", 1>>
      /\ IsRecord(a) /\ a.asked = step /\ a.err \in BOOLEAN /\ a.key[3] = "after"
      /\ a.key = <<step.sec, step.name, "after", 1>>
  BY CaseFacts
<1>2. /\ IsRecord(g) /\ g.asked = step /\ g.err \in BOOLEAN /\ g.key[3] = "gain"
      /\ g.key = <<step.sec, step.name, "gain", 1>>
      /\ IsRecord(h) /\ h.asked = step /\ h.err \in BOOLEAN /\ h.key[3] = "change"
      /\ h.key = <<step.sec, step.name, "change", 1>>
  BY ScalarFacts
<1> HIDE DEF b, a, g, h
<1> DEFINE recs == <<b, a, g, h>>
<1>3. /\ recs \in Seq({b, a, g, h}) /\ DOMAIN recs = 1..4
      /\ recs[1] = b /\ recs[2] = a /\ recs[3] = g /\ recs[4] = h
  OBVIOUS
<1> HIDE DEF recs
<1>4. recs \in Seq(ToSet(recs))
  BY <1>3, OwnElements
<1>5. PartsOf(step.ask) = {"before", "after", "gain", "change"}
      /\ PartNo["before"] = 1 /\ PartNo["after"] = 2 /\ PartNo["gain"] = 3 /\ PartNo["change"] = 4
  BY DEF PartsOf, PartNo
<1>6. \A k \in DOMAIN recs : k = 1 \/ k = 2 \/ k = 3 \/ k = 4
  BY <1>3
<1>7. \A k \in DOMAIN recs :
         /\ IsRecord(recs[k]) /\ recs[k].err \in BOOLEAN /\ recs[k].asked = step
         /\ recs[k].key = <<step.sec, step.name, recs[k].key[3], 1>>
         /\ recs[k].key[3] \in PartsOf(step.ask)
         /\ PartNo[recs[k].key[3]] = k
  BY <1>1, <1>2, <1>3, <1>5, <1>6
<1>8. \A p \in PartsOf(step.ask) : \E k \in DOMAIN recs : recs[k].key[3] = p
  BY <1>1, <1>2, <1>3, <1>5
<1>9. Recorded(step, recs)
  BY <1>4, <1>7, <1>8 DEF Recorded
<1> QED
  BY <1>9 DEF recs, b, a, g, h

\* A script that does not answer is recorded as one error.
LEMMA FailedScript ==
    ASSUME NEW step, step.ask = "script"
    PROVE  Recorded(step, <<Case(step, "before", Failed)>>)
<1> DEFINE rec == Case(step, "before", Failed)
<1>1. IsRecord(rec) /\ rec.asked = step /\ rec.key[3] = "before"
      /\ rec.key = <<step.sec, step.name, "before", 1>> /\ rec.err = Failed.err
  BY CaseFacts
<1>6. Failed.err \in BOOLEAN /\ Failed.err
  BY DEF Failed
<1> HIDE DEF rec
<1> DEFINE recs == <<rec>>
<1>2. recs \in Seq({rec}) /\ DOMAIN recs = {1} /\ recs[1] = rec
  OBVIOUS
<1> HIDE DEF recs
<1>3. recs \in Seq(ToSet(recs))
  BY <1>2, OwnElements
<1>4. "before" \in PartsOf(step.ask)
  BY DEF PartsOf
<1>7. rec.err \in BOOLEAN /\ rec.err
  BY <1>1, <1>6
<1>8. 1 \in DOMAIN recs /\ recs[1].err
  <2>1. 1 \in DOMAIN recs /\ recs[1] = rec
    BY <1>2
  <2> QED
    BY <1>7, <2>1, Zenon
<1>9. \A k \in DOMAIN recs : recs[k] = rec
  BY <1>2
<1>10. \A k \in DOMAIN recs :
          /\ IsRecord(recs[k]) /\ recs[k].err \in BOOLEAN /\ recs[k].asked = step
          /\ recs[k].key = <<step.sec, step.name, recs[k].key[3], 1>>
          /\ recs[k].key[3] \in PartsOf(step.ask)
  BY <1>1, <1>4, <1>7, <1>9
<1>11. \A i, j \in DOMAIN recs : ~(i < j)
  BY <1>2
<1>5. Recorded(step, recs)
  BY <1>3, <1>8, <1>10, <1>11, Zenon DEF Recorded
<1> QED
  BY <1>5 DEF recs, rec

\* The steps that record something.
Emitting == \/ Query \/ Tile \/ Union \/ Disjoint \/ Repeat \/ Plan \/ PageAll
            \/ Baseline \/ ScriptAnswered \/ ScriptFailed \/ Again

\* Each of them records its request.
LEMMA EmittingRecords ==
    ASSUME TypeOK, Emitting
    PROVE  /\ pc = "run" /\ todo # <<>>
           /\ \E recs : Emit(recs) /\ Recorded(Step, recs)
<1>1. tiles.err \in BOOLEAN
  BY DEF TypeOK
<1> DEFINE Plain == {"query", "tile", "union", "disjoint", "plan", "baseline", "again"}
<1>2. \A kind \in Plain : PartsOf(kind) = {"ids"}
  BY DEF PartsOf
<1>3. ASSUME NEW kind \in Plain, Ask(kind), NEW answer, answer.err \in BOOLEAN
      PROVE  Recorded(Step, <<Case(Step, "ids", answer)>>)
  <2>1. PartsOf(Step.ask) = {"ids"}
    BY <1>2, <1>3 DEF Ask, Step
  <2> QED
    BY <1>3, <2>1, CaseFacts, OnePart
<1> HIDE DEF Plain
<1>4. /\ "query" \in Plain /\ "tile" \in Plain /\ "union" \in Plain /\ "disjoint" \in Plain
      /\ "plan" \in Plain /\ "baseline" \in Plain /\ "again" \in Plain
  BY DEF Plain
<1>5. \A bag : Got(bag).err \in BOOLEAN
  BY DEF Got
<1>6. Failed.err \in BOOLEAN
  BY DEF Failed
<1>7. CASE Query
  BY <1>3, <1>4, <1>7, OutcomeErr DEF Query, Ask
<1>8. CASE Tile
  BY <1>3, <1>4, <1>8, OutcomeErr DEF Tile, Ask
<1>9. CASE Union
  BY <1>1, <1>3, <1>4, <1>9 DEF Union, Ask
<1>10. CASE Disjoint
  <2>1. PICK one, two : Emit(<<Case(Step, "ids", Got(one.ids (+) two.ids))>>)
    BY <1>10 DEF Disjoint
  <2> QED
    BY <1>3, <1>4, <1>5, <1>10, <2>1 DEF Disjoint, Ask
<1>11. CASE Repeat
  <2>1. PICK value : Emit(<<Scalar(Step, "distinct", value)>>)
    BY <1>11 DEF Repeat
  <2>2. PartsOf(Step.ask) = {"distinct"}
    BY <1>11 DEF Repeat, Ask, Step, PartsOf
  <2>3. Recorded(Step, <<Scalar(Step, "distinct", value)>>)
    <3> DEFINE rec == Scalar(Step, "distinct", value)
    <3>1. IsRecord(rec) /\ rec.asked = Step /\ rec.err \in BOOLEAN
          /\ rec.key = <<Step.sec, Step.name, "distinct", 1>>
      BY ScalarFacts
    <3> HIDE DEF rec
    <3>2. Recorded(Step, <<rec>>)
      BY <2>2, <3>1, OnePart
    <3> QED
      BY <3>2 DEF rec
  <2> QED
    BY <1>11, <2>1, <2>3 DEF Repeat, Ask
<1>12. CASE Plan
  <2>1. PICK answer : answer.err \in BOOLEAN /\ Emit(<<Case(Step, "ids", answer)>>)
    BY <1>5, <1>6, <1>12 DEF Plan
  <2> QED
    BY <1>3, <1>4, <1>12, <2>1 DEF Plan, Ask
<1>13. CASE PageAll
  <2>1. PICK answer, count : /\ answer.err \in BOOLEAN
           /\ Emit(<<Case(Step, "ids", answer), Scalar(Step, "pages", count)>>)
    BY <1>5, <1>6, <1>13 DEF PageAll, AllPages
  <2>2. Step.ask = "pages"
    BY <1>13 DEF PageAll, Ask, Step
  <2> QED
    BY <1>13, <2>1, <2>2, TwoParts DEF PageAll, Ask
<1>14. CASE Baseline
  BY <1>3, <1>4, <1>5, <1>6, <1>14 DEF Baseline, Ask
<1>15. CASE ScriptAnswered
  <2>1. Step.ask = "script"
    BY <1>15 DEF ScriptAnswered, Ask, Step
  <2> QED
    BY <1>5, <1>15, <2>1, FourParts DEF ScriptAnswered, Ask
<1>16. CASE ScriptFailed
  <2>1. Step.ask = "script"
    BY <1>16 DEF ScriptFailed, Ask, Step
  <2> QED
    BY <1>16, <2>1, FailedScript DEF ScriptFailed, Ask
<1>17. CASE Again
  BY <1>3, <1>4, <1>5, <1>6, <1>17 DEF Again, Ask
<1> QED
  BY <1>7, <1>8, <1>9, <1>10, <1>11, <1>12, <1>13, <1>14, <1>15, <1>16, <1>17 DEF Emitting

----------------------------------------------------------------------------
(* The number of ids in a bag *)

\* f adds up the copies of the members of any part of a bag, in any order.
SumsUp(f, B) ==
    /\ f \in [SUBSET DOMAIN B -> Nat] /\ f[{}] = 0
    /\ \A S \in SUBSET DOMAIN B : \A x \in S : f[S] = B[x] + f[S \ {x}]

\* A part of a finite set without one of its members is smaller by one.
LEMMA SmallerByOne ==
    ASSUME NEW D, IsFiniteSet(D), NEW S \in SUBSET D, NEW x \in S
    PROVE  /\ IsFiniteSet(S) /\ Cardinality(S) \in Nat
           /\ S \ {x} \in SUBSET D /\ Cardinality(S \ {x}) = Cardinality(S) - 1
  BY FS_Subset, FS_RemoveElement, FS_CardinalityType

\* The size of a finite bag is such a sum.
LEMMA SizeIsSum ==
    ASSUME NEW B, IsFiniteBag(B)
    PROVE  \E f : SumsUp(f, B) /\ BagCardinality(B) = f[DOMAIN B]
<1> DEFINE D == DOMAIN B
           elt(S) == CHOOSE e \in S : TRUE
           step(f, S) == IF S = {} THEN 0 ELSE B[elt(S)] + f[S \ {elt(S)}]
           Fits(f) == f = [S \in SUBSET D |-> step(f, S)]
           UpTo(f, n) == /\ f = [S \in SUBSET D |-> f[S]]
                         /\ \A S \in SUBSET D : Cardinality(S) <= n => f[S] = step(f, S)
           T == {n \in Nat : \E f : UpTo(f, n)}
<1>1. /\ IsFiniteSet(D) /\ \A x \in D : B[x] \in Nat
      /\ \A S \in SUBSET D : IsFiniteSet(S) /\ Cardinality(S) \in Nat
      /\ \A S \in SUBSET D : Cardinality(S) <= 0 => S = {}
  <2>1. IsFiniteSet(D) /\ \A x \in D : B[x] \in Nat
    BY DEF IsFiniteBag, IsABag, BagToSet
  <2>2. \A S \in SUBSET D : IsFiniteSet(S) /\ Cardinality(S) \in Nat
    BY <2>1, FS_Subset, FS_CardinalityType
  <2>3. \A S \in SUBSET D : Cardinality(S) <= 0 => S = {}
    BY <2>2, FS_EmptySet
  <2> QED
    BY <2>1, <2>2, <2>3
<1>2. \A S \in SUBSET D : S # {} => elt(S) \in S
  OBVIOUS
<1>3. \A S \in SUBSET D : S # {} => /\ S \ {elt(S)} \in SUBSET D
                                   /\ Cardinality(S \ {elt(S)}) = Cardinality(S) - 1
  BY <1>1, <1>2, SmallerByOne
<1> HIDE DEF D, elt
<1>4. 0 \in T
  <2> DEFINE f == [S \in SUBSET D |-> 0]
  <2>1. \A S \in SUBSET D : Cardinality(S) <= 0 => f[S] = step(f, S)
    BY <1>1
  <2>2. f = [S \in SUBSET D |-> f[S]]
    OBVIOUS
  <2> HIDE DEF f, step
  <2>3. UpTo(f, 0)
    BY <2>1, <2>2
  <2> HIDE DEF UpTo
  <2> QED
    BY <2>3
<1>5. ASSUME NEW n \in Nat, n \in T PROVE n + 1 \in T
  <2>1. PICK f : UpTo(f, n)
    BY <1>5
  <2> DEFINE g == [S \in SUBSET D |-> IF Cardinality(S) <= n THEN f[S] ELSE step(f, S)]
  <2>2. g = [S \in SUBSET D |-> g[S]]
    OBVIOUS
  <2>3. \A S \in SUBSET D : Cardinality(S) <= n => g[S] = f[S]
    OBVIOUS
  <2>4. \A S \in SUBSET D : ~(Cardinality(S) <= n) => g[S] = step(f, S)
    <3> HIDE DEF step
    <3> QED
      OBVIOUS
  <2> HIDE DEF g
  <2>5. \A S \in SUBSET D : Cardinality(S) <= n => f[S] = step(f, S)
    BY <2>1
  <2>6. \A S \in SUBSET D : Cardinality(S) <= n + 1 => step(g, S) = step(f, S)
    <3> TAKE S \in SUBSET D
    <3> HAVE Cardinality(S) <= n + 1
    <3>1. CASE S = {}
      BY <3>1
    <3>2. CASE S # {}
      <4>1. S \ {elt(S)} \in SUBSET D /\ Cardinality(S \ {elt(S)}) <= n
        BY <1>1, <1>3, <3>2
      <4> QED
        BY <2>3, <4>1
    <3> QED
      BY <3>1, <3>2
  <2>7. \A S \in SUBSET D : Cardinality(S) <= n + 1 => g[S] = step(g, S)
    <3> TAKE S \in SUBSET D
    <3> HAVE Cardinality(S) <= n + 1
    <3>1. g[S] = step(f, S)
      <4> HIDE DEF step
      <4> QED
        BY <2>3, <2>4, <2>5
    <3> HIDE DEF step
    <3> QED
      BY <2>6, <3>1
  <2> HIDE DEF step
  <2>8. UpTo(g, n + 1)
    BY <2>2, <2>7
  <2> HIDE DEF UpTo
  <2> QED
    BY <2>8
<1>6. \E f : Fits(f)
  <2>1. Cardinality(D) \in T
    <3>1. Cardinality(D) \in Nat
      BY <1>1
    <3> HIDE DEF T
    <3> QED
      BY <1>4, <1>5, <3>1, SetInduction
  <2>2. PICK f : UpTo(f, Cardinality(D))
    BY <2>1
  <2>3. \A S \in SUBSET D : Cardinality(S) <= Cardinality(D)
    BY <1>1, FS_Subset
  <2> DEFINE h == [S \in SUBSET D |-> step(f, S)]
  <2> HIDE DEF step
  <2>4. f = [S \in SUBSET D |-> f[S]] /\ \A S \in SUBSET D : f[S] = h[S]
    BY <2>2, <2>3
  <2>5. h = [S \in SUBSET D |-> h[S]]
    OBVIOUS
  <2>6. f = h
    <3> HIDE DEF h
    <3> QED
      BY <2>4, <2>5
  <2> QED
    BY <2>6
<1>7. BagCardinality(B) = (CHOOSE f : Fits(f))[D]
  BY DEF BagCardinality, D, elt
<1> DEFINE f == CHOOSE f : Fits(f)
<1> HIDE DEF Fits
<1>8. Fits(f)
  BY <1>6
<1>9. \A S \in SUBSET D : f[S] = step(f, S)
  BY <1>8 DEF Fits
<1>10. DOMAIN f = SUBSET D
  BY <1>8 DEF Fits
<1>11. BagCardinality(B) = f[D]
  BY <1>7
<1> HIDE DEF f
<1>12. f[{}] = 0
  BY <1>9
<1> DEFINE Sound(n) == \A S \in SUBSET D : Cardinality(S) <= n =>
                        f[S] \in Nat /\ \A x \in S : f[S] = B[x] + f[S \ {x}]
           U == {n \in Nat : Sound(n)}
<1>13. 0 \in U
  BY <1>1, <1>12
<1>14. ASSUME NEW n \in Nat, n \in U PROVE n + 1 \in U
  <2>1. ASSUME NEW S \in SUBSET D, Cardinality(S) <= n + 1, NEW x \in S
        PROVE  f[S] \in Nat /\ f[S] = B[x] + f[S \ {x}]
    <3> DEFINE y == elt(S)
    <3>1. y \in S /\ y \in D /\ x \in D
      BY <1>2
    <3> HIDE DEF y
    <3>2. f[S] = B[y] + f[S \ {y}]
      BY <1>9, <3>1 DEF y
    <3>3. /\ S \ {y} \in SUBSET D /\ Cardinality(S \ {y}) <= n
          /\ S \ {x} \in SUBSET D /\ Cardinality(S \ {x}) <= n
          /\ (S \ {x}) \ {y} \in SUBSET D
      BY <1>1, <2>1, <3>1, SmallerByOne
    <3>4. f[S \ {y}] \in Nat /\ f[S \ {x}] \in Nat
      BY <1>14, <3>3
    <3>5. B[x] \in Nat /\ B[y] \in Nat
      BY <1>1, <3>1
    <3>6. CASE x = y
      BY <3>2, <3>4, <3>5, <3>6
    <3>7. CASE x # y
      <4>1. x \in S \ {y} /\ y \in S \ {x} /\ (S \ {y}) \ {x} = (S \ {x}) \ {y}
        BY <3>1, <3>7
      <4>2. f[S \ {y}] = B[x] + f[(S \ {y}) \ {x}]
        BY <1>14, <3>3, <4>1
      <4>3. f[S \ {x}] = B[y] + f[(S \ {x}) \ {y}]
        BY <1>14, <3>3, <4>1
      <4>4. f[(S \ {x}) \ {y}] \in Nat
        <5>1. Cardinality((S \ {x}) \ {y}) <= n
          <6>1. /\ Cardinality(S \ {x}) \in Nat
                /\ Cardinality((S \ {x}) \ {y}) = Cardinality(S \ {x}) - 1
            <7> DEFINE Sx == S \ {x}
            <7>1. Sx \in SUBSET D /\ y \in Sx
              BY <3>3, <4>1
            <7> HIDE DEF Sx
            <7>2. Cardinality(Sx) \in Nat /\ Cardinality(Sx \ {y}) = Cardinality(Sx) - 1
              BY <1>1, <7>1, SmallerByOne
            <7> QED
              BY <7>2 DEF Sx
          <6> QED
            BY <3>3, <6>1
        <5> QED
          BY <1>14, <3>3, <5>1
      <4>5. f[S \ {y}] = B[x] + f[(S \ {x}) \ {y}]
        BY <4>1, <4>2
      <4> DEFINE rest == f[(S \ {x}) \ {y}]
      <4>6. /\ rest \in Nat /\ f[S \ {y}] = B[x] + rest /\ f[S \ {x}] = B[y] + rest
        BY <4>3, <4>4, <4>5
      <4> HIDE DEF rest
      <4> QED
        BY <3>2, <3>5, <4>6
    <3> QED
      BY <3>6, <3>7
  <2>2. \A S \in SUBSET D : Cardinality(S) <= n + 1 => f[S] \in Nat
    <3> TAKE S \in SUBSET D
    <3> HAVE Cardinality(S) <= n + 1
    <3>1. CASE S = {}
      BY <1>12, <3>1
    <3>2. CASE S # {}
      BY <1>2, <2>1, <3>2
    <3> QED
      BY <3>1, <3>2
  <2> QED
    BY <2>1, <2>2
<1>15. Cardinality(D) \in U
  <2>1. Cardinality(D) \in Nat
    BY <1>1
  <2> HIDE DEF U
  <2> QED
    BY <1>13, <1>14, <2>1, SetInduction
<1>16. \A S \in SUBSET D : f[S] \in Nat /\ \A x \in S : f[S] = B[x] + f[S \ {x}]
  BY <1>1, <1>15, FS_Subset
<1>17. f \in [SUBSET D -> Nat]
  <2>1. f = [S \in SUBSET D |-> f[S]]
    <3> DEFINE h == [S \in SUBSET D |-> step(f, S)]
    <3> HIDE DEF step
    <3>1. f = h
      BY <1>8 DEF Fits
    <3> QED
      BY <3>1
  <2> QED
    BY <1>16, <2>1
<1>18. SumsUp(f, B)
  BY <1>12, <1>16, <1>17 DEF SumsUp, D
<1> QED
  BY <1>11, <1>18 DEF D

\* The size of two bags together.
LEMMA SizeOfBoth ==
    ASSUME NEW A, NEW B, IsFiniteBag(A), IsFiniteBag(B)
    PROVE  /\ IsFiniteBag(A (+) B)
           /\ BagCardinality(A) \in Nat /\ BagCardinality(B) \in Nat
           /\ BagCardinality(A (+) B) = BagCardinality(A) + BagCardinality(B)
<1> DEFINE C == A (+) B
           D == DOMAIN A \cup DOMAIN B
<1>1. /\ DOMAIN C = D
      /\ \A x \in D : C[x] = (IF x \in DOMAIN A THEN A[x] ELSE 0)
                           + (IF x \in DOMAIN B THEN B[x] ELSE 0)
      /\ C = [x \in D |-> C[x]]
  BY DEF (+)
<1>2. /\ \A x \in DOMAIN A : A[x] \in Nat /\ A[x] > 0
      /\ \A x \in DOMAIN B : B[x] \in Nat /\ B[x] > 0
      /\ IsFiniteSet(DOMAIN A) /\ IsFiniteSet(DOMAIN B) /\ IsFiniteSet(D)
  <2>1. IsFiniteSet(DOMAIN A) /\ IsFiniteSet(DOMAIN B)
    BY DEF IsFiniteBag, BagToSet
  <2> QED
    BY <2>1, FS_Union DEF IsFiniteBag, IsABag
<1> HIDE DEF C, D
<1>3. \A x \in D : C[x] \in Nat /\ C[x] > 0
  <2>1. \A x \in D : x \in DOMAIN A \/ x \in DOMAIN B
    BY DEF D
  <2> QED
    BY <1>1, <1>2, <2>1
<1>4. IsFiniteBag(C)
  <2>1. C \in [DOMAIN C -> {n \in Nat : n > 0}]
    BY <1>1, <1>3
  <2> QED
    BY <1>1, <1>2, <2>1 DEF IsFiniteBag, IsABag, BagToSet
<1>5. PICK f : SumsUp(f, A) /\ BagCardinality(A) = f[DOMAIN A]
  BY SizeIsSum
<1>6. PICK g : SumsUp(g, B) /\ BagCardinality(B) = g[DOMAIN B]
  BY SizeIsSum
<1>7. PICK h : SumsUp(h, C) /\ BagCardinality(C) = h[DOMAIN C]
  BY <1>4, SizeIsSum
<1> DEFINE In(S, X) == S \cap X
           Splits(S) == h[S] = f[In(S, DOMAIN A)] + g[In(S, DOMAIN B)]
           T == {n \in Nat : \A S \in SUBSET D : Cardinality(S) <= n => Splits(S)}
<1>8. \A S \in SUBSET D : IsFiniteSet(S) /\ Cardinality(S) \in Nat
  BY <1>2, FS_Subset, FS_CardinalityType
<1>9. Splits({})
  <2>1. In({}, DOMAIN A) = {} /\ In({}, DOMAIN B) = {}
    OBVIOUS
  <2> QED
    BY <1>5, <1>6, <1>7, <2>1 DEF SumsUp
<1>10. 0 \in T
  <2>1. \A S \in SUBSET D : Cardinality(S) <= 0 => S = {}
    BY <1>8, FS_EmptySet
  <2> HIDE DEF Splits
  <2> QED
    BY <1>9, <2>1
<1>11. ASSUME NEW n \in Nat, n \in T PROVE n + 1 \in T
  <2>1. ASSUME NEW S \in SUBSET D, Cardinality(S) <= n + 1, NEW x \in S PROVE Splits(S)
    <3> DEFINE R == S \ {x}
               SA == In(S, DOMAIN A)
               SB == In(S, DOMAIN B)
               RA == In(R, DOMAIN A)
               RB == In(R, DOMAIN B)
    <3>1. R \in SUBSET D /\ Cardinality(R) <= n
      BY <1>2, <1>8, <2>1, SmallerByOne
    <3>2. /\ SA \in SUBSET DOMAIN A /\ RA \in SUBSET DOMAIN A
          /\ SB \in SUBSET DOMAIN B /\ RB \in SUBSET DOMAIN B
      OBVIOUS
    <3>3. /\ x \in DOMAIN A => x \in SA /\ RA = SA \ {x}
          /\ x \notin DOMAIN A => RA = SA
          /\ x \in DOMAIN B => x \in SB /\ RB = SB \ {x}
          /\ x \notin DOMAIN B => RB = SB
      OBVIOUS
    <3>4. h[R] = f[RA] + g[RB]
      BY <1>11, <3>1
    <3>5. h[S] = C[x] + h[R]
      BY <1>1, <1>7 DEF SumsUp
    <3> HIDE DEF R, SA, SB, RA, RB
    <3>6. f[SA] \in Nat /\ f[RA] \in Nat /\ g[SB] \in Nat /\ g[RB] \in Nat
      BY <1>5, <1>6, <3>2 DEF SumsUp
    <3>7. f[SA] = (IF x \in DOMAIN A THEN A[x] ELSE 0) + f[RA]
      <4>1. CASE x \in DOMAIN A
        <5>1. f[SA] = A[x] + f[SA \ {x}]
          BY <1>5, <3>2, <3>3, <4>1 DEF SumsUp
        <5> QED
          BY <3>3, <4>1, <5>1
      <4>2. CASE x \notin DOMAIN A
        BY <3>3, <3>6, <4>2
      <4> QED
        BY <4>1, <4>2
    <3>8. g[SB] = (IF x \in DOMAIN B THEN B[x] ELSE 0) + g[RB]
      <4>1. CASE x \in DOMAIN B
        <5>1. g[SB] = B[x] + g[SB \ {x}]
          BY <1>6, <3>2, <3>3, <4>1 DEF SumsUp
        <5> QED
          BY <3>3, <4>1, <5>1
      <4>2. CASE x \notin DOMAIN B
        BY <3>3, <3>6, <4>2
      <4> QED
        BY <4>1, <4>2
    <3>9. h[S] = f[SA] + g[SB]
      <4>1. x \in D
        OBVIOUS
      <4> QED
        BY <1>1, <1>2, <3>4, <3>5, <3>6, <3>7, <3>8, <4>1
    <3> QED
      BY <3>9 DEF SA, SB
  <2>2. \A S \in SUBSET D : Cardinality(S) <= n + 1 => Splits(S)
    <3> TAKE S \in SUBSET D
    <3> HAVE Cardinality(S) <= n + 1
    <3> HIDE DEF Splits
    <3>1. CASE S = {}
      BY <1>9, <3>1
    <3>2. CASE S # {}
      BY <2>1, <3>2
    <3> QED
      BY <3>1, <3>2
  <2> HIDE DEF Splits
  <2> QED
    BY <2>2
<1>12. Splits(D)
  <2>1. Cardinality(D) \in Nat
    BY <1>8
  <2> HIDE DEF Splits
  <2>2. Cardinality(D) \in T
    <3> HIDE DEF T
    <3> QED
      BY <1>10, <1>11, <2>1, SetInduction
  <2> QED
    BY <2>1, <2>2
<1>13. In(D, DOMAIN A) = DOMAIN A /\ In(D, DOMAIN B) = DOMAIN B
  BY DEF D
<1>14. f[DOMAIN A] \in Nat /\ g[DOMAIN B] \in Nat
  BY <1>5, <1>6 DEF SumsUp
<1> QED
  BY <1>1, <1>4, <1>5, <1>6, <1>7, <1>12, <1>13, <1>14 DEF C

----------------------------------------------------------------------------
(* Programs *)

\* The requests of a section.
LEMMA SectionFacts ==
    ASSUME NEW s \in DOMAIN Steps
    PROVE  /\ Section(s) \in Seq(Requests)
           /\ Len(Steps[s]) \in Nat /\ DOMAIN Steps[s] = 1..Len(Steps[s])
           /\ Len(Section(s)) = Len(Steps[s])
           /\ \A k \in 1..Len(Steps[s]) : Section(s)[k] = Request(s, k)
<1>1. Steps[s] \in Seq([ask : Kinds, name : Titles])
  BY SuiteAssumption
<1>2. Len(Steps[s]) \in Nat /\ DOMAIN Steps[s] = 1..Len(Steps[s])
      /\ \A k \in 1..Len(Steps[s]) : Steps[s][k] \in [ask : Kinds, name : Titles]
  <2> DEFINE R == [ask : Kinds, name : Titles]
             u == Steps[s]
  <2>1. u \in Seq(R)
    BY <1>1
  <2> HIDE DEF R, u
  <2>2. Len(u) \in Nat /\ DOMAIN u = 1..Len(u) /\ \A k \in 1..Len(u) : u[k] \in R
    BY <2>1
  <2> QED
    BY <2>2 DEF R, u
<1>3. \A k \in 1..Len(Steps[s]) : Request(s, k) \in Requests
  BY <1>2 DEF Request, Requests
<1>4. Section(s) = [k \in 1..Len(Steps[s]) |-> Request(s, k)]
  BY <1>2 DEF Section
<1>5. Section(s) \in [1..Len(Steps[s]) -> Requests]
  BY <1>3, <1>4
<1>6. Section(s) \in Seq(Requests) /\ Len(Section(s)) = Len(Steps[s])
  BY <1>2, <1>5
<1> QED
  BY <1>2, <1>4, <1>6

\* The sections in their order.
LEMMA OrderFacts ==
    /\ Len(Order) \in Nat /\ DOMAIN Order = 1..Len(Order)
    /\ \A i \in 1..Len(Order) : Order[i] \in DOMAIN Steps
  BY SuiteAssumption

\* The program of a selection, one section after the other.
LEMMA ProgramsStep ==
    ASSUME NEW sel
    PROVE  /\ Programs(sel)[0] = <<>>
           /\ \A i \in Nat : i + 1 <= Len(Order) =>
                 Programs(sel)[i + 1] =
                    IF Order[i + 1] \in sel THEN Programs(sel)[i] \o Section(Order[i + 1])
                    ELSE Programs(sel)[i]
<1> DEFINE P == Programs(sel)
<1>1. P = [i \in 0..Len(Order) |->
               IF i = 0 THEN <<>>
               ELSE IF Order[i] \in sel THEN P[i - 1] \o Section(Order[i]) ELSE P[i - 1]]
  BY ProgramsUnfold
<1> HIDE DEF P
<1>2. P[0] = <<>>
  BY <1>1, OrderFacts
<1>3. ASSUME NEW i \in Nat, i + 1 <= Len(Order)
      PROVE  P[i + 1] = IF Order[i + 1] \in sel THEN P[i] \o Section(Order[i + 1]) ELSE P[i]
  <2>1. i + 1 \in 0..Len(Order) /\ i + 1 # 0 /\ (i + 1) - 1 = i
    BY <1>3, OrderFacts
  <2> QED
    BY <1>1, <2>1
<1> QED
  BY <1>2, <1>3 DEF P

\* A program is a sequence of requests.
LEMMA ProgramRequests == \A sel : Program(sel) \in Seq(Requests)
<1> SUFFICES ASSUME NEW sel PROVE Program(sel) \in Seq(Requests)
  OBVIOUS
<1> DEFINE T == {n \in Nat : n <= Len(Order) => Programs(sel)[n] \in Seq(Requests)}
<1>1. 0 \in T
  <2>1. Programs(sel)[0] \in Seq(Requests)
    <3>1. <<>> \in Seq(Requests)
      OBVIOUS
    <3> QED
      BY <3>1, ProgramsStep
  <2> QED
    BY <2>1
<1>2. ASSUME NEW n \in Nat, n \in T PROVE n + 1 \in T
  <2>1. SUFFICES ASSUME n + 1 <= Len(Order) PROVE Programs(sel)[n + 1] \in Seq(Requests)
    OBVIOUS
  <2>2. n <= Len(Order) /\ n + 1 \in 1..Len(Order)
    BY <2>1, OrderFacts
  <2>3. Section(Order[n + 1]) \in Seq(Requests) /\ Programs(sel)[n] \in Seq(Requests)
    BY <1>2, <2>2, OrderFacts, SectionFacts
  <2>4. Programs(sel)[n] \o Section(Order[n + 1]) \in Seq(Requests)
    BY <2>3
  <2> QED
    BY <2>1, <2>3, <2>4, ProgramsStep
<1>3. Len(Order) \in T
  <2> HIDE DEF T
  <2> QED
    BY <1>1, <1>2, OrderFacts, SetInduction
<1> QED
  BY <1>3, OrderFacts DEF Program

----------------------------------------------------------------------------
(* Types and reports *)

\* Bags together are a bag.
LEMMA BagOfBoth == ASSUME NEW A, NEW B, IsABag(A), IsABag(B) PROVE IsABag(A (+) B)
<1> DEFINE C == A (+) B
           D == DOMAIN A \cup DOMAIN B
<1>1. C = [x \in D |-> (IF x \in DOMAIN A THEN A[x] ELSE 0) + (IF x \in DOMAIN B THEN B[x] ELSE 0)]
  BY DEF (+)
<1>2. \A x \in D : C[x] \in {n \in Nat : n > 0}
  BY <1>1 DEF IsABag
<1> HIDE DEF C, D
<1>3. C \in [D -> {n \in Nat : n > 0}] /\ DOMAIN C = D
  BY <1>1, <1>2
<1> QED
  BY <1>3 DEF IsABag, C

\* The empty bag.
LEMMA NoIds == IsFiniteBag(EmptyBag) /\ BagCardinality(EmptyBag) \in Nat
<1>1. IsFiniteBag(EmptyBag)
  BY FS_EmptySet DEF IsFiniteBag, IsABag, BagToSet, EmptyBag, SetToBag
<1> QED
  BY <1>1, SizeOfBoth

\* The ids of an outcome.
LEMMA OutcomeIds == \A answer \in Outcomes : IsABag(answer.ids)
<1>1. IsABag(Failed.ids)
  BY NoIds DEF Failed, IsFiniteBag
<1>2. \A a \in Answers : IsABag(Got(a).ids)
  BY SuiteAssumption DEF Got, IsFiniteBag
<1> QED
  BY <1>1, <1>2 DEF Outcomes

\* What the core of the suite keeps.
CoreInv == TypeOK /\ Reports /\ RunsLeft

\* The first state.
LEMMA CoreInit == Init => CoreInv
<1> SUFFICES ASSUME Init PROVE CoreInv
  OBVIOUS
<1>1. cases = <<>> /\ files = <<>> /\ todo = <<>> /\ expect = NoReport /\ pc = "idle"
      /\ runs = 0 /\ base = -1 /\ tiles = Got(EmptyBag) /\ tally = [c \in Classes |-> 0]
  BY DEF Init
<1>2. \A S : <<>> \in Seq(S)
  OBVIOUS
<1>3. WellMade(cases) /\ \A f \in DOMAIN files : WellMade(files[f])
  BY <1>1, <1>2 DEF WellMade
<1>4. tiles.err \in BOOLEAN /\ IsABag(tiles.ids)
  BY <1>1, NoIds DEF Got, IsFiniteBag
<1>5. tally \in [Classes -> Nat] /\ \A c \in Classes : tally[c] <= Len(cases)
  BY <1>1
<1>6. TypeOK
  <2>1. {fresh, late, lost} \subseteq [Backends -> BOOLEAN] /\ backend \in Backends
    BY DEF Init
  <2>2. runs \in 0..MaxRuns /\ Len(files) <= runs
    BY <1>1, SuiteAssumption
  <2>3. \A i \in DOMAIN cases : cases[i].err \in BOOLEAN
    BY <1>1
  <2> QED
    BY <1>1, <1>2, <1>4, <1>5, <2>1, <2>2, <2>3 DEF TypeOK
<1>7. RunsLeft
  BY <1>1 DEF RunsLeft
<1> QED
  BY <1>1, <1>3, <1>6, <1>7 DEF CoreInv, Reports

\* A number of requests out of n is at most n.
LEMMA CountOf ==
    ASSUME NEW n \in Nat, NEW S, S \subseteq 1..n
    PROVE  IsFiniteSet(S) /\ Cardinality(S) \in Nat /\ Cardinality(S) <= n
<1>1. IsFiniteSet(1..n) /\ Cardinality(1..n) = n
  BY FS_Interval
<1>2. IsFiniteSet(S) /\ Cardinality(S) <= Cardinality(1..n)
  BY <1>1, FS_Subset
<1> QED
  BY <1>1, <1>2, FS_CardinalityType

\* The counts of the classes never pass the number of cases.
LEMMA EmitTally ==
    ASSUME CoreInv, NEW recs, Recorded(Step, recs), Emit(recs)
    PROVE  tally' \in [Classes -> Nat] /\ \A c \in Classes : tally'[c] <= Len(cases')
<1> DEFINE new == Renamed(recs)
           seen(c) == {k \in DOMAIN new : InlineClass(new[k]) = c}
<1>1. WellMade(cases) /\ cases \in Seq(ToSet(cases)) /\ Len(cases) \in Nat
      /\ tally \in [Classes -> Nat] /\ \A c \in Classes : tally[c] <= Len(cases)
  BY DEF CoreInv, Reports, WellMade, TypeOK
<1>2. /\ new \in Seq(ToSet(new)) /\ Len(new) = Len(recs)
      /\ Len(recs) \in Nat /\ DOMAIN new = 1..Len(recs)
  BY <1>1, RenamedFacts
<1>3. /\ cases' = cases \o new
      /\ tally' = IF expect = NoReport THEN tally
                  ELSE [c \in Classes |-> tally[c] + Cardinality(seen(c))]
  BY DEF Emit, Renamed
<1>4. \A c \in Classes : seen(c) \subseteq 1..Len(recs)
  <2> HIDE DEF new
  <2> QED
    BY <1>2
<1> HIDE DEF new, seen
<1>5. \A c \in Classes : Cardinality(seen(c)) \in Nat /\ Cardinality(seen(c)) <= Len(recs)
  BY <1>2, <1>4, CountOf
<1>6. Len(cases') = Len(cases) + Len(recs)
  BY <1>1, <1>2, <1>3, Appended
<1>7. CASE expect = NoReport
  BY <1>1, <1>2, <1>3, <1>6, <1>7
<1>8. CASE expect # NoReport
  BY <1>1, <1>2, <1>3, <1>5, <1>6, <1>8
<1> QED
  BY <1>7, <1>8

\* What a recorded request does to all but the tiles, the baseline and the server.
LEMMA EmitTyped ==
    ASSUME CoreInv, NEW recs, Recorded(Step, recs), Emit(recs), todo # <<>>, pc = "run",
           tiles'.err \in BOOLEAN, IsABag(tiles'.ids), base' \in Int,
           {fresh', late', lost'} \subseteq [Backends -> BOOLEAN]
    PROVE  CoreInv'
<1>1. cases' = cases \o Renamed(recs) /\ WellMade(cases')
  BY EmitWellMade DEF CoreInv, Reports
<1>2. UNCHANGED <<pc, backend, expect, files, runs>> /\ todo' = Tail(todo)
  BY DEF Emit
<1>3. todo' \in Seq(Requests)
  <2>1. todo \in Seq(Requests)
    BY DEF CoreInv, TypeOK
  <2> HIDE DEF Requests
  <2> QED
    BY <1>2, <2>1
<1>4. TypeOK'
  <2>1. cases' \in Seq(ToSet(cases')) /\ \A i \in DOMAIN cases' : cases'[i].err \in BOOLEAN
    BY <1>1 DEF WellMade
  <2>2. tally' \in [Classes -> Nat] /\ \A c \in Classes : tally'[c] <= Len(cases')
    BY EmitTally
  <2>3. /\ pc' \in {"idle", "run", "exit"} /\ backend' \in Backends
        /\ files' \in Seq(ToSet(files')) /\ Len(files') <= runs' /\ runs' \in 0..MaxRuns
    BY <1>2 DEF CoreInv, TypeOK
  <2> QED
    BY <1>3, <2>1, <2>2, <2>3 DEF TypeOK
<1>5. Reports'
  BY <1>1, <1>2 DEF CoreInv, Reports
<1>6. RunsLeft'
  BY <1>2 DEF CoreInv, RunsLeft
<1> QED
  BY <1>4, <1>5, <1>6 DEF CoreInv

\* The recording steps keep the core.
LEMMA CoreEmit == ASSUME CoreInv, Emitting PROVE CoreInv'
<1>1. TypeOK
  BY DEF CoreInv
<1>2. PICK recs : Emit(recs) /\ Recorded(Step, recs)
  BY <1>1, EmittingRecords
<1>3. pc = "run" /\ todo # <<>>
  BY <1>1, EmittingRecords
<1>4. /\ tiles.err \in BOOLEAN /\ IsABag(tiles.ids) /\ base \in Int /\ backend \in Backends
      /\ fresh \in [Backends -> BOOLEAN] /\ late \in [Backends -> BOOLEAN]
      /\ lost \in [Backends -> BOOLEAN]
  BY <1>1 DEF TypeOK
<1>5. tiles'.err \in BOOLEAN /\ IsABag(tiles'.ids)
  <2>1. CASE Tile
    <3>1. PICK answer \in Outcomes : tiles' = AddTile(tiles, answer)
      BY <2>1 DEF Tile
    <3>2. CASE tiles' = Failed
      BY <3>2, NoIds DEF Failed, IsFiniteBag
    <3>3. CASE tiles' = Got(tiles.ids (+) answer.ids)
      <4>1. IsABag(tiles.ids (+) answer.ids)
        BY <1>4, BagOfBoth, OutcomeIds
      <4> QED
        BY <3>3, <4>1 DEF Got
    <3> QED
      BY <3>1, <3>2, <3>3 DEF AddTile
  <2>2. CASE ~Tile
    <3>1. tiles' = tiles
      BY <2>2 DEF Emitting, Query, Union, Disjoint, Repeat, Plan, PageAll, Baseline,
                  ScriptAnswered, ScriptFailed, Again
    <3> QED
      BY <1>4, <3>1
  <2> QED
    BY <2>1, <2>2
<1>6. base' \in Int
  <2>1. CASE Baseline
    <3>1. PICK answer \in {Failed, Got(Matches)} :
             base' = IF answer.err THEN -1 ELSE BagCardinality(answer.ids)
      BY <2>1 DEF Baseline
    <3>2. IsFiniteBag(Gold) /\ IsFiniteBag(Fresh)
      BY SuiteAssumption
    <3>3. BagCardinality(Gold) \in Nat /\ BagCardinality(Gold (+) Fresh) \in Nat
      BY <3>2, SizeOfBoth
    <3>4. BagCardinality(Got(Matches).ids) \in Nat
      BY <3>3 DEF Got, Matches
    <3>5. BagCardinality(Failed.ids) \in Nat
      BY NoIds DEF Failed
    <3> QED
      BY <3>1, <3>4, <3>5
  <2>2. CASE ~Baseline
    <3>1. base' = base
      BY <2>2 DEF Emitting, Query, Tile, Union, Disjoint, Repeat, Plan, PageAll,
                  ScriptAnswered, ScriptFailed, Again
    <3> QED
      BY <1>4, <3>1
  <2> QED
    BY <2>1, <2>2
<1>7. {fresh', late', lost'} \subseteq [Backends -> BOOLEAN]
  <2>1. CASE ScriptAnswered
    BY <1>4, <2>1 DEF ScriptAnswered
  <2>2. CASE ScriptFailed
    BY <1>4, <2>2 DEF ScriptFailed, server
  <2>3. CASE ~ScriptAnswered /\ ~ScriptFailed
    <3>1. fresh' = fresh /\ late' = late /\ lost' = lost
      BY <2>3 DEF Emitting, Query, Tile, Union, Disjoint, Repeat, Plan, PageAll, Baseline,
                  Again, server
    <3> QED
      BY <1>4, <3>1
  <2> QED
    BY <2>1, <2>2, <2>3
<1> QED
  BY <1>2, <1>3, <1>5, <1>6, <1>7, EmitTyped

\* The fresh vertices of a server may be lost.
LEMMA LostTyped ==
    ASSUME TypeOK, lost' = [lost EXCEPT ![backend] = @ \/ fresh[backend]]
    PROVE  lost' \in [Backends -> BOOLEAN]
<1>1. lost \in [Backends -> BOOLEAN] /\ fresh \in [Backends -> BOOLEAN] /\ backend \in Backends
  BY DEF TypeOK
<1> DEFINE v == lost[backend] \/ fresh[backend]
<1>2. v \in BOOLEAN
  OBVIOUS
<1> HIDE DEF v
<1>3. lost' = [lost EXCEPT ![backend] = v]
  BY DEF v
<1> QED
  BY <1>1, <1>2, <1>3

\* The steps that record nothing keep the core.
LEMMA CoreQuiet ==
    ASSUME CoreInv,
           \/ \E b \in Backends, sel \in Selections :
                 \E oracle \in {NoReport} \cup {files[f] : f \in DOMAIN files} :
                    StartRun(b, sel, oracle)
           \/ Cleanup \/ Dump \/ Exit \/ Killed
           \/ \E b \in Backends : LateCommit(b)
           \/ UNCHANGED vars
    PROVE  CoreInv'
<1>1. TypeOK /\ Reports /\ RunsLeft
  BY DEF CoreInv
<1>2. /\ backend \in Backends /\ todo \in Seq(Requests)
      /\ cases \in Seq(ToSet(cases)) /\ (\A i \in DOMAIN cases : cases[i].err \in BOOLEAN)
      /\ tiles.err \in BOOLEAN /\ IsABag(tiles.ids) /\ base \in Int
      /\ tally \in [Classes -> Nat] /\ (\A c \in Classes : tally[c] <= Len(cases))
      /\ files \in Seq(ToSet(files)) /\ Len(files) <= runs /\ runs \in 0..MaxRuns
      /\ fresh \in [Backends -> BOOLEAN] /\ late \in [Backends -> BOOLEAN]
      /\ lost \in [Backends -> BOOLEAN]
  BY <1>1 DEF TypeOK
<1>3. MaxRuns \in Nat
  BY SuiteAssumption
<1>4. ASSUME NEW b \in Backends, NEW sel \in Selections,
             NEW oracle \in {NoReport} \cup {files[f] : f \in DOMAIN files},
             StartRun(b, sel, oracle)
      PROVE  CoreInv'
  <2>1. /\ pc = "idle" /\ runs < MaxRuns /\ pc' = "run" /\ runs' = runs + 1
        /\ backend' = b /\ todo' = Program(sel) /\ cases' = <<>> /\ expect' = oracle
        /\ tally' = [c \in Classes |-> 0] /\ tiles' = Got(EmptyBag) /\ base' = -1
        /\ files' = files /\ fresh' = fresh /\ late' = late /\ lost' = lost
    BY <1>4 DEF StartRun, server
  <2>2. \A S : <<>> \in Seq(S)
    OBVIOUS
  <2>3. tiles'.err \in BOOLEAN /\ IsABag(tiles'.ids)
    BY <2>1, NoIds DEF Got, IsFiniteBag
  <2>4. tally' \in [Classes -> Nat] /\ \A c \in Classes : tally'[c] <= Len(cases')
    BY <2>1
  <2>5. todo' \in Seq(Requests)
    BY <2>1, ProgramRequests
  <2>6. Len(files) \in Nat
    BY <1>2
  <2>7. Len(files') <= runs' /\ runs' \in 0..MaxRuns
    BY <1>2, <1>3, <2>1, <2>6
  <2>8. TypeOK'
    <3>1. \A i \in DOMAIN cases' : cases'[i].err \in BOOLEAN
      BY <2>1
    <3> HIDE DEF Requests
    <3> QED
      BY <1>2, <2>1, <2>2, <2>3, <2>4, <2>5, <2>7, <3>1 DEF TypeOK
  <2>9. Reports'
    <3>1. WellMade(cases')
      BY <2>1, <2>2 DEF WellMade
    <3> QED
      BY <1>1, <2>1, <3>1 DEF Reports
  <2>10. RunsLeft'
    BY <1>1, <1>2, <2>1, <2>6 DEF RunsLeft
  <2> QED
    BY <2>8, <2>9, <2>10 DEF CoreInv
<1>5. CASE Cleanup
  <2>1. /\ pc = "run" /\ todo # <<>> /\ todo' = Tail(todo)
        /\ UNCHANGED <<pc, backend, cases, expect, tally, tiles, base, files, runs, late>>
    BY <1>5 DEF Cleanup, Ask
  <2>2. todo' \in Seq(Requests)
    <3> HIDE DEF Requests
    <3> QED
      BY <1>2, <2>1
  <2>3. fresh' \in [Backends -> BOOLEAN] /\ lost' \in [Backends -> BOOLEAN]
    BY <1>1, <1>2, <1>5, LostTyped DEF Cleanup
  <2> QED
    BY <1>1, <1>2, <2>1, <2>2, <2>3 DEF CoreInv, TypeOK, Reports, RunsLeft
<1>6. CASE Dump
  <2>1. /\ pc = "run" /\ pc' = "exit" /\ files' \in {files, Append(files, cases)}
        /\ UNCHANGED <<backend, todo, cases, expect, tally, tiles, base, runs, server>>
    BY <1>6 DEF Dump
  <2>2. Len(files) \in Nat /\ Len(files) + 1 <= runs
    BY <1>1, <1>2, <2>1 DEF RunsLeft
  <2>3. /\ files' \in Seq(ToSet(files')) /\ Len(files') \in Nat /\ Len(files') <= Len(files) + 1
        /\ \A f \in DOMAIN files' : WellMade(files'[f])
    <3>1. CASE files' = files
      BY <1>1, <1>2, <2>2, <3>1 DEF Reports
    <3>2. CASE files' = Append(files, cases)
      <4> DEFINE both == ToSet(files) \cup {cases}
      <4>1. files \in Seq(both) /\ cases \in both
        BY <1>2
      <4> HIDE DEF both
      <4>2. /\ files' \in Seq(both) /\ Len(files') = Len(files) + 1
            /\ \A f \in DOMAIN files' : \/ files'[f] = cases
                                       \/ (f \in DOMAIN files /\ files'[f] = files[f])
        BY <3>2, <4>1
      <4> QED
        BY <1>1, <2>2, <4>2, OwnElements DEF Reports
    <3> QED
      BY <2>1, <3>1, <3>2
  <2>4. TypeOK'
    <3>1. Len(files') <= runs'
      BY <1>2, <2>1, <2>2, <2>3
    <3> QED
      BY <1>2, <2>1, <2>3, <3>1 DEF TypeOK, server
  <2>5. Reports'
    BY <1>1, <2>1, <2>3 DEF Reports
  <2>6. RunsLeft'
    BY <1>2, <2>1, <2>2, <2>3 DEF RunsLeft
  <2> QED
    BY <2>4, <2>5, <2>6 DEF CoreInv
<1>7. CASE Exit
  <2>1. /\ pc = "exit" /\ pc' = "idle"
        /\ UNCHANGED <<backend, todo, cases, expect, tally, tiles, base, files, runs,
                       fresh, late, lost>>
    BY <1>7 DEF Exit, server
  <2> QED
    BY <1>1, <2>1 DEF CoreInv, TypeOK, Reports, RunsLeft
<1>8. CASE Killed
  <2>1. /\ pc = "run" /\ pc' = "idle" /\ todo' = <<>>
        /\ UNCHANGED <<backend, cases, expect, tally, tiles, base, files, runs, fresh, late>>
    BY <1>8 DEF Killed
  <2>2. lost' \in [Backends -> BOOLEAN]
    BY <1>1, <1>8, LostTyped DEF Killed
  <2>3. todo' \in Seq(Requests)
    BY <2>1
  <2>4. Len(files) \in Nat
    BY <1>2
  <2> QED
    BY <1>1, <1>2, <2>1, <2>2, <2>3, <2>4 DEF CoreInv, TypeOK, Reports, RunsLeft
<1>9. ASSUME NEW b \in Backends, LateCommit(b) PROVE CoreInv'
  <2>1. /\ UNCHANGED <<pc, backend, todo, cases, expect, tally, tiles, base, files, runs>>
        /\ late' = [late EXCEPT ![b] = FALSE] /\ fresh' = [fresh EXCEPT ![b] = TRUE]
        /\ lost' = [lost EXCEPT ![b] = TRUE]
    BY <1>9 DEF LateCommit, run
  <2>2. {fresh', late', lost'} \subseteq [Backends -> BOOLEAN]
    BY <1>2, <2>1
  <2> QED
    BY <1>1, <1>2, <2>1, <2>2 DEF CoreInv, TypeOK, Reports, RunsLeft
<1>10. CASE UNCHANGED vars
  <2>1. UNCHANGED <<pc, backend, todo, cases, expect, tally, tiles, base, files, runs,
                    fresh, late, lost>>
    BY <1>10 DEF vars, run, server
  <2> QED
    BY <1>1, <2>1 DEF CoreInv, TypeOK, Reports, RunsLeft
<1> QED
  BY <1>4, <1>5, <1>6, <1>7, <1>8, <1>9, <1>10

\* The core is kept.
LEMMA CoreNext == ASSUME CoreInv, [Next]_vars PROVE CoreInv'
  BY CoreEmit, CoreQuiet DEF Next, RunStep, Emitting

\* The core always holds.
LEMMA CoreAlways == Spec => []CoreInv
<1>1. CoreInv /\ [Next]_vars => CoreInv'
  BY CoreNext
<1> QED
  BY <1>1, CoreInit, PTL DEF Spec

\* A run counts no more cases than it has, no more reports than it started.
THEOREM SuiteTypeInvariant == Spec => []TypeOK
<1>1. CoreInv => TypeOK
  BY DEF CoreInv
<1> QED
  BY <1>1, CoreAlways, PTL

----------------------------------------------------------------------------
(* run --expect and compare *)

\* In a report every key has one case.
LEMMA OneEntry ==
    ASSUME NEW report, WellMade(report), NEW j \in DOMAIN report
    PROVE  report[j].key \in Keys(report) /\ Entry(report, report[j].key) = report[j]
<1> DEFINE S == {i \in DOMAIN report : report[i].key = report[j].key}
<1>1. S = {j} /\ j \in Nat
  BY DEF WellMade
<1> HIDE DEF S
<1>2. Max(S) = j
  BY <1>1 DEF Max
<1>3. Entry(report, report[j].key) = report[Max(S)]
  BY DEF Entry, S
<1> QED
  BY <1>2, <1>3 DEF Keys

\* A case that is in both reports is in one of six classes.
LEMMA ClassifyRange == \A o, t : Classify(o, t) \in Classes \ {"NEW"}
  BY DEF Classify, Classes

\* The rows of a class, old ones and those of the new cases.
LEMMA CountGrows ==
    ASSUME NEW R, IsFiniteSet(R), NEW K, IsFiniteSet(K), NEW f, f = [x \in K |-> f[x]],
           \A x, y \in K : f[x] = f[y] => x = y, \A x \in K : f[x] \notin R,
           NEW B, \A z : z \in B <=> z \in R \/ \E x \in K : z = f[x]
    PROVE  Cardinality(B) = Cardinality(R) + Cardinality(K)
<1> DEFINE A == {f[x] : x \in K}
<1>1. Cardinality(R) \in Nat /\ Cardinality(K) \in Nat
  BY FS_CardinalityType
<1>2. f \in Bijection(K, A)
  <2>1. f \in [K -> A]
    OBVIOUS
  <2> QED
    BY <2>1 DEF Bijection, Injection, Surjection, IsInjective
<1>3. IsFiniteSet(A) /\ Cardinality(A) = Cardinality(K)
  <2>1. ExistsBijection(K, A)
    BY <1>2 DEF ExistsBijection
  <2> HIDE DEF A
  <2> QED
    BY <2>1, FS_Bijection
<1>4. R \cap A = {} /\ B = R \cup A
  OBVIOUS
<1> HIDE DEF A
<1>5. Cardinality(R \cup A) = Cardinality(R) + Cardinality(A) - Cardinality(R \cap A)
  BY <1>3, FS_Union
<1>6. Cardinality(R \cap A) = 0
  BY <1>4, FS_EmptySet
<1> QED
  BY <1>1, <1>3, <1>4, <1>5, <1>6

\* The class of a case against a report.
ClassIn(O, rec) == IF rec.key \in Keys(O) THEN Classify(Entry(O, rec.key), rec) ELSE "NEW"

\* The target T of a comparison with O gets the cases N, of which those at K are of class c.
Grows(O, T, N, c, K) ==
    /\ WellMade(O) /\ WellMade(T) /\ WellMade(T \o N) /\ N \in Seq(ToSet(N))
    /\ \A k \in 1..Len(N) : N[k].key \notin Keys(T)
    /\ c \in Classes /\ K \subseteq 1..Len(N)
    /\ \A k \in 1..Len(N) : k \in K <=> ClassIn(O, N[k]) = c

\* The counts of compare when the target has more cases.
LEMMA ComparedGrows ==
    ASSUME NEW O, NEW T, NEW N, NEW c, NEW K, Grows(O, T, N, c, K)
    PROVE  Compared(O, T \o N)[c] = Compared(O, T)[c] + Cardinality(K)
<1>0. /\ WellMade(O) /\ WellMade(T) /\ WellMade(T \o N) /\ N \in Seq(ToSet(N))
      /\ \A k \in 1..Len(N) : N[k].key \notin Keys(T)
      /\ c \in Classes /\ K \subseteq 1..Len(N)
      /\ \A k \in 1..Len(N) : k \in K <=> ClassIn(O, N[k]) = c
  BY DEF Grows
<1> DEFINE both == T \o N
<1>1. /\ Len(O) \in Nat /\ DOMAIN O = 1..Len(O) /\ Len(T) \in Nat /\ DOMAIN T = 1..Len(T)
      /\ T \in Seq(ToSet(T))
  BY <1>0 DEF WellMade
<1>2. /\ Len(N) \in Nat /\ DOMAIN both = 1..(Len(T) + Len(N))
      /\ \A i \in 1..Len(T) : both[i] = T[i]
      /\ \A k \in 1..Len(N) : both[Len(T) + k] = N[k]
      /\ \A i \in 1..(Len(T) + Len(N)) : i \notin 1..Len(T) =>
            i - Len(T) \in 1..Len(N) /\ both[i] = N[i - Len(T)]
  BY <1>0, <1>1, Appended
<1>3. WellMade(both)
  BY <1>0
<1> HIDE DEF both
<1>4. \A i \in 1..Len(T) : /\ T[i].key \in Keys(both) /\ Entry(both, T[i].key) = T[i]
                           /\ T[i].key \in Keys(T) /\ Entry(T, T[i].key) = T[i]
  <2> TAKE i \in 1..Len(T)
  <2>1. i \in DOMAIN both /\ both[i] = T[i]
    BY <1>1, <1>2
  <2>2. both[i].key \in Keys(both) /\ Entry(both, both[i].key) = both[i]
    BY <1>3, <2>1, OneEntry
  <2>3. T[i].key \in Keys(T) /\ Entry(T, T[i].key) = T[i]
    BY <1>0, <1>1, OneEntry
  <2> QED
    BY <2>1, <2>2, <2>3
<1>5. \A k \in 1..Len(N) : N[k].key \in Keys(both) /\ Entry(both, N[k].key) = N[k]
  <2> TAKE k \in 1..Len(N)
  <2>1. Len(T) + k \in DOMAIN both /\ both[Len(T) + k] = N[k]
    BY <1>1, <1>2
  <2> DEFINE j == Len(T) + k
  <2>2. j \in DOMAIN both /\ both[j] = N[k]
    BY <2>1
  <2> HIDE DEF j
  <2>3. both[j].key \in Keys(both) /\ Entry(both, both[j].key) = both[j]
    BY <1>3, <2>2, OneEntry
  <2> QED
    BY <2>2, <2>3
<1>6. \A i \in DOMAIN O : O[i].key \in Keys(O) /\ Entry(O, O[i].key) = O[i]
  BY <1>0, OneEntry
<1>7. \A key : key \in Keys(both) <=> \/ key \in Keys(T)
                                      \/ \E k \in 1..Len(N) : key = N[k].key
  <2> TAKE key
  <2>1. ASSUME key \in Keys(both)
        PROVE  key \in Keys(T) \/ \E k \in 1..Len(N) : key = N[k].key
    <3>1. PICK j \in 1..(Len(T) + Len(N)) : key = both[j].key
      BY <1>2, <2>1 DEF Keys
    <3> QED
      BY <1>1, <1>2, <3>1 DEF Keys
  <2>2. ASSUME key \in Keys(T) PROVE key \in Keys(both)
    <3>1. PICK j \in 1..Len(T) : key = T[j].key
      BY <1>1, <2>2 DEF Keys
    <3> QED
      BY <1>4, <3>1
  <2> QED
    BY <1>5, <2>1, <2>2
<1>8. K \subseteq 1..Len(N) /\ \A k \in 1..Len(N) : k \in K <=> ClassIn(O, N[k]) = c
  BY <1>0
<1>9. c \in Classes \cup {"MISSING"} /\ c # "MISSING"
  BY <1>0 DEF Classes
<1>10. CASE c = "NEW"
  <2> DEFINE R(X) == {j \in DOMAIN X : X[j].key \notin Keys(O)}
             f == [k \in K |-> Len(T) + k]
  <2>1. Compared(O, T)[c] = Cardinality(R(T)) /\ Compared(O, both)[c] = Cardinality(R(both))
    BY <1>9, <1>10 DEF Compared
  <2>2. \A k \in 1..Len(N) : k \in K <=> N[k].key \notin Keys(O)
    BY <1>8, <1>10, ClassifyRange DEF ClassIn
  <2>3. R(both) = R(T) \cup {f[x] : x \in K}
    <3>1. ASSUME NEW j \in R(both) PROVE j \in R(T) \cup {f[x] : x \in K}
      <4>1. CASE j \in 1..Len(T)
        BY <1>1, <1>2, <4>1
      <4>2. CASE j \notin 1..Len(T)
        <5>1. j - Len(T) \in 1..Len(N) /\ both[j] = N[j - Len(T)]
          BY <1>2, <4>2
        <5>2. j - Len(T) \in K
          BY <2>2, <5>1
        <5>3. f[j - Len(T)] = j
          BY <1>1, <1>2, <5>2
        <5> QED
          BY <5>2, <5>3
      <4> QED
        BY <4>1, <4>2
    <3>2. ASSUME NEW j \in R(T) PROVE j \in R(both)
      BY <1>1, <1>2
    <3>3. ASSUME NEW k \in K PROVE f[k] \in R(both)
      <4>1. k \in 1..Len(N) /\ N[k].key \notin Keys(O)
        BY <1>8, <2>2
      <4>2. Len(T) + k \in DOMAIN both /\ both[Len(T) + k] = N[k]
        BY <1>1, <1>2, <4>1
      <4> DEFINE j == Len(T) + k
      <4>3. f[k] = j /\ j \in DOMAIN both /\ both[j].key \notin Keys(O)
        BY <4>1, <4>2
      <4> HIDE DEF j, f
      <4> QED
        BY <4>3
    <3> QED
      BY <3>1, <3>2, <3>3
  <2>4. /\ \A x, y \in K : f[x] = f[y] => x = y
        /\ \A x \in K : f[x] \notin R(T)
        /\ f = [x \in K |-> f[x]]
    BY <1>1, <1>2, <1>8
  <2>5. IsFiniteSet(R(T)) /\ IsFiniteSet(K)
    <3>1. R(T) \subseteq 1..Len(T)
      BY <1>1
    <3> HIDE DEF R
    <3> QED
      BY <1>1, <1>2, <1>8, <3>1, CountOf
  <2> DEFINE RT == R(T)
             RB == R(both)
  <2>6. \A z : z \in RB <=> z \in RT \/ \E x \in K : z = f[x]
    BY <2>3
  <2>7. Cardinality(RB) = Cardinality(RT) + Cardinality(K)
    <3>1. IsFiniteSet(RT) /\ \A x \in K : f[x] \notin RT
      BY <2>4, <2>5
    <3> HIDE DEF f, RT, RB
    <3> QED
      BY <2>4, <2>5, <2>6, <3>1, CountGrows
  <2> QED
    BY <2>1, <2>7 DEF both
<1>11. CASE c # "NEW"
  <2> DEFINE R(X) == {i \in DOMAIN O : /\ O[i].key \in Keys(X)
                                       /\ Classify(O[i], Entry(X, O[i].key)) = c}
             f == [k \in K |-> CHOOSE i \in DOMAIN O : O[i].key = N[k].key]
  <2>1. Compared(O, T)[c] = Cardinality(R(T)) /\ Compared(O, both)[c] = Cardinality(R(both))
    BY <1>9, <1>11 DEF Compared
  <2>2. \A k \in 1..Len(N) : k \in K <=>
           N[k].key \in Keys(O) /\ Classify(Entry(O, N[k].key), N[k]) = c
    BY <1>8, <1>11 DEF ClassIn
  <2>3. \A k \in K : f[k] \in DOMAIN O /\ O[f[k]].key = N[k].key
    <3> TAKE k \in K
    <3>1. \E i \in DOMAIN O : O[i].key = N[k].key
      BY <1>8, <2>2 DEF Keys
    <3> QED
      BY <3>1
  <2>4. \A i, j \in DOMAIN O : O[i].key = O[j].key => i = j
    BY <1>0 DEF WellMade
  <2>5. f = [k \in K |-> f[k]]
    OBVIOUS
  <2> HIDE DEF f
  <2>6. \A i \in DOMAIN O : i \in R(both) <=> i \in R(T) \/ \E x \in K : i = f[x]
    <3> TAKE i \in DOMAIN O
    <3>1. CASE O[i].key \in Keys(T)
      <4>1. PICK j \in 1..Len(T) : O[i].key = T[j].key
        BY <1>1, <3>1 DEF Keys
      <4>2. Entry(both, O[i].key) = Entry(T, O[i].key) /\ O[i].key \in Keys(both)
        BY <1>4, <4>1
      <4>3. \A x \in K : i # f[x]
        BY <1>0, <1>8, <2>3, <3>1
      <4> QED
        BY <3>1, <4>2, <4>3
    <3>2. CASE O[i].key \notin Keys(T) /\ O[i].key \in Keys(both)
      <4>1. PICK k \in 1..Len(N) : O[i].key = N[k].key
        BY <1>7, <3>2
      <4>2. Entry(both, O[i].key) = N[k] /\ Entry(O, N[k].key) = O[i] /\ N[k].key \in Keys(O)
        BY <1>5, <1>6, <4>1
      <4>3. k \in K <=> Classify(O[i], Entry(both, O[i].key)) = c
        BY <2>2, <4>2
      <4>4. i \in R(both) <=> k \in K
        BY <3>2, <4>3
      <4>5. k \in K => f[k] = i
        BY <2>3, <2>4, <4>1
      <4>6. \A x \in K : i = f[x] => x = k
        <5> TAKE x \in K
        <5> HAVE i = f[x]
        <5>1. N[x].key = N[k].key /\ x \in 1..Len(N)
          BY <1>8, <2>3, <4>1
        <5>2. Len(T) + x \in DOMAIN both /\ Len(T) + k \in DOMAIN both
              /\ both[Len(T) + x] = N[x] /\ both[Len(T) + k] = N[k]
          BY <1>1, <1>2, <5>1
        <5>3. Len(T) + x = Len(T) + k
          BY <1>3, <5>1, <5>2 DEF WellMade
        <5> QED
          BY <1>1, <1>2, <5>1, <5>3
      <4>7. i \notin R(T)
        BY <3>2
      <4> QED
        BY <4>4, <4>5, <4>6, <4>7
    <3>3. CASE O[i].key \notin Keys(T) /\ O[i].key \notin Keys(both)
      <4>1. i \notin R(both) /\ i \notin R(T)
        BY <3>3
      <4>2. \A x \in K : i # f[x]
        BY <1>5, <1>8, <2>3, <3>3
      <4> QED
        BY <4>1, <4>2
    <3> QED
      BY <3>1, <3>2, <3>3
  <2>8. /\ \A x, y \in K : f[x] = f[y] => x = y
        /\ \A x \in K : f[x] \notin R(T)
    <3>1. ASSUME NEW x \in K, NEW y \in K, f[x] = f[y] PROVE x = y
      <4>1. N[x].key = N[y].key /\ x \in 1..Len(N) /\ y \in 1..Len(N)
        BY <1>8, <2>3, <3>1
      <4>2. Len(T) + x \in DOMAIN both /\ Len(T) + y \in DOMAIN both
            /\ both[Len(T) + x] = N[x] /\ both[Len(T) + y] = N[y]
        BY <1>1, <1>2, <4>1
      <4>3. Len(T) + x = Len(T) + y
        BY <1>3, <4>1, <4>2 DEF WellMade
      <4> QED
        BY <1>1, <1>2, <4>1, <4>3
    <3>2. ASSUME NEW x \in K PROVE f[x] \notin R(T)
      BY <1>0, <1>8, <2>3
    <3> QED
      BY <3>1, <3>2
  <2>9. IsFiniteSet(R(T)) /\ IsFiniteSet(K)
    <3>1. R(T) \subseteq 1..Len(O)
      BY <1>1
    <3> HIDE DEF R
    <3> QED
      BY <1>1, <1>2, <1>8, <3>1, CountOf
  <2> DEFINE RT == R(T)
             RB == R(both)
  <2>10. \A z : z \in RB <=> z \in RT \/ \E x \in K : z = f[x]
    <3>1. \A x \in K : f[x] \in DOMAIN O
      BY <2>3
    <3>2. RB \subseteq DOMAIN O /\ RT \subseteq DOMAIN O
      OBVIOUS
    <3>3. \A i \in DOMAIN O : i \in RB <=> i \in RT \/ \E x \in K : i = f[x]
      BY <2>6
    <3> HIDE DEF RB, RT
    <3> QED
      BY <3>1, <3>2, <3>3
  <2>11. Cardinality(RB) = Cardinality(RT) + Cardinality(K)
    <3>1. IsFiniteSet(RT) /\ \A x \in K : f[x] \notin RT
      BY <2>8, <2>9
    <3>2. f = [x \in K |-> f[x]]
      BY <2>5
    <3> HIDE DEF RT, RB
    <3> QED
      BY <2>8, <2>9, <2>10, <3>1, <3>2, CountGrows
  <2> QED
    BY <2>1, <2>11 DEF both
<1> QED
  BY <1>10, <1>11

\* A report without cases has no rows but missing ones.
LEMMA ComparedNothing == ASSUME NEW O, NEW c \in Classes PROVE Compared(O, <<>>)[c] = 0
<1>1. Keys(<<>>) = {} /\ DOMAIN <<>> = {}
  BY DEF Keys
<1>2. c \in Classes \cup {"MISSING"} /\ c # "MISSING"
  BY DEF Classes
<1>3. CASE c = "NEW"
  <2> DEFINE R == {j \in DOMAIN <<>> : <<>>[j].key \notin Keys(O)}
  <2>1. Compared(O, <<>>)[c] = Cardinality(R)
    BY <1>2, <1>3 DEF Compared
  <2>2. R = {}
    BY <1>1
  <2> HIDE DEF R
  <2> QED
    BY <2>1, <2>2, FS_EmptySet
<1>4. CASE c # "NEW"
  <2> DEFINE R == {i \in DOMAIN O : /\ O[i].key \in Keys(<<>>)
                                    /\ Classify(O[i], Entry(<<>>, O[i].key)) = c}
  <2>1. Compared(O, <<>>)[c] = Cardinality(R)
    BY <1>2, <1>4 DEF Compared
  <2>2. R = {}
    BY <1>1
  <2> HIDE DEF R
  <2> QED
    BY <2>1, <2>2, FS_EmptySet
<1> QED
  BY <1>3, <1>4

\* A recorded request is counted inline as compare counts it.
LEMMA InlineEmit ==
    ASSUME CoreInv, InlineAgrees, NEW recs, Recorded(Step, recs), Emit(recs), pc = "run"
    PROVE  InlineAgrees'
<1> DEFINE new == Renamed(recs)
<1>1. WellMade(cases) /\ (expect = NoReport \/ WellMade(expect))
  BY DEF CoreInv, Reports
<1>2. cases' = cases \o new /\ WellMade(cases \o new)
  <2>1. cases' = cases \o Renamed(recs) /\ WellMade(cases')
    BY <1>1, EmitWellMade
  <2> DEFINE old == cases'
  <2>2. old = cases \o new /\ WellMade(old)
    BY <2>1
  <2> HIDE DEF old, new
  <2>3. WellMade(cases \o new)
    BY <2>2
  <2> QED
    BY <2>1, <2>3 DEF new
<1>3. /\ new \in Seq(ToSet(new)) /\ DOMAIN new = 1..Len(new) /\ Len(new) \in Nat
      /\ \A k \in 1..Len(new) : new[k].key \notin Keys(cases)
  BY <1>1, RenamedFacts
<1>4. /\ expect' = expect
      /\ expect # NoReport =>
            tally' = [c \in Classes |->
                        tally[c] + Cardinality({k \in DOMAIN new : InlineClass(new[k]) = c})]
  BY DEF Emit, Renamed
<1> HIDE DEF new
<1>5. SUFFICES ASSUME expect # NoReport, NEW c \in Classes
               PROVE  tally'[c] = Compared(expect, cases')[c]
  BY <1>4 DEF InlineAgrees
<1>6. WellMade(expect)
  BY <1>1, <1>5
<1> DEFINE K == {k \in DOMAIN new : InlineClass(new[k]) = c}
<1>7. K \subseteq 1..Len(new) /\ \A k \in 1..Len(new) : k \in K <=> InlineClass(new[k]) = c
  BY <1>3
<1>8. expect # NoReport => tally'[c] = tally[c] + Cardinality(K)
  BY <1>4, <1>5
<1> HIDE DEF K
<1>9. \A k \in 1..Len(new) : k \in K <=> ClassIn(expect, new[k]) = c
  BY <1>7 DEF InlineClass, ClassIn
<1>10. WellMade(cases)
  BY <1>1
<1>11. Compared(expect, cases \o new)[c] = Compared(expect, cases)[c] + Cardinality(K)
  <2>1. /\ K \subseteq 1..Len(new) /\ new \in Seq(ToSet(new)) /\ c \in Classes
        /\ \A k \in 1..Len(new) : new[k].key \notin Keys(cases)
    BY <1>3, <1>5, <1>7
  <2>2. Grows(expect, cases, new, c, K)
    BY <1>2, <1>6, <1>9, <1>10, <2>1 DEF Grows
  <2> QED
    BY <2>2, ComparedGrows
<1>12. tally[c] = Compared(expect, cases)[c]
  BY <1>5 DEF InlineAgrees
<1> QED
  BY <1>2, <1>5, <1>8, <1>11, <1>12

\* The inline counts are kept by every step.
LEMMA InlineNext == ASSUME CoreInv, InlineAgrees, [Next]_vars PROVE InlineAgrees'
<1>1. ASSUME NEW b \in Backends, NEW sel \in Selections, NEW oracle, StartRun(b, sel, oracle)
      PROVE  InlineAgrees'
  BY <1>1, ComparedNothing DEF StartRun, InlineAgrees
<1>2. CASE Emitting
  <2>1. PICK recs : Emit(recs) /\ Recorded(Step, recs)
    BY <1>2, EmittingRecords DEF CoreInv
  <2>2. pc = "run"
    BY <1>2, EmittingRecords DEF CoreInv
  <2> QED
    BY <2>1, <2>2, InlineEmit
<1>3. ASSUME UNCHANGED <<cases, expect, tally>>, pc # "idle" \/ pc' = "idle" PROVE InlineAgrees'
  BY <1>3 DEF InlineAgrees
<1>4. CASE Cleanup
  BY <1>3, <1>4 DEF Cleanup, Ask
<1>5. CASE Dump
  BY <1>3, <1>5 DEF Dump
<1>6. CASE Exit
  BY <1>3, <1>6 DEF Exit
<1>7. CASE Killed
  BY <1>3, <1>7 DEF Killed
<1>8. ASSUME NEW b \in Backends, LateCommit(b) PROVE InlineAgrees'
  BY <1>8 DEF LateCommit, run, InlineAgrees
<1>9. CASE UNCHANGED vars
  BY <1>9 DEF vars, run, InlineAgrees
<1> QED
  BY <1>1, <1>2, <1>4, <1>5, <1>6, <1>7, <1>8, <1>9 DEF Next, RunStep, Emitting

\* run --expect counts every class as compare does on the same two reports.
THEOREM InlineIsCompare == Spec => []InlineAgrees
<1>1. Init => InlineAgrees
  BY DEF Init, InlineAgrees
<1>2. CoreInv /\ InlineAgrees /\ [Next]_vars => InlineAgrees'
  BY InlineNext
<1> QED
  BY <1>1, <1>2, CoreAlways, PTL DEF Spec

----------------------------------------------------------------------------
(* The union of the tiles *)

\* The ids of the tiles, case by case.
LEMMA TileIdsStep ==
    ASSUME NEW report, Len(report) \in Nat
    PROVE  /\ TileIds(report)[0] = EmptyBag
           /\ \A i \in Nat : i + 1 <= Len(report) =>
                 TileIds(report)[i + 1] =
                    IF IsTile(report[i + 1]) THEN TileIds(report)[i] (+) report[i + 1].ids
                    ELSE TileIds(report)[i]
<1> DEFINE P == TileIds(report)
<1>1. P = [i \in 0..Len(report) |->
               IF i = 0 THEN EmptyBag
               ELSE IF IsTile(report[i]) THEN P[i - 1] (+) report[i].ids ELSE P[i - 1]]
  BY TileIdsUnfold
<1> HIDE DEF P
<1>2. P[0] = EmptyBag
  BY <1>1
<1>3. ASSUME NEW i \in Nat, i + 1 <= Len(report)
      PROVE  P[i + 1] = IF IsTile(report[i + 1]) THEN P[i] (+) report[i + 1].ids ELSE P[i]
  <2>1. i + 1 \in 0..Len(report) /\ i + 1 # 0 /\ (i + 1) - 1 = i
    BY <1>3
  <2> QED
    BY <1>1, <2>1
<1> QED
  BY <1>2, <1>3 DEF P

\* More cases change nothing for the first ones.
LEMMA TileIdsPrefix ==
    ASSUME NEW s, NEW t, s \in Seq(ToSet(s)), t \in Seq(ToSet(t))
    PROVE  \A i \in Nat : i <= Len(s) => TileIds(s \o t)[i] = TileIds(s)[i]
<1> DEFINE st == s \o t
           T == {i \in Nat : i <= Len(s) => TileIds(st)[i] = TileIds(s)[i]}
<1>1. /\ Len(s) \in Nat /\ Len(st) \in Nat /\ Len(s) <= Len(st)
      /\ \A i \in 1..Len(s) : st[i] = s[i]
  BY Appended
<1> HIDE DEF st
<1>2. 0 \in T
  BY <1>1, TileIdsStep
<1>3. ASSUME NEW n \in Nat, n \in T PROVE n + 1 \in T
  <2>1. SUFFICES ASSUME n + 1 <= Len(s) PROVE TileIds(st)[n + 1] = TileIds(s)[n + 1]
    OBVIOUS
  <2>2. n <= Len(s) /\ n + 1 <= Len(st) /\ st[n + 1] = s[n + 1]
    BY <1>1, <2>1
  <2>3. TileIds(st)[n] = TileIds(s)[n]
    BY <1>3, <2>2
  <2>4. TileIds(s)[n + 1] = IF IsTile(s[n + 1]) THEN TileIds(s)[n] (+) s[n + 1].ids
                           ELSE TileIds(s)[n]
    BY <1>1, <2>1, TileIdsStep
  <2>5. TileIds(st)[n + 1] = IF IsTile(st[n + 1]) THEN TileIds(st)[n] (+) st[n + 1].ids
                            ELSE TileIds(st)[n]
    BY <1>1, <2>2, TileIdsStep
  <2> QED
    BY <2>2, <2>3, <2>4, <2>5
<1>4. \A i \in Nat : i \in T
  <2> HIDE DEF T
  <2> QED
    BY <1>2, <1>3, SetInduction
<1> QED
  BY <1>4 DEF st

\* Cases that are no tiles change nothing.
LEMMA TileIdsSkip ==
    ASSUME NEW s, NEW t, s \in Seq(ToSet(s)), t \in Seq(ToSet(t)),
           \A k \in 1..Len(t) : ~IsTile(t[k])
    PROVE  TileIds(s \o t)[Len(s \o t)] = TileIds(s)[Len(s)]
<1> DEFINE st == s \o t
           T == {k \in Nat : k <= Len(t) => TileIds(st)[Len(s) + k] = TileIds(s)[Len(s)]}
<1>1. /\ Len(s) \in Nat /\ Len(t) \in Nat /\ Len(st) = Len(s) + Len(t)
      /\ \A k \in 1..Len(t) : st[Len(s) + k] = t[k]
  BY Appended
<1>2. TileIds(st)[Len(s)] = TileIds(s)[Len(s)]
  BY <1>1, TileIdsPrefix
<1> HIDE DEF st
<1>3. 0 \in T
  BY <1>1, <1>2
<1>4. ASSUME NEW n \in Nat, n \in T PROVE n + 1 \in T
  <2>1. SUFFICES ASSUME n + 1 <= Len(t)
                 PROVE  TileIds(st)[Len(s) + (n + 1)] = TileIds(s)[Len(s)]
    OBVIOUS
  <2>2. n <= Len(t) /\ n + 1 \in 1..Len(t)
    BY <1>1, <2>1
  <2>3. TileIds(st)[Len(s) + n] = TileIds(s)[Len(s)]
    BY <1>4, <2>2
  <2> DEFINE i == Len(s) + n
  <2>4. i \in Nat /\ i + 1 = Len(s) + (n + 1) /\ i + 1 <= Len(st)
    BY <1>1, <2>1
  <2>5. st[i + 1] = t[n + 1] /\ ~IsTile(t[n + 1])
    BY <1>1, <2>2, <2>4
  <2>6. TileIds(st)[i] = TileIds(s)[Len(s)]
    BY <2>3
  <2> HIDE DEF i
  <2>7. TileIds(st)[i + 1] = TileIds(st)[i]
    <3>1. i \in Nat /\ i + 1 <= Len(st) /\ Len(st) \in Nat
      BY <1>1, <2>4
    <3>2. TileIds(st)[i + 1] = IF IsTile(st[i + 1]) THEN TileIds(st)[i] (+) st[i + 1].ids
                              ELSE TileIds(st)[i]
      BY <3>1, TileIdsStep
    <3>3. ~IsTile(st[i + 1])
      BY <2>5
    <3> QED
      BY <3>2, <3>3
  <2> QED
    BY <2>4, <2>6, <2>7
<1>5. Len(t) \in T
  <2> HIDE DEF T
  <2> QED
    BY <1>1, <1>3, <1>4, SetInduction
<1> QED
  BY <1>1, <1>5 DEF st

\* The tiles of the run and their union.
TileInv == TilesSoFar /\ UnionIsComplete

\* A recording step asks what its name says.
LEMMA StepKinds ==
    ASSUME Emitting
    PROVE  /\ Step.ask = "tile" <=> Tile
           /\ Step.ask = "union" <=> Union
           /\ Step.ask = "baseline" <=> Baseline
           /\ Step.ask = "script" <=> ScriptAnswered \/ ScriptFailed
           /\ Step.ask # "cleanup"
  BY DEF Emitting, Query, Tile, Union, Disjoint, Repeat, Plan, PageAll, Baseline,
         ScriptAnswered, ScriptFailed, Again, Ask, Step

\* What is known of the cases after a recording step.
LEMMA EmitCases ==
    ASSUME WellMade(cases), NEW recs, Recorded(Step, recs), Emit(recs)
    PROVE  /\ Len(cases) \in Nat /\ Len(recs) \in Nat /\ Len(cases') = Len(cases) + Len(recs)
           /\ DOMAIN cases = 1..Len(cases) /\ DOMAIN cases' = 1..(Len(cases) + Len(recs))
           /\ \A i \in 1..Len(cases) : cases'[i] = cases[i]
           /\ \A i \in 1..(Len(cases) + Len(recs)) : i \notin 1..Len(cases) =>
                 LET k == i - Len(cases)
                 IN  /\ k \in 1..Len(recs) /\ cases'[i].asked = Step
                     /\ cases'[i].err = recs[k].err /\ cases'[i].ids = recs[k].ids
                     /\ cases'[i].n = recs[k].n /\ cases'[i].key[3] = recs[k].key[3]
<1> DEFINE new == Renamed(recs)
<1>1. /\ new \in Seq(ToSet(new)) /\ Len(new) = Len(recs) /\ Len(recs) \in Nat
      /\ \A k \in 1..Len(recs) :
            /\ new[k].asked = Step /\ new[k].err = recs[k].err /\ new[k].ids = recs[k].ids
            /\ new[k].n = recs[k].n /\ new[k].key[3] = recs[k].key[3]
  BY RenamedFacts
<1>2. cases' = cases \o new
  BY EmitWellMade
<1> HIDE DEF new
<1> DEFINE all == cases \o new
<1>3. /\ Len(cases) \in Nat /\ Len(new) \in Nat /\ Len(all) = Len(cases) + Len(new)
      /\ DOMAIN cases = 1..Len(cases) /\ DOMAIN all = 1..(Len(cases) + Len(new))
      /\ \A i \in 1..Len(cases) : all[i] = cases[i]
      /\ \A i \in 1..(Len(cases) + Len(new)) : i \notin 1..Len(cases) =>
            i - Len(cases) \in 1..Len(new) /\ all[i] = new[i - Len(cases)]
  <2>1. cases \in Seq(ToSet(cases)) /\ new \in Seq(ToSet(new))
    BY <1>1 DEF WellMade
  <2> QED
    BY <2>1, Appended
<1>4. cases' = all
  BY <1>2
<1> HIDE DEF all
<1> QED
  BY <1>1, <1>3, <1>4

\* A request that is recorded as one list.
LEMMA OneList ==
    ASSUME NEW step, step.ask \in {"tile", "union", "baseline"},
           NEW answer, answer.err \in BOOLEAN
    PROVE  Recorded(step, <<Case(step, "ids", answer)>>)
<1>1. PartsOf(step.ask) = {"ids"}
  BY DEF PartsOf
<1> QED
  BY <1>1, CaseFacts, OnePart

\* What it adds to the report.
LEMMA OneListEmit ==
    ASSUME WellMade(cases), Step.ask \in {"tile", "union", "baseline"},
           NEW answer, answer.err \in BOOLEAN, Emit(<<Case(Step, "ids", answer)>>)
    PROVE  /\ Len(cases) \in Nat /\ Len(cases') = Len(cases) + 1
           /\ DOMAIN cases = 1..Len(cases) /\ DOMAIN cases' = 1..(Len(cases) + 1)
           /\ \A i \in 1..Len(cases) : cases'[i] = cases[i]
           /\ cases'[Len(cases) + 1].asked = Step
           /\ cases'[Len(cases) + 1].err = answer.err
           /\ cases'[Len(cases) + 1].ids = answer.ids
<1> DEFINE rec == Case(Step, "ids", answer)
<1>1. rec.err = answer.err /\ rec.ids = answer.ids
  BY CaseFacts
<1>2. Recorded(Step, <<rec>>)
  BY OneList
<1> HIDE DEF rec
<1> DEFINE recs == <<rec>>
<1>3. Len(recs) = 1 /\ recs[1] = rec
  OBVIOUS
<1>4. Recorded(Step, recs) /\ Emit(recs)
  BY <1>2 DEF rec
<1> HIDE DEF recs
<1>5. /\ Len(cases) \in Nat /\ Len(recs) \in Nat /\ Len(cases') = Len(cases) + Len(recs)
      /\ DOMAIN cases = 1..Len(cases) /\ DOMAIN cases' = 1..(Len(cases) + Len(recs))
      /\ \A i \in 1..Len(cases) : cases'[i] = cases[i]
      /\ \A i \in 1..(Len(cases) + Len(recs)) : i \notin 1..Len(cases) =>
            LET k == i - Len(cases)
            IN  /\ k \in 1..Len(recs) /\ cases'[i].asked = Step
                /\ cases'[i].err = recs[k].err /\ cases'[i].ids = recs[k].ids
  BY <1>4, EmitCases
<1> DEFINE i == Len(cases) + 1
<1>6. /\ i \in 1..(Len(cases) + Len(recs)) /\ i \notin 1..Len(cases) /\ i - Len(cases) = 1
  BY <1>3, <1>5
<1> HIDE DEF i
<1>7. cases'[i].asked = Step /\ cases'[i].err = recs[1].err /\ cases'[i].ids = recs[1].ids
  BY <1>5, <1>6
<1> QED
  BY <1>1, <1>3, <1>5, <1>7 DEF i

\* A recorded request keeps the tiles and their union.
LEMMA TileEmit == ASSUME CoreInv, TileInv, Emitting PROVE TileInv'
<1>1. WellMade(cases) /\ TypeOK /\ tiles.err \in BOOLEAN
  BY DEF CoreInv, Reports, TypeOK
<1>2. PICK recs : Emit(recs) /\ Recorded(Step, recs)
  BY <1>1, EmittingRecords
<1> DEFINE n == Len(cases)
<1>3. /\ n \in Nat /\ Len(recs) \in Nat /\ Len(cases') = n + Len(recs)
      /\ DOMAIN cases = 1..n /\ DOMAIN cases' = 1..(n + Len(recs))
      /\ \A i \in 1..n : cases'[i] = cases[i]
      /\ \A i \in 1..(n + Len(recs)) : i \notin 1..n => cases'[i].asked = Step
  BY <1>1, <1>2, EmitCases
<1>4. /\ \A i \in Nat : i <= n => TileIds(cases')[i] = TileIds(cases)[i]
      /\ ~Tile => TileIds(cases')[Len(cases')] = TileIds(cases)[n]
  <2> DEFINE new == Renamed(recs)
  <2>1. /\ cases' = cases \o new /\ cases \in Seq(ToSet(cases)) /\ new \in Seq(ToSet(new))
        /\ Len(new) = Len(recs)
        /\ \A k \in 1..Len(recs) : new[k].asked = Step
    BY <1>1, <1>2, EmitWellMade, RenamedFacts DEF WellMade
  <2> HIDE DEF new
  <2>2. \A i \in Nat : i <= n => TileIds(cases \o new)[i] = TileIds(cases)[i]
    BY <2>1, TileIdsPrefix
  <2>3. ASSUME ~Tile PROVE TileIds(cases \o new)[Len(cases \o new)] = TileIds(cases)[n]
    <3>1. \A k \in 1..Len(new) : ~IsTile(new[k])
      BY <2>1, <2>3, StepKinds DEF IsTile
    <3> QED
      BY <2>1, <3>1, TileIdsSkip
  <2> DEFINE both == cases \o new
  <2>4. both = cases'
    BY <2>1
  <2>5. /\ \A i \in Nat : i <= n => TileIds(both)[i] = TileIds(cases)[i]
        /\ ~Tile => TileIds(both)[Len(both)] = TileIds(cases)[n]
    BY <2>2, <2>3
  <2> HIDE DEF both, n
  <2> QED
    BY <2>4, <2>5
<1>5. \A i \in 1..(n + Len(recs)) : i \notin 1..n =>
         (IsTile(cases'[i]) <=> Tile) /\ (cases'[i].asked.ask = "union" <=> Union)
  BY <1>3, StepKinds DEF IsTile
<1>6. ~(Tile /\ Union)
  BY StepKinds
<1>7. TilesSoFar'
  <2>1. CASE Tile
    <3>1. PICK answer \in Outcomes : /\ Emit(<<Case(Step, "ids", answer)>>)
                                     /\ tiles' = AddTile(tiles, answer)
      BY <2>1 DEF Tile
    <3>2. answer.err \in BOOLEAN /\ Step.ask = "tile"
      BY <2>1, <3>1, OutcomeErr, StepKinds
    <3>3. /\ Len(cases') = n + 1 /\ DOMAIN cases' = 1..(n + 1)
          /\ cases'[n + 1].asked = Step
          /\ cases'[n + 1].err = answer.err /\ cases'[n + 1].ids = answer.ids
      BY <1>1, <3>1, <3>2, OneListEmit
    <3>4. IsTile(cases'[n + 1])
      BY <3>2, <3>3 DEF IsTile
    <3>5. TileIds(cases')[n + 1] = TileIds(cases)[n] (+) answer.ids
      <4> DEFINE all == cases'
      <4>1. Len(all) = n + 1 /\ IsTile(all[n + 1]) /\ all[n + 1].ids = answer.ids
            /\ TileIds(all)[n] = TileIds(cases)[n]
        BY <1>3, <1>4, <3>3, <3>4
      <4> HIDE DEF all
      <4>2. n \in Nat /\ Len(all) \in Nat /\ n + 1 <= Len(all)
        BY <1>3, <4>1
      <4> HIDE DEF n
      <4>3. TileIds(all)[n + 1] = IF IsTile(all[n + 1]) THEN TileIds(all)[n] (+) all[n + 1].ids
                                 ELSE TileIds(all)[n]
        BY <4>2, TileIdsStep
      <4>4. TileIds(all)[n + 1] = TileIds(cases)[n] (+) answer.ids
        BY <4>1, <4>3
      <4> QED
        BY <4>4 DEF all, n
    <3>6. CASE answer.err
      <4>1. tiles'.err
        BY <3>1, <3>6 DEF AddTile, Failed
      <4>2. n + 1 \in DOMAIN cases' /\ IsTile(cases'[n + 1]) /\ cases'[n + 1].err
        BY <1>3, <3>3, <3>4, <3>6
      <4> QED
        BY <4>1, <4>2 DEF TilesSoFar
    <3>7. CASE ~answer.err /\ tiles.err
      <4>1. tiles'.err
        BY <3>1, <3>7 DEF AddTile, Failed
      <4>2. PICK i \in 1..n : IsTile(cases[i]) /\ cases[i].err
        BY <1>3, <3>7 DEF TileInv, TilesSoFar
      <4>3. i \in DOMAIN cases' /\ IsTile(cases'[i]) /\ cases'[i].err
        BY <1>3, <4>2
      <4> QED
        BY <4>1, <4>3 DEF TilesSoFar
    <3>8. CASE ~answer.err /\ ~tiles.err
      <4>1. tiles' = Got(tiles.ids (+) answer.ids)
        BY <3>1, <3>8 DEF AddTile
      <4>2. ~tiles'.err /\ tiles'.ids = tiles.ids (+) answer.ids
        BY <4>1 DEF Got
      <4>3. \A i \in 1..n : ~(IsTile(cases[i]) /\ cases[i].err)
        BY <1>3, <3>8 DEF TileInv, TilesSoFar
      <4>4. \A i \in 1..(n + 1) : i \in 1..n \/ i = n + 1
        BY <1>3
      <4>5. ~cases'[n + 1].err
        BY <3>3, <3>8
      <4>6. \A i \in DOMAIN cases' : ~(IsTile(cases'[i]) /\ cases'[i].err)
        BY <1>3, <3>3, <4>3, <4>4, <4>5
      <4>7. tiles'.ids = TileIds(cases')[Len(cases')]
        BY <1>3, <3>3, <3>5, <3>8, <4>2 DEF TileInv, TilesSoFar
      <4> QED
        BY <4>2, <4>6, <4>7 DEF TilesSoFar
    <3> QED
      BY <3>6, <3>7, <3>8
  <2>2. CASE ~Tile
    <3>1. tiles' = tiles
      BY <2>2 DEF Emitting, Query, Union, Disjoint, Repeat, Plan, PageAll, Baseline,
                  ScriptAnswered, ScriptFailed, Again
    <3>2. (\E i \in DOMAIN cases' : IsTile(cases'[i]) /\ cases'[i].err)
          <=> \E i \in DOMAIN cases : IsTile(cases[i]) /\ cases[i].err
      <4>1. \A i \in DOMAIN cases' : IsTile(cases'[i]) => i \in DOMAIN cases
        BY <1>3, <1>5, <2>2
      <4>2. \A i \in DOMAIN cases : i \in DOMAIN cases' /\ cases'[i] = cases[i]
        BY <1>3
      <4> QED
        BY <4>1, <4>2
    <3>3. TileIds(cases')[Len(cases')] = TileIds(cases)[Len(cases)]
      BY <1>4, <2>2
    <3> QED
      BY <3>1, <3>2, <3>3 DEF TileInv, TilesSoFar
  <2> QED
    BY <2>1, <2>2
<1>8. UnionIsComplete'
  <2> SUFFICES ASSUME NEW u \in DOMAIN cases', cases'[u].asked.ask = "union"
               PROVE  /\ cases'[u].err <=>
                            \E i \in 1..u - 1 : IsTile(cases'[i]) /\ cases'[i].err
                      /\ ~cases'[u].err => cases'[u].ids = TileIds(cases')[u - 1]
    BY DEF UnionIsComplete
  <2>1. CASE u \in 1..n
    <3>1. cases[u].asked.ask = "union" /\ u \in DOMAIN cases /\ cases'[u] = cases[u]
      BY <1>3, <2>1
    <3>2. /\ cases[u].err <=> \E i \in 1..u - 1 : IsTile(cases[i]) /\ cases[i].err
          /\ ~cases[u].err => cases[u].ids = TileIds(cases)[u - 1]
      BY <3>1 DEF TileInv, UnionIsComplete
    <3>3. \A i \in 1..u - 1 : cases'[i] = cases[i]
      BY <1>3, <2>1
    <3>4. TileIds(cases')[u - 1] = TileIds(cases)[u - 1]
      BY <1>3, <1>4, <2>1
    <3> QED
      BY <3>1, <3>2, <3>3, <3>4
  <2>2. CASE u \notin 1..n
    <3>1. Union /\ ~Tile
      BY <1>3, <1>5, <1>6, <2>2
    <3>2. Emit(<<Case(Step, "ids", tiles)>>) /\ Step.ask = "union"
      BY <3>1, StepKinds DEF Union
    <3>3. /\ Len(cases') = n + 1 /\ DOMAIN cases' = 1..(n + 1)
          /\ cases'[n + 1].err = tiles.err /\ cases'[n + 1].ids = tiles.ids
      BY <1>1, <3>2, OneListEmit
    <3>4. u = n + 1 /\ u - 1 = n
      BY <1>3, <2>2, <3>3
    <3>5. \A i \in 1..n : cases'[i] = cases[i]
      BY <1>3
    <3>6. TileIds(cases')[n] = TileIds(cases)[n]
      BY <1>3, <1>4
    <3>7. /\ tiles.err <=> \E i \in 1..n : IsTile(cases[i]) /\ cases[i].err
          /\ ~tiles.err => tiles.ids = TileIds(cases)[n]
      BY <1>3 DEF TileInv, TilesSoFar
    <3> QED
      BY <3>3, <3>4, <3>5, <3>6, <3>7
  <2> QED
    BY <2>1, <2>2
<1> QED
  BY <1>7, <1>8 DEF TileInv

\* The tiles and their union are kept by every step.
LEMMA TileNext == ASSUME CoreInv, TileInv, [Next]_vars PROVE TileInv'
<1>1. ASSUME NEW b \in Backends, NEW sel \in Selections, NEW oracle, StartRun(b, sel, oracle)
      PROVE  TileInv'
  <2>1. cases' = <<>> /\ tiles' = Got(EmptyBag)
    BY <1>1 DEF StartRun
  <2>2. ~tiles'.err /\ tiles'.ids = EmptyBag
    BY <2>1 DEF Got
  <2>3. DOMAIN cases' = {} /\ Len(cases') = 0
    BY <2>1
  <2>4. TileIds(cases')[0] = EmptyBag
    BY <2>3, TileIdsStep
  <2> QED
    BY <2>2, <2>3, <2>4 DEF TileInv, TilesSoFar, UnionIsComplete
<1>2. CASE Emitting
  BY <1>2, TileEmit
<1>3. ASSUME UNCHANGED <<cases, tiles>> PROVE TileInv'
  BY <1>3 DEF TileInv, TilesSoFar, UnionIsComplete
<1>4. CASE Cleanup \/ Dump \/ Exit \/ Killed
  BY <1>3, <1>4 DEF Cleanup, Dump, Exit, Killed
<1>5. ASSUME NEW b \in Backends, LateCommit(b) PROVE TileInv'
  BY <1>3, <1>5 DEF LateCommit, run
<1>6. CASE UNCHANGED vars
  BY <1>3, <1>6 DEF vars, run
<1> QED
  BY <1>1, <1>2, <1>4, <1>5, <1>6 DEF Next, RunStep, Emitting

\* The union of the range tiles is an error if one of them is, and otherwise all of
\* their ids.
THEOREM UnionOfTiles == Spec => []UnionIsComplete
<1>1. Init => TileInv
  <2> SUFFICES ASSUME Init PROVE TileInv
    OBVIOUS
  <2>1. cases = <<>> /\ tiles = Got(EmptyBag)
    BY DEF Init
  <2>2. ~tiles.err /\ tiles.ids = EmptyBag
    BY <2>1 DEF Got
  <2>3. DOMAIN cases = {} /\ Len(cases) = 0
    BY <2>1
  <2>4. TileIds(cases)[0] = EmptyBag
    BY <2>3, TileIdsStep
  <2> QED
    BY <2>2, <2>3, <2>4 DEF TileInv, TilesSoFar, UnionIsComplete
<1>2. CoreInv /\ TileInv /\ [Next]_vars => TileInv'
  BY TileNext
<1>3. TileInv => UnionIsComplete
  BY DEF TileInv
<1> QED
  BY <1>1, <1>2, <1>3, CoreAlways, PTL DEF Spec

----------------------------------------------------------------------------
(* K5 *)

\* Every script comes after its baseline, and its cleanup before another.
ScriptsIn(list) ==
    \A k \in DOMAIN list : list[k].ask = "script" =>
        /\ k > 1 /\ list[k - 1].ask = "baseline"
        /\ \E j \in DOMAIN list : /\ j > k /\ list[j].ask = "cleanup"
                                  /\ \A m \in k..j : list[m].ask # "baseline"

\* So it is in every section,
LEMMA SectionScripts == ASSUME NEW s \in DOMAIN Steps PROVE ScriptsIn(Section(s))
<1> DEFINE n == Len(Steps[s])
           list == Section(s)
<1>1. n \in Nat /\ DOMAIN Steps[s] = 1..n /\ list \in Seq(Requests) /\ Len(list) = n
      /\ \A k \in 1..n : list[k] = Request(s, k)
  BY SectionFacts
<1>2. \A k \in 1..n : list[k].ask = Steps[s][k].ask
  <2> TAKE k \in 1..n
  <2>1. Request(s, k).ask = Steps[s][k].ask
    BY DEF Request
  <2>2. list[k] = Request(s, k)
    BY <1>1
  <2> HIDE DEF list
  <2> QED
    BY <2>1, <2>2
<1> HIDE DEF n, list
<1>3. DOMAIN list = 1..n
  BY <1>1
<1>4. ASSUME NEW k \in 1..n, list[k].ask = "script"
      PROVE  /\ k > 1 /\ list[k - 1].ask = "baseline"
             /\ \E j \in 1..n : /\ j > k /\ list[j].ask = "cleanup"
                                /\ \A m \in k..j : list[m].ask # "baseline"
  <2>1. Steps[s][k].ask = "script" /\ k \in DOMAIN Steps[s]
    BY <1>1, <1>2, <1>4
  <2>2. k > 1 /\ Steps[s][k - 1].ask = "baseline"
    BY <2>1, ScriptAssumption
  <2>3. PICK j \in 1..n : /\ j > k /\ Steps[s][j].ask = "cleanup"
                          /\ \A m \in k..j : Steps[s][m].ask # "baseline"
    BY <1>1, <2>1, ScriptAssumption
  <2>4. k - 1 \in 1..n
    BY <1>1, <2>2
  <2>5. \A m \in k..j : m \in 1..n
    BY <1>1
  <2> QED
    BY <1>2, <2>2, <2>3, <2>4, <2>5
<1>5. ScriptsIn(list)
  BY <1>3, <1>4 DEF ScriptsIn
<1> QED
  BY <1>5 DEF list

\* in sections after one another,
LEMMA ScriptsJoin ==
    ASSUME NEW s \in Seq(Requests), NEW t \in Seq(Requests), ScriptsIn(s), ScriptsIn(t)
    PROVE  ScriptsIn(s \o t)
<1> DEFINE st == s \o t
<1> HIDE DEF Requests
<1>1. /\ Len(s) \in Nat /\ Len(t) \in Nat /\ DOMAIN s = 1..Len(s) /\ DOMAIN t = 1..Len(t)
      /\ DOMAIN st = 1..(Len(s) + Len(t))
      /\ \A i \in 1..Len(s) : st[i] = s[i]
      /\ \A k \in 1..Len(t) : st[Len(s) + k] = t[k]
  OBVIOUS
<1> HIDE DEF st
<1> SUFFICES ASSUME NEW k \in DOMAIN st, st[k].ask = "script"
             PROVE  /\ k > 1 /\ st[k - 1].ask = "baseline"
                    /\ \E j \in DOMAIN st : /\ j > k /\ st[j].ask = "cleanup"
                                            /\ \A m \in k..j : st[m].ask # "baseline"
  BY DEF ScriptsIn, st
<1>2. CASE k \in 1..Len(s)
  <2>1. s[k].ask = "script"
    BY <1>1, <1>2
  <2>2. k \in DOMAIN s
    BY <1>1, <1>2
  <2>3. k > 1 /\ s[k - 1].ask = "baseline"
    BY <2>1, <2>2 DEF ScriptsIn
  <2>4. PICK j \in DOMAIN s : /\ j > k /\ s[j].ask = "cleanup"
                              /\ \A m \in k..j : s[m].ask # "baseline"
    BY <2>1, <2>2, Zenon DEF ScriptsIn
  <2>5. j \in DOMAIN st /\ st[j].ask = "cleanup" /\ j > k
    BY <1>1, <2>4
  <2>6. st[k - 1].ask = "baseline" /\ k > 1
    BY <1>1, <1>2, <2>3
  <2>7. ASSUME NEW m \in k..j PROVE st[m].ask # "baseline"
    <3>1. m \in 1..Len(s)
      BY <1>1, <1>2, <2>4
    <3> QED
      BY <1>1, <2>4, <3>1
  <2> QED
    BY <2>5, <2>6, <2>7
<1>3. CASE k \notin 1..Len(s)
  <2> DEFINE l == k - Len(s)
  <2>1. l \in 1..Len(t) /\ k = Len(s) + l
    BY <1>1, <1>3
  <2>2. t[l].ask = "script"
    BY <1>1, <2>1
  <2> HIDE DEF l
  <2>8. l \in DOMAIN t
    BY <1>1, <2>1
  <2>9. l > 1 /\ t[l - 1].ask = "baseline"
    BY <2>2, <2>8 DEF ScriptsIn
  <2>3. l - 1 \in 1..Len(t)
    BY <1>1, <2>1, <2>9
  <2>10. PICK j \in DOMAIN t : /\ j > l /\ t[j].ask = "cleanup"
                               /\ \A m \in l..j : t[m].ask # "baseline"
    BY <2>2, <2>8, Zenon DEF ScriptsIn
  <2>4. /\ j \in 1..Len(t) /\ j > l /\ t[j].ask = "cleanup"
        /\ \A m \in l..j : t[m].ask # "baseline"
    BY <1>1, <2>10
  <2>5. st[k - 1].ask = "baseline" /\ k > 1
    <3>1. st[Len(s) + (l - 1)] = t[l - 1]
      BY <1>1, <2>3
    <3>2. Len(s) + (l - 1) = k - 1 /\ k > 1
      BY <1>1, <2>1, <2>9
    <3> QED
      BY <2>9, <3>1, <3>2
  <2>6. Len(s) + j \in DOMAIN st /\ Len(s) + j > k /\ st[Len(s) + j].ask = "cleanup"
    BY <1>1, <2>1, <2>4
  <2>7. ASSUME NEW m \in k..(Len(s) + j) PROVE st[m].ask # "baseline"
    <3>1. m - Len(s) \in l..j /\ m - Len(s) \in 1..Len(t) /\ Len(s) + (m - Len(s)) = m
      BY <1>1, <2>1, <2>4
    <3>2. t[m - Len(s)].ask # "baseline" /\ st[Len(s) + (m - Len(s))] = t[m - Len(s)]
      BY <1>1, <2>4, <3>1
    <3> QED
      BY <3>1, <3>2
  <2> QED
    BY <2>5, <2>6, <2>7
<1> QED
  BY <1>2, <1>3

\* and in every program.
LEMMA ProgramScripts == \A sel : ScriptsIn(Program(sel))
<1> SUFFICES ASSUME NEW sel PROVE ScriptsIn(Program(sel))
  OBVIOUS
<1> DEFINE P == Programs(sel)
           T == {n \in Nat : n <= Len(Order) => P[n] \in Seq(Requests) /\ ScriptsIn(P[n])}
<1>1. 0 \in T
  <2>1. P[0] = <<>>
    BY ProgramsStep
  <2>2. <<>> \in Seq(Requests) /\ ScriptsIn(<<>>)
    BY DEF ScriptsIn
  <2> HIDE DEF P
  <2> QED
    BY <2>1, <2>2
<1>2. ASSUME NEW n \in Nat, n \in T PROVE n + 1 \in T
  <2>1. SUFFICES ASSUME n + 1 <= Len(Order)
                 PROVE  P[n + 1] \in Seq(Requests) /\ ScriptsIn(P[n + 1])
    OBVIOUS
  <2>2. n <= Len(Order) /\ n + 1 \in 1..Len(Order)
    BY <2>1, OrderFacts
  <2>3. P[n + 1] = IF Order[n + 1] \in sel THEN P[n] \o Section(Order[n + 1]) ELSE P[n]
    BY <2>1, ProgramsStep
  <2> HIDE DEF P
  <2> DEFINE t == Section(Order[n + 1])
  <2>4. t \in Seq(Requests) /\ ScriptsIn(t)
    BY <2>2, OrderFacts, SectionFacts, SectionScripts
  <2>5. P[n] \in Seq(Requests) /\ ScriptsIn(P[n])
    BY <1>2, <2>2
  <2> HIDE DEF t, Requests
  <2>6. P[n] \o t \in Seq(Requests) /\ ScriptsIn(P[n] \o t)
    BY <2>4, <2>5, ScriptsJoin
  <2> QED
    BY <2>3, <2>5, <2>6 DEF t
<1>3. Len(Order) \in T
  <2> HIDE DEF T
  <2> QED
    BY <1>1, <1>2, OrderFacts, SetInduction
<1> QED
  BY <1>3, OrderFacts DEF Program

\* What is left of a program after one request.
LEMMA TailScripts ==
    ASSUME NEW list \in Seq(Requests), list # <<>>, ScriptsAhead(list)
    PROVE  /\ ScriptsAhead(Tail(list))
           /\ CleanupAhead(list) /\ list[1].ask # "cleanup" => CleanupAhead(Tail(list))
           /\ list[1].ask = "script" => CleanupAhead(Tail(list))
           /\ Tail(list) # <<>> /\ Tail(list)[1].ask = "script" => list[1].ask = "baseline"
<1> DEFINE rest == Tail(list)
           n == Len(list)
<1> HIDE DEF Requests
<1>1. /\ n \in Nat /\ n >= 1 /\ DOMAIN list = 1..n /\ DOMAIN rest = 1..(n - 1)
      /\ \A k \in 1..(n - 1) : rest[k] = list[k + 1]
      /\ rest # <<>> => 1 \in 1..(n - 1)
  OBVIOUS
<1> HIDE DEF rest, n
<1>2. ASSUME NEW k \in DOMAIN rest, rest[k].ask = "script"
      PROVE  /\ k > 1 => rest[k - 1].ask = "baseline"
             /\ \E j \in DOMAIN rest : /\ j > k /\ rest[j].ask = "cleanup"
                                       /\ \A m \in k..j : rest[m].ask # "baseline"
  <2>1. k + 1 \in 1..n /\ list[k + 1].ask = "script" /\ k + 1 > 1
    BY <1>1, <1>2
  <2>2. list[k].ask = "baseline"
    BY <1>1, <2>1 DEF ScriptsAhead
  <2>3. PICK j \in 1..n : /\ j > k + 1 /\ list[j].ask = "cleanup"
                          /\ \A m \in (k + 1)..j : list[m].ask # "baseline"
    BY <1>1, <2>1 DEF ScriptsAhead
  <2>4. j - 1 \in DOMAIN rest /\ j - 1 > k /\ rest[j - 1].ask = "cleanup"
    BY <1>1, <2>3
  <2>5. \A m \in k..(j - 1) : m + 1 \in (k + 1)..j /\ rest[m] = list[m + 1]
    BY <1>1, <2>3
  <2>6. k > 1 => rest[k - 1].ask = "baseline"
    BY <1>1, <2>2
  <2> QED
    BY <2>3, <2>4, <2>5, <2>6
<1>3. ASSUME NEW j \in 1..n, j > 1, list[j].ask = "cleanup",
             \A m \in 2..j : list[m].ask # "baseline"
      PROVE  CleanupAhead(rest)
  <2>1. j - 1 \in DOMAIN rest /\ rest[j - 1].ask = "cleanup"
    BY <1>1, <1>3
  <2>2. \A m \in 1..(j - 1) : m + 1 \in 2..j /\ rest[m] = list[m + 1]
    BY <1>1, <1>3
  <2> QED
    BY <1>3, <2>1, <2>2 DEF CleanupAhead
<1>4. ASSUME CleanupAhead(list), list[1].ask # "cleanup" PROVE CleanupAhead(rest)
  <2>1. PICK j \in 1..n : list[j].ask = "cleanup" /\ \A m \in 1..j : list[m].ask # "baseline"
    BY <1>1, <1>4 DEF CleanupAhead
  <2>2. j > 1 /\ \A m \in 2..j : m \in 1..j
    BY <1>1, <1>4, <2>1
  <2> QED
    BY <1>3, <2>1, <2>2
<1>5. ASSUME list[1].ask = "script" PROVE CleanupAhead(rest)
  <2>1. 1 \in DOMAIN list
    BY <1>1
  <2>2. PICK j \in 1..n : /\ j > 1 /\ list[j].ask = "cleanup"
                          /\ \A m \in 1..j : list[m].ask # "baseline"
    BY <1>1, <1>5, <2>1 DEF ScriptsAhead
  <2>3. \A m \in 2..j : m \in 1..j
    BY <1>1
  <2> QED
    BY <1>3, <2>2, <2>3
<1>6. ASSUME rest # <<>>, rest[1].ask = "script" PROVE list[1].ask = "baseline"
  <2>1. 2 \in 1..n /\ list[2].ask = "script"
    BY <1>1, <1>6
  <2>2. 2 \in DOMAIN list /\ 2 > 1 /\ 2 - 1 = 1
    BY <1>1, <2>1
  <2>3. list[2 - 1].ask = "baseline"
    BY <2>1, <2>2, Zenon DEF ScriptsAhead
  <2> QED
    BY <2>2, <2>3
<1>7. ScriptsAhead(rest)
  BY <1>2 DEF ScriptsAhead
<1> QED
  BY <1>4, <1>5, <1>6, <1>7 DEF rest

\* What the K5 requests know.
ScriptInv == GraphKnown /\ RunsStayIdempotent

\* The K5 vertices somebody still knows about are those of this run, which will drop them.
FreshKnown ==
    \A b \in Backends : fresh[b] /\ ~lost[b] => b = backend /\ pc = "run" /\ CleanupAhead(todo)

\* The baseline of the script that comes next was taken without the K5 vertices.
BaseKnown ==
    pc = "run" /\ todo # <<>> /\ todo[1].ask = "script" =>
        base = BagCardinality(Gold) \/ lost[backend] \/ BaseFailed

\* The three parts of GraphKnown.
LEMMA GraphParts == GraphKnown <=> ScriptsAhead(todo) /\ FreshKnown /\ BaseKnown
  BY DEF GraphKnown, FreshKnown, BaseKnown

\* A recorded request keeps what is known of the graph.
LEMMA GraphEmit == ASSUME CoreInv, GraphKnown, Emitting PROVE GraphKnown'
<1>1. /\ TypeOK /\ WellMade(cases) /\ backend \in Backends /\ todo \in Seq(Requests)
      /\ fresh \in [Backends -> BOOLEAN] /\ lost \in [Backends -> BOOLEAN]
  BY DEF CoreInv, Reports, TypeOK
<1>2. pc = "run" /\ todo # <<>>
  BY <1>1, EmittingRecords
<1>3. PICK recs : Emit(recs) /\ Recorded(Step, recs)
  BY <1>1, EmittingRecords
<1>4. pc' = pc /\ backend' = backend /\ todo' = Tail(todo) /\ Step = todo[1]
  BY <1>3 DEF Emit, Step
<1>5. ScriptsAhead(todo) /\ FreshKnown /\ BaseKnown
  BY GraphParts
<1>6. /\ ScriptsAhead(todo')
      /\ CleanupAhead(todo) => CleanupAhead(todo')
      /\ Step.ask = "script" => CleanupAhead(todo')
      /\ todo' # <<>> /\ todo'[1].ask = "script" => Baseline
  <2> DEFINE rest == Tail(todo)
  <2>1. /\ ScriptsAhead(rest)
        /\ CleanupAhead(todo) /\ todo[1].ask # "cleanup" => CleanupAhead(rest)
        /\ todo[1].ask = "script" => CleanupAhead(rest)
        /\ rest # <<>> /\ rest[1].ask = "script" => todo[1].ask = "baseline"
    BY <1>1, <1>2, <1>5, TailScripts
  <2>2. rest = todo'
    BY <1>4
  <2> HIDE DEF rest
  <2> QED
    BY <1>4, <2>1, <2>2, StepKinds
<1>7. lost' = lost
  BY DEF Emitting, Query, Tile, Union, Disjoint, Repeat, Plan, PageAll, Baseline,
         ScriptAnswered, ScriptFailed, Again, server
<1>8. FreshKnown'
  <2> SUFFICES ASSUME NEW b \in Backends, fresh'[b], ~lost[b]
               PROVE  b = backend /\ CleanupAhead(todo')
    BY <1>2, <1>4, <1>7 DEF FreshKnown
  <2>1. CASE fresh[b]
    BY <1>5, <1>6, <2>1 DEF FreshKnown
  <2>2. CASE ~fresh[b]
    <3>1. ScriptAnswered \/ ScriptFailed
      BY <2>2 DEF Emitting, Query, Tile, Union, Disjoint, Repeat, Plan, PageAll, Baseline,
                  Again, server
    <3>2. b = backend
      <4>1. fresh' = fresh \/ fresh' = [fresh EXCEPT ![backend] = TRUE]
        BY <3>1 DEF ScriptAnswered, ScriptFailed, server
      <4> QED
        BY <1>1, <2>2, <4>1
    <3>3. Step.ask = "script"
      BY <3>1, StepKinds
    <3> QED
      BY <1>6, <3>2, <3>3
  <2> QED
    BY <2>1, <2>2
<1>9. BaseKnown'
  <2> SUFFICES ASSUME todo' # <<>>, todo'[1].ask = "script"
               PROVE  (base = BagCardinality(Gold) \/ lost[backend] \/ BaseFailed)'
    BY DEF BaseKnown
  <2>1. Baseline
    BY <1>6
  <2>2. PICK answer \in {Failed, Got(Matches)} :
           /\ Emit(<<Case(Step, "ids", answer)>>)
           /\ base' = IF answer.err THEN -1 ELSE BagCardinality(answer.ids)
    BY <2>1 DEF Baseline
  <2>3. Failed.err /\ Failed.err \in BOOLEAN /\ ~Got(Matches).err /\ Got(Matches).err \in BOOLEAN
        /\ Got(Matches).ids = Matches
    BY DEF Failed, Got
  <2>4. CASE answer = Failed
    <3>1. Step.ask = "baseline" /\ answer.err \in BOOLEAN /\ answer.err
      BY <2>1, <2>3, <2>4, StepKinds
    <3> DEFINE u == Len(cases) + 1
    <3>2. u \in DOMAIN cases' /\ cases'[u].asked = Step /\ cases'[u].err = answer.err
      <4>1. /\ Len(cases) \in Nat /\ DOMAIN cases' = 1..(Len(cases) + 1)
            /\ cases'[Len(cases) + 1].asked = Step /\ cases'[Len(cases) + 1].err = answer.err
        <5>1. Step.ask \in {"tile", "union", "baseline"} /\ answer.err \in BOOLEAN
          BY <3>1
        <5>2. Emit(<<Case(Step, "ids", answer)>>) /\ WellMade(cases)
          BY <1>1, <2>2
        <5> QED
          BY <5>1, <5>2, OneListEmit
      <4>2. Len(cases) + 1 \in DOMAIN cases'
        BY <4>1
      <4> QED
        BY <4>1, <4>2
    <3> HIDE DEF u
    <3>3. BaseFailed'
      BY <3>1, <3>2 DEF BaseFailed
    <3> QED
      BY <3>3
  <2>5. CASE answer = Got(Matches)
    <3>1. base' = BagCardinality(Matches)
      BY <2>2, <2>3, <2>5
    <3>2. CASE fresh[backend]
      <4>1. ~CleanupAhead(todo)
        <5>1. todo[1].ask = "baseline"
          BY <1>4, <2>1, StepKinds
        <5>2. \A j \in DOMAIN todo : 1 \in 1..j
          BY <1>1
        <5> QED
          BY <5>1, <5>2 DEF CleanupAhead
      <4> QED
        BY <1>1, <1>4, <1>5, <1>7, <3>2, <4>1 DEF FreshKnown
    <3>3. CASE ~fresh[backend]
      BY <3>1, <3>3 DEF Matches
    <3> QED
      BY <3>2, <3>3
  <2> QED
    BY <2>2, <2>4, <2>5
<1> QED
  BY <1>6, <1>8, <1>9 DEF GraphKnown, FreshKnown, BaseKnown

\* A recorded request keeps what the script gains.
LEMMA GainEmit == ASSUME CoreInv, ScriptInv, Emitting PROVE RunsStayIdempotent'
<1>1. /\ TypeOK /\ WellMade(cases) /\ todo \in Seq(Requests)
  BY DEF CoreInv, Reports, TypeOK
<1>2. pc = "run" /\ todo # <<>>
  BY <1>1, EmittingRecords
<1>3. PICK recs : Emit(recs) /\ Recorded(Step, recs)
  BY <1>1, EmittingRecords
<1> DEFINE n == Len(cases)
<1>4. /\ n \in Nat /\ Len(recs) \in Nat /\ DOMAIN cases = 1..n
      /\ DOMAIN cases' = 1..(n + Len(recs))
      /\ \A i \in 1..n : cases'[i] = cases[i]
      /\ \A i \in 1..(n + Len(recs)) : i \notin 1..n =>
            /\ i - n \in 1..Len(recs) /\ cases'[i].key[3] = recs[i - n].key[3]
  BY <1>1, <1>3, EmitCases
<1>5. lost' = lost /\ backend' = backend
  <2>1. lost' = lost
    BY DEF Emitting, Query, Tile, Union, Disjoint, Repeat, Plan, PageAll, Baseline,
           ScriptAnswered, ScriptFailed, Again, server
  <2> QED
    BY <1>3, <2>1 DEF Emit
<1> SUFFICES ASSUME NEW i \in DOMAIN cases', cases'[i].key[3] = "gain"
             PROVE  \/ cases'[i].n = BagCardinality(Fresh)
                    \/ \E k \in 1..i : cases'[k].asked.ask = "baseline" /\ cases'[k].err
                    \/ lost[backend]
  BY <1>5 DEF RunsStayIdempotent
<1>6. CASE i \in 1..n
  <2>1. i \in DOMAIN cases /\ cases[i].key[3] = "gain" /\ cases'[i].n = cases[i].n
    BY <1>4, <1>6
  <2>2. \/ cases[i].n = BagCardinality(Fresh)
        \/ \E k \in 1..i : cases[k].asked.ask = "baseline" /\ cases[k].err
        \/ lost[backend]
    BY <2>1 DEF ScriptInv, RunsStayIdempotent
  <2>3. \A k \in 1..i : cases'[k] = cases[k]
    BY <1>4, <1>6
  <2> QED
    BY <2>1, <2>2, <2>3
<1>7. CASE i \notin 1..n
  <2>1. i - n \in 1..Len(recs) /\ recs[i - n].key[3] = "gain"
    BY <1>4, <1>7
  <2>2. "gain" \in PartsOf(Step.ask)
    <3>1. i - n \in DOMAIN recs
      BY <1>3, <2>1 DEF Recorded
    <3> HIDE DEF n
    <3> QED
      BY <1>3, <2>1, <3>1 DEF Recorded
  <2>3. Step.ask = "script"
    BY <2>2 DEF PartsOf
  <2>4. ScriptAnswered \/ ScriptFailed
    BY <2>3, StepKinds
  <2>5. CASE ScriptFailed
    <3> DEFINE one == <<Case(Step, "before", Failed)>>
    <3>1. Emit(one) /\ Recorded(Step, one)
      BY <2>3, <2>5, FailedScript DEF ScriptFailed
    <3>2. Len(one) = 1 /\ one[1].key[3] = "before"
      BY DEF Case
    <3> HIDE DEF one, n
    <3>3. /\ DOMAIN cases' = 1..(Len(cases) + Len(one))
          /\ \A j \in 1..(Len(cases) + Len(one)) : j \notin 1..Len(cases) =>
               j - Len(cases) \in 1..Len(one) /\ cases'[j].key[3] = one[j - Len(cases)].key[3]
      BY <1>1, <3>1, EmitCases
    <3>4. i - Len(cases) \in 1..Len(one) /\ cases'[i].key[3] = one[i - Len(cases)].key[3]
      BY <1>7, <3>3 DEF n
    <3>5. i - Len(cases) = 1
      BY <3>2, <3>4
    <3> QED
      BY <3>2, <3>4, <3>5
  <2>6. CASE ScriptAnswered
    <3> DEFINE both == Got(Gold (+) Fresh)
               b == Case(Step, "before", both)
               a == Case(Step, "after", both)
               g == Scalar(Step, "gain", Added - base)
               h == Scalar(Step, "change", 0)
               all == <<b, a, g, h>>
    <3>1. both.err \in BOOLEAN
      BY DEF Got
    <3>2. Emit(all) /\ Recorded(Step, all)
      BY <2>3, <2>6, <3>1, FourParts DEF ScriptAnswered
    <3>3. b.key[3] = "before" /\ a.key[3] = "after" /\ h.key[3] = "change" /\ g.n = Added - base
      BY DEF Case, Scalar
    <3> HIDE DEF both, b, a, g, h
    <3>4. Len(all) = 4 /\ all[1] = b /\ all[2] = a /\ all[3] = g /\ all[4] = h
      OBVIOUS
    <3> HIDE DEF all, n
    <3>5. /\ DOMAIN cases' = 1..(Len(cases) + Len(all))
          /\ \A j \in 1..(Len(cases) + Len(all)) : j \notin 1..Len(cases) =>
                /\ j - Len(cases) \in 1..Len(all) /\ cases'[j].n = all[j - Len(cases)].n
                /\ cases'[j].key[3] = all[j - Len(cases)].key[3]
      BY <1>1, <3>2, EmitCases
    <3> DEFINE k == i - Len(cases)
    <3>6. k \in 1..4 /\ cases'[i].n = all[k].n /\ cases'[i].key[3] = all[k].key[3]
      BY <1>7, <3>4, <3>5 DEF n
    <3> HIDE DEF k
    <3>7. k = 1 \/ k = 2 \/ k = 3 \/ k = 4
      BY <3>6
    <3>8. k = 3
      BY <3>3, <3>4, <3>6, <3>7
    <3>9. cases'[i].n = Added - base
      BY <3>3, <3>4, <3>6, <3>8
    <3>10. base = BagCardinality(Gold) \/ lost[backend] \/ BaseFailed
      BY <1>2, <2>3 DEF ScriptInv, GraphKnown, Step
    <3>11. CASE base = BagCardinality(Gold)
      <4>1. /\ BagCardinality(Gold) \in Nat /\ BagCardinality(Fresh) \in Nat
            /\ Added = BagCardinality(Gold) + BagCardinality(Fresh)
        BY SuiteAssumption, SizeOfBoth DEF Added
      <4> QED
        BY <3>9, <3>11, <4>1
    <3>12. CASE BaseFailed
      <4>1. PICK m \in 1..n : cases[m].asked.ask = "baseline" /\ cases[m].err
        BY <1>4, <3>12 DEF BaseFailed
      <4>2. m \in 1..i /\ cases'[m] = cases[m]
        BY <1>4, <1>7, <4>1
      <4> QED
        BY <4>1, <4>2
    <3> QED
      BY <3>10, <3>11, <3>12
  <2> QED
    BY <2>4, <2>5, <2>6
<1> QED
  BY <1>6, <1>7

\* The steps that record nothing keep what the K5 requests know.
LEMMA ScriptQuiet ==
    ASSUME CoreInv, ScriptInv,
           \/ \E b \in Backends, sel \in Selections :
                 \E oracle \in {NoReport} \cup {files[f] : f \in DOMAIN files} :
                    StartRun(b, sel, oracle)
           \/ Cleanup \/ Dump \/ Exit \/ Killed
           \/ \E b \in Backends : LateCommit(b)
           \/ UNCHANGED vars
    PROVE  ScriptInv'
<1>1. /\ backend \in Backends /\ todo \in Seq(Requests) /\ pc \in {"idle", "run", "exit"}
      /\ fresh \in [Backends -> BOOLEAN] /\ lost \in [Backends -> BOOLEAN]
  BY DEF CoreInv, TypeOK
<1>2. ScriptsAhead(todo) /\ FreshKnown /\ BaseKnown /\ RunsStayIdempotent
  BY GraphParts DEF ScriptInv
<1>3. ASSUME ScriptsAhead(todo'), FreshKnown', BaseKnown', RunsStayIdempotent' PROVE ScriptInv'
  BY <1>3 DEF ScriptInv, GraphKnown, FreshKnown, BaseKnown
<1>4. ASSUME UNCHANGED <<cases, backend>>, lost[backend] => lost'[backend]
      PROVE  RunsStayIdempotent'
  BY <1>2, <1>4 DEF RunsStayIdempotent
<1>5. ASSUME NEW b \in Backends, NEW sel \in Selections, NEW oracle, StartRun(b, sel, oracle)
      PROVE  ScriptInv'
  <2>1. pc = "idle" /\ todo' = Program(sel) /\ cases' = <<>> /\ fresh' = fresh /\ lost' = lost
    BY <1>5 DEF StartRun, server
  <2>2. ScriptsIn(todo')
    BY <2>1, ProgramScripts
  <2>3. ScriptsAhead(todo')
    BY <2>2 DEF ScriptsIn, ScriptsAhead
  <2>4. FreshKnown'
    BY <1>2, <2>1 DEF FreshKnown
  <2>5. BaseKnown'
    <3>1. todo' \in Seq(Requests)
      BY <2>1, ProgramRequests
    <3>2. todo' # <<>> => 1 \in DOMAIN todo'
      <4> HIDE DEF Requests
      <4> QED
        BY <3>1
    <3>3. ~(1 > 1)
      OBVIOUS
    <3>4. ~(todo' # <<>> /\ todo'[1].ask = "script")
      BY <2>2, <3>2, <3>3 DEF ScriptsIn
    <3> QED
      BY <3>4 DEF BaseKnown
  <2>6. RunsStayIdempotent'
    BY <2>1 DEF RunsStayIdempotent
  <2> QED
    BY <1>3, <2>3, <2>4, <2>5, <2>6
<1>6. CASE Cleanup
  <2>1. /\ pc = "run" /\ todo # <<>> /\ todo[1].ask = "cleanup" /\ todo' = Tail(todo)
        /\ UNCHANGED <<pc, backend, cases, base>>
        /\ \/ fresh' = [fresh EXCEPT ![backend] = FALSE] /\ lost' = lost
           \/ lost' = [lost EXCEPT ![backend] = @ \/ fresh[backend]] /\ fresh' = fresh
    BY <1>6 DEF Cleanup, Ask
  <2>2. ScriptsAhead(todo') /\ ~(todo' # <<>> /\ todo'[1].ask = "script")
    <3> DEFINE rest == Tail(todo)
    <3>1. /\ ScriptsAhead(rest)
          /\ rest # <<>> /\ rest[1].ask = "script" => todo[1].ask = "baseline"
      BY <1>1, <1>2, <2>1, TailScripts
    <3>2. rest = todo'
      BY <2>1
    <3> HIDE DEF rest
    <3> QED
      BY <2>1, <3>1, <3>2
  <2>3. \A b \in Backends : fresh'[b] /\ ~lost'[b] => fresh[b] /\ ~lost[b] /\ b # backend
    <3>1. CASE fresh' = [fresh EXCEPT ![backend] = FALSE] /\ lost' = lost
      BY <1>1, <3>1
    <3>2. CASE lost' = [lost EXCEPT ![backend] = @ \/ fresh[backend]] /\ fresh' = fresh
      <4>1. /\ lost'[backend] <=> lost[backend] \/ fresh[backend]
            /\ \A b \in Backends : b # backend => lost'[b] = lost[b]
        BY <1>1, <3>2
      <4> QED
        BY <1>1, <3>2, <4>1
    <3> QED
      BY <2>1, <3>1, <3>2
  <2>4. lost[backend] => lost'[backend]
    BY <1>1, <2>1
  <2>5. FreshKnown'
    BY <1>2, <2>3 DEF FreshKnown
  <2>6. BaseKnown'
    BY <2>2 DEF BaseKnown
  <2>7. RunsStayIdempotent'
    BY <1>4, <2>1, <2>4
  <2> QED
    BY <1>3, <2>2, <2>5, <2>6, <2>7
<1>7. CASE Dump
  <2>1. /\ pc = "run" /\ todo = <<>> /\ pc' = "exit"
        /\ UNCHANGED <<backend, todo, cases, base, fresh, lost>>
    BY <1>7 DEF Dump, server
  <2>2. ~CleanupAhead(todo)
    BY <2>1 DEF CleanupAhead
  <2>3. FreshKnown'
    BY <1>2, <2>1, <2>2 DEF FreshKnown
  <2>4. BaseKnown'
    BY <2>1 DEF BaseKnown
  <2>5. RunsStayIdempotent' /\ ScriptsAhead(todo')
    BY <1>2, <1>4, <2>1
  <2> QED
    BY <1>3, <2>3, <2>4, <2>5
<1>8. CASE Exit
  <2>1. /\ pc = "exit" /\ pc' = "idle"
        /\ UNCHANGED <<backend, todo, cases, base, fresh, lost>>
    BY <1>8 DEF Exit, server
  <2>2. FreshKnown'
    BY <1>2, <2>1 DEF FreshKnown
  <2>3. BaseKnown'
    BY <2>1 DEF BaseKnown
  <2>4. RunsStayIdempotent' /\ ScriptsAhead(todo')
    BY <1>2, <1>4, <2>1
  <2> QED
    BY <1>3, <2>2, <2>3, <2>4
<1>9. CASE Killed
  <2>1. /\ pc' = "idle" /\ todo' = <<>>
        /\ lost' = [lost EXCEPT ![backend] = @ \/ fresh[backend]]
        /\ UNCHANGED <<backend, cases, base, fresh>>
    BY <1>9 DEF Killed
  <2>2. /\ lost'[backend] <=> lost[backend] \/ fresh[backend]
        /\ \A b \in Backends : b # backend => lost'[b] = lost[b]
    BY <1>1, <2>1
  <2>3. FreshKnown'
    BY <1>1, <1>2, <2>1, <2>2 DEF FreshKnown
  <2>4. BaseKnown' /\ ScriptsAhead(todo')
    BY <2>1 DEF BaseKnown, ScriptsAhead
  <2>5. RunsStayIdempotent'
    BY <1>4, <2>1, <2>2
  <2> QED
    BY <1>3, <2>3, <2>4, <2>5
<1>10. ASSUME NEW c \in Backends, LateCommit(c) PROVE ScriptInv'
  <2>1. /\ fresh' = [fresh EXCEPT ![c] = TRUE] /\ lost' = [lost EXCEPT ![c] = TRUE]
        /\ UNCHANGED <<pc, backend, todo, cases, base>>
    BY <1>10 DEF LateCommit, run
  <2>2. /\ \A b \in Backends : fresh'[b] /\ ~lost'[b] => fresh[b] /\ ~lost[b]
        /\ lost[backend] => lost'[backend]
    BY <1>1, <2>1
  <2>3. FreshKnown'
    BY <1>2, <2>1, <2>2 DEF FreshKnown
  <2>4. BaseKnown' /\ ScriptsAhead(todo')
    BY <1>2, <2>1, <2>2 DEF BaseKnown, BaseFailed
  <2>5. RunsStayIdempotent'
    BY <1>4, <2>1, <2>2
  <2> QED
    BY <1>3, <2>3, <2>4, <2>5
<1>11. CASE UNCHANGED vars
  <2>1. UNCHANGED <<pc, backend, todo, cases, base, fresh, lost>>
    BY <1>11 DEF vars, run, server
  <2>2. FreshKnown'
    BY <1>2, <2>1 DEF FreshKnown
  <2>3. BaseKnown' /\ ScriptsAhead(todo')
    BY <1>2, <2>1 DEF BaseKnown, BaseFailed
  <2>4. RunsStayIdempotent'
    BY <1>4, <2>1
  <2> QED
    BY <1>3, <2>2, <2>3, <2>4
<1> QED
  BY <1>5, <1>6, <1>7, <1>8, <1>9, <1>10, <1>11

\* The K5 script gains its fresh vertices over the baseline in every run, unless the
\* baseline failed, a cleanup was lost or a script outlived its run.
THEOREM SuiteIdempotence == Spec => []RunsStayIdempotent
<1>1. Init => ScriptInv
  <2> SUFFICES ASSUME Init PROVE ScriptInv
    OBVIOUS
  <2>1. pc = "idle" /\ todo = <<>> /\ cases = <<>> /\ fresh = [b \in Backends |-> FALSE]
    BY DEF Init
  <2>2. ScriptsAhead(todo) /\ RunsStayIdempotent
    BY <2>1 DEF ScriptsAhead, RunsStayIdempotent
  <2>3. FreshKnown /\ BaseKnown
    BY <2>1 DEF FreshKnown, BaseKnown
  <2> QED
    BY <2>2, <2>3, GraphParts DEF ScriptInv
<1>2. CoreInv /\ ScriptInv /\ [Next]_vars => ScriptInv'
  <2> SUFFICES ASSUME CoreInv, ScriptInv, [Next]_vars PROVE ScriptInv'
    OBVIOUS
  <2>1. CASE Emitting
    BY <2>1, GraphEmit, GainEmit DEF ScriptInv
  <2>2. CASE ~Emitting
    BY <2>2, ScriptQuiet DEF Next, RunStep, Emitting
  <2> QED
    BY <2>1, <2>2
<1>3. ScriptInv => RunsStayIdempotent
  BY DEF ScriptInv
<1> QED
  BY <1>1, <1>2, <1>3, CoreAlways, PTL DEF Spec

----------------------------------------------------------------------------
(* Copies of a name *)

\* The copies of a name before one of them.
Copies(report) ==
    \A i \in DOMAIN report :
        /\ report[i].key[4] \in Nat /\ report[i].key[4] > 0
        /\ \A c \in 1..report[i].key[4] - 1 : \E j \in 1..i - 1 :
              report[j].key = <<report[i].key[1], report[i].key[2], report[i].key[3], c>>

\* _name takes the first free copy.
LEMMA NamedLeast ==
    ASSUME NEW report, Len(report) \in Nat, DOMAIN report = 1..Len(report),
           NEW rec, IsRecord(rec)
    PROVE  LET key == Named(report, rec).key
           IN  /\ key[4] \in Nat /\ key[4] > 0
               /\ key = <<rec.key[1], rec.key[2], rec.key[3], key[4]>>
               /\ \A c \in 1..key[4] - 1 :
                     <<rec.key[1], rec.key[2], rec.key[3], c>> \in Keys(report)
<1> DEFINE copy(i) == <<rec.key[1], rec.key[2], rec.key[3], i>>
           S == {i \in 1..Len(report) + 1 : copy(i) \notin Keys(report)}
           m == Min(S)
<1>1. S # {} /\ S \subseteq Nat
  <2>1. PICK i \in 1..Len(report) + 1 : copy(i) \notin Keys(report)
    BY FreeCopy
  <2> QED
    BY <2>1
<1>2. \E x \in S : \A y \in S : x <= y
  <2> HIDE DEF S
  <2> QED
    BY <1>1, LeastNat
<1>3. m \in S /\ \A y \in S : m <= y
  <2> HIDE DEF S
  <2> QED
    BY <1>2 DEF Min
<1>4. Named(report, rec) = [rec EXCEPT !.key = copy(m)]
  BY DEF Named
<1> HIDE DEF m
<1>5. Named(report, rec).key = copy(m)
  <2> DEFINE v == copy(m)
  <2>1. Named(report, rec) = [rec EXCEPT !.key = v]
    BY <1>4
  <2> HIDE DEF v
  <2>2. Named(report, rec).key = v
    BY <2>1 DEF IsRecord
  <2> QED
    BY <2>2 DEF v
<1>6. m \in 1..Len(report) + 1 /\ \A c \in 1..m - 1 : copy(c) \in Keys(report)
  BY <1>3
<1>7. copy(m)[4] = m
  OBVIOUS
<1> DEFINE key == Named(report, rec).key
<1>8. key = copy(m) /\ key[4] = m
  BY <1>5, <1>7
<1> HIDE DEF key
<1> QED
  BY <1>6, <1>8 DEF key

\* A recorded request gets the next copies.
LEMMA EmitCopies ==
    ASSUME WellMade(cases), Copies(cases), NEW recs, Recorded(Step, recs), Emit(recs)
    PROVE  Copies(cases')
<1> DEFINE new == Renamed(recs)
           all == cases'
<1>1. Len(cases) \in Nat /\ DOMAIN cases = 1..Len(cases)
  BY DEF WellMade
<1>2. DOMAIN recs = 1..Len(recs) /\ Len(recs) \in Nat
  BY DEF Recorded
<1>3. /\ DOMAIN all = 1..(Len(cases) + Len(recs))
      /\ \A i \in 1..Len(cases) : all[i] = cases[i]
      /\ \A i \in 1..(Len(cases) + Len(recs)) : i \notin 1..Len(cases) =>
            /\ i - Len(cases) \in 1..Len(recs)
            /\ all[i] = Named(cases, recs[i - Len(cases)])
  <2>1. /\ new \in Seq(ToSet(new)) /\ Len(new) = Len(recs) /\ cases \in Seq(ToSet(cases))
        /\ all = cases \o new
    BY RenamedFacts, EmitWellMade DEF WellMade
  <2>2. \A k \in 1..Len(recs) : new[k] = Named(cases, recs[k])
    BY <1>2 DEF Renamed
  <2> HIDE DEF new, all
  <2> DEFINE both == cases \o new
  <2>3. /\ DOMAIN both = 1..(Len(cases) + Len(new))
        /\ \A i \in 1..Len(cases) : both[i] = cases[i]
        /\ \A i \in 1..(Len(cases) + Len(new)) : i \notin 1..Len(cases) =>
            i - Len(cases) \in 1..Len(new) /\ both[i] = new[i - Len(cases)]
    BY <2>1, Appended
  <2>4. all = both
    BY <2>1
  <2> HIDE DEF both
  <2> QED
    BY <2>1, <2>2, <2>3, <2>4
<1> HIDE DEF all, new
<1> SUFFICES ASSUME NEW i \in DOMAIN all
             PROVE  /\ all[i].key[4] \in Nat /\ all[i].key[4] > 0
                    /\ \A c \in 1..all[i].key[4] - 1 : \E j \in 1..i - 1 :
                          all[j].key = <<all[i].key[1], all[i].key[2], all[i].key[3], c>>
  BY DEF Copies, all
<1>4. CASE i \in 1..Len(cases)
  <2>1. /\ cases[i].key[4] \in Nat /\ cases[i].key[4] > 0
        /\ \A c \in 1..cases[i].key[4] - 1 : \E j \in 1..i - 1 :
              cases[j].key = <<cases[i].key[1], cases[i].key[2], cases[i].key[3], c>>
    BY <1>1, <1>4 DEF Copies
  <2>2. all[i] = cases[i] /\ \A j \in 1..i - 1 : all[j] = cases[j]
    BY <1>1, <1>3, <1>4
  <2>3. ASSUME NEW c \in 1..all[i].key[4] - 1
        PROVE  \E j \in 1..i - 1 :
                  all[j].key = <<all[i].key[1], all[i].key[2], all[i].key[3], c>>
    <3>1. PICK j \in 1..i - 1 :
             cases[j].key = <<cases[i].key[1], cases[i].key[2], cases[i].key[3], c>>
      BY <2>1, <2>2
    <3> QED
      BY <2>2, <3>1
  <2> QED
    BY <2>1, <2>2, <2>3
<1>5. CASE i \notin 1..Len(cases)
  <2> DEFINE rec == recs[i - Len(cases)]
             key == Named(cases, rec).key
  <2>1. IsRecord(rec) /\ all[i] = Named(cases, rec)
    BY <1>2, <1>3, <1>5 DEF Recorded
  <2> HIDE DEF rec
  <2>2. /\ key[4] \in Nat /\ key[4] > 0
        /\ key = <<rec.key[1], rec.key[2], rec.key[3], key[4]>>
        /\ \A c \in 1..key[4] - 1 : <<rec.key[1], rec.key[2], rec.key[3], c>> \in Keys(cases)
    BY <1>1, <2>1, NamedLeast
  <2>3. all[i].key = key
    BY <2>1
  <2> HIDE DEF key
  <2>4. key[1] = rec.key[1] /\ key[2] = rec.key[2] /\ key[3] = rec.key[3]
    BY <2>2
  <2>5. ASSUME NEW c \in 1..key[4] - 1
        PROVE  \E j \in 1..i - 1 : all[j].key = <<key[1], key[2], key[3], c>>
    <3>1. <<key[1], key[2], key[3], c>> \in Keys(cases)
      BY <2>2, <2>4
    <3>2. PICK j \in 1..Len(cases) : cases[j].key = <<key[1], key[2], key[3], c>>
      BY <1>1, <3>1 DEF Keys
    <3>3. j \in 1..i - 1 /\ all[j] = cases[j]
      BY <1>1, <1>3, <1>5
    <3> QED
      BY <3>2, <3>3
  <2> QED
    BY <2>2, <2>3, <2>5
<1> QED
  BY <1>4, <1>5

----------------------------------------------------------------------------
(* The order of a report *)

\* The requests of a program up to a section: in their order, none missing.
Upto(sel, i, list) ==
    /\ \A k \in DOMAIN list : \E a \in 1..i : /\ Order[a] \in sel
                                              /\ \E m \in DOMAIN Steps[Order[a]] :
                                                    list[k] = Request(Order[a], m)
    /\ \A k, l \in DOMAIN list : k < l => Before(list[k], list[l])
    /\ \A a \in 1..i : Order[a] \in sel => \A m \in DOMAIN Steps[Order[a]] :
          \E k \in DOMAIN list : list[k] = Request(Order[a], m)

\* With one more section.
LEMMA UptoSection ==
    ASSUME NEW sel, NEW i \in Nat, i + 1 <= Len(Order), Order[i + 1] \in sel,
           NEW list \in Seq(Requests), Upto(sel, i, list)
    PROVE  Upto(sel, i + 1, list \o Section(Order[i + 1]))
<1> DEFINE s == Order[i + 1]
           t == Section(s)
           n == Len(Steps[s])
           both == list \o t
<1>1. i + 1 \in 1..Len(Order) /\ s \in DOMAIN Steps
  BY OrderFacts
<1>2. /\ t \in Seq(Requests) /\ Len(t) = n /\ n \in Nat /\ DOMAIN Steps[s] = 1..n
      /\ \A k \in 1..n : t[k] = Request(s, k)
  BY <1>1, SectionFacts
<1> HIDE DEF t, n, Requests
<1>3. /\ Len(list) \in Nat /\ DOMAIN list = 1..Len(list) /\ DOMAIN both = 1..(Len(list) + n)
      /\ \A k \in 1..Len(list) : both[k] = list[k]
      /\ \A k \in 1..n : both[Len(list) + k] = Request(s, k)
      /\ \A k \in 1..(Len(list) + n) : k \notin 1..Len(list) =>
            k - Len(list) \in 1..n /\ both[k] = Request(s, k - Len(list))
  <2>1. /\ Len(list) \in Nat /\ DOMAIN list = 1..Len(list) /\ DOMAIN both = 1..(Len(list) + n)
        /\ \A k \in 1..Len(list) : both[k] = list[k]
        /\ \A k \in 1..n : both[Len(list) + k] = t[k]
        /\ \A k \in 1..(Len(list) + n) : k \notin 1..Len(list) =>
              k - Len(list) \in 1..n /\ both[k] = t[k - Len(list)]
    BY <1>2
  <2> HIDE DEF both, s
  <2> QED
    BY <1>2, <2>1
<1> HIDE DEF both
<1>4. \A k : Request(s, k).sec = s /\ Request(s, k).no = k
  BY DEF Request
<1>5. \A a \in 1..(i + 1) : a \in 1..i \/ a = i + 1
  OBVIOUS
<1>6. i + 1 \in 1..(i + 1) /\ \A a \in 1..i : a \in 1..(i + 1) /\ a < i + 1 /\ a \in DOMAIN Order
  BY OrderFacts
<1>7. ASSUME NEW k \in DOMAIN both
      PROVE  \E a \in 1..(i + 1) : /\ Order[a] \in sel
                                   /\ \E m \in DOMAIN Steps[Order[a]] :
                                         both[k] = Request(Order[a], m)
  <2>1. CASE k \in 1..Len(list)
    <3>1. PICK a \in 1..i : /\ Order[a] \in sel
                            /\ \E m \in DOMAIN Steps[Order[a]] : list[k] = Request(Order[a], m)
      BY <1>3, <2>1 DEF Upto
    <3> QED
      BY <1>3, <1>6, <2>1, <3>1
  <2>2. CASE k \notin 1..Len(list)
    <3>1. k - Len(list) \in DOMAIN Steps[s] /\ both[k] = Request(s, k - Len(list))
      BY <1>2, <1>3, <2>2
    <3> QED
      BY <1>6, <3>1
  <2> QED
    BY <2>1, <2>2
<1>8. ASSUME NEW k \in DOMAIN both, NEW l \in DOMAIN both, k < l
      PROVE  Before(both[k], both[l])
  <2>1. CASE l \in 1..Len(list)
    <3>1. k \in 1..Len(list)
      BY <1>3, <1>8, <2>1
    <3> QED
      BY <1>3, <1>8, <2>1, <3>1 DEF Upto
  <2>2. CASE l \notin 1..Len(list) /\ k \notin 1..Len(list)
    <3> DEFINE kk == k - Len(list)
               ll == l - Len(list)
    <3>1. both[k] = Request(s, kk) /\ both[l] = Request(s, ll) /\ kk < ll
      BY <1>3, <1>8, <2>2
    <3> HIDE DEF kk, ll
    <3>2. both[k].sec = both[l].sec /\ both[k].no < both[l].no
      BY <1>4, <3>1
    <3> QED
      BY <3>2 DEF Before
  <2>3. CASE l \notin 1..Len(list) /\ k \in 1..Len(list)
    <3>1. PICK a \in 1..i : \E m \in DOMAIN Steps[Order[a]] : list[k] = Request(Order[a], m)
      BY <1>3, <2>3 DEF Upto
    <3>2. both[k].sec = Order[a]
      BY <1>3, <2>3, <3>1 DEF Request
    <3>3. both[l].sec = Order[i + 1]
      BY <1>3, <1>4, <2>3
    <3>4. a \in DOMAIN Order /\ i + 1 \in DOMAIN Order /\ a < i + 1
      BY <1>1, <1>6, OrderFacts
    <3> QED
      BY <3>2, <3>3, <3>4 DEF Before
  <2> QED
    BY <2>1, <2>2, <2>3
<1>9. ASSUME NEW a \in 1..(i + 1), Order[a] \in sel, NEW m \in DOMAIN Steps[Order[a]]
      PROVE  \E k \in DOMAIN both : both[k] = Request(Order[a], m)
  <2>1. CASE a \in 1..i
    <3>1. PICK k \in 1..Len(list) : list[k] = Request(Order[a], m)
      BY <1>3, <1>9, <2>1 DEF Upto
    <3>2. k \in DOMAIN both /\ both[k] = list[k]
      BY <1>2, <1>3
    <3> QED
      BY <3>1, <3>2
  <2>2. CASE a = i + 1
    <3>1. m \in 1..n
      BY <1>2, <1>9, <2>2
    <3>2. Len(list) + m \in DOMAIN both /\ both[Len(list) + m] = Request(s, m)
      BY <1>2, <1>3, <3>1
    <3> QED
      BY <2>2, <3>2
  <2> QED
    BY <1>5, <2>1, <2>2
<1>10. Upto(sel, i + 1, both)
  BY <1>7, <1>8, <1>9 DEF Upto
<1> QED
  BY <1>10 DEF both, t

\* The requests of a selection are those of its sections.
LEMMA AsksFacts ==
    ASSUME NEW sel, NEW r
    PROVE  r \in Asks(sel) <=> \E a \in DOMAIN Order : /\ Order[a] \in sel
                                  /\ \E m \in DOMAIN Steps[Order[a]] : r = Request(Order[a], m)
  BY DEF Asks, ToSet

\* A program is all requests of its selection, in their order.
LEMMA ProgramUpto ==
    ASSUME NEW sel
    PROVE  /\ \A k \in DOMAIN Program(sel) : Program(sel)[k] \in Asks(sel)
           /\ \A k, l \in DOMAIN Program(sel) : k < l => Before(Program(sel)[k], Program(sel)[l])
           /\ \A r \in Asks(sel) : \E k \in DOMAIN Program(sel) : Program(sel)[k] = r
<1> DEFINE P == Programs(sel)
           T == {n \in Nat : n <= Len(Order) => P[n] \in Seq(Requests) /\ Upto(sel, n, P[n])}
<1>1. 0 \in T
  <2>1. P[0] = <<>>
    BY ProgramsStep
  <2>2. <<>> \in Seq(Requests) /\ Upto(sel, 0, <<>>)
    BY DEF Upto
  <2> HIDE DEF P
  <2> QED
    BY <2>1, <2>2
<1>2. ASSUME NEW n \in Nat, n \in T PROVE n + 1 \in T
  <2>1. SUFFICES ASSUME n + 1 <= Len(Order)
                 PROVE  P[n + 1] \in Seq(Requests) /\ Upto(sel, n + 1, P[n + 1])
    OBVIOUS
  <2>2. n <= Len(Order) /\ n + 1 \in 1..Len(Order)
    BY <2>1, OrderFacts
  <2>3. P[n + 1] = IF Order[n + 1] \in sel THEN P[n] \o Section(Order[n + 1]) ELSE P[n]
    BY <2>1, ProgramsStep
  <2> HIDE DEF P
  <2>4. P[n] \in Seq(Requests) /\ Upto(sel, n, P[n])
    BY <1>2, <2>2
  <2>5. CASE Order[n + 1] \in sel
    <3> DEFINE t == Section(Order[n + 1])
    <3>1. t \in Seq(Requests)
      BY <2>2, OrderFacts, SectionFacts
    <3>2. Upto(sel, n + 1, P[n] \o t)
      BY <2>1, <2>4, <2>5, UptoSection
    <3> HIDE DEF t, Requests
    <3>3. P[n] \o t \in Seq(Requests)
      BY <2>4, <3>1
    <3> QED
      BY <2>3, <2>5, <3>2, <3>3 DEF t
  <2>6. CASE Order[n + 1] \notin sel
    <3>1. \A a \in 1..(n + 1) : Order[a] \in sel => a \in 1..n
      BY <2>6
    <3>2. \A a \in 1..n : a \in 1..(n + 1)
      OBVIOUS
    <3>3. Upto(sel, n + 1, P[n])
      BY <2>4, <3>1, <3>2 DEF Upto
    <3> QED
      BY <2>3, <2>4, <2>6, <3>3
  <2> QED
    BY <2>5, <2>6
<1>3. Len(Order) \in T
  <2> HIDE DEF T
  <2> QED
    BY <1>1, <1>2, OrderFacts, SetInduction
<1>4. Upto(sel, Len(Order), Program(sel))
  BY <1>3, OrderFacts DEF Program
<1> DEFINE list == Program(sel)
<1> HIDE DEF list
<1>5. /\ \A k \in DOMAIN list : list[k] \in Asks(sel)
      /\ \A k, l \in DOMAIN list : k < l => Before(list[k], list[l])
      /\ \A r \in Asks(sel) : \E k \in DOMAIN list : list[k] = r
  <2>1. Upto(sel, Len(Order), list) /\ DOMAIN Order = 1..Len(Order)
    BY <1>4, OrderFacts DEF list
  <2>2. \A k \in DOMAIN list : list[k] \in Asks(sel)
    <3> TAKE k \in DOMAIN list
    <3>1. \E a \in 1..Len(Order) : /\ Order[a] \in sel
             /\ \E m \in DOMAIN Steps[Order[a]] : list[k] = Request(Order[a], m)
      BY <2>1 DEF Upto
    <3> QED
      BY <2>1, <3>1, AsksFacts
  <2>3. \A r \in Asks(sel) : \E k \in DOMAIN list : list[k] = r
    <3> TAKE r \in Asks(sel)
    <3>1. PICK a \in 1..Len(Order) : /\ Order[a] \in sel
             /\ \E m \in DOMAIN Steps[Order[a]] : r = Request(Order[a], m)
      BY <2>1, AsksFacts
    <3>2. PICK m \in DOMAIN Steps[Order[a]] : r = Request(Order[a], m)
      BY <3>1
    <3>3. \E k \in DOMAIN list : list[k] = Request(Order[a], m)
      BY <2>1, <3>1 DEF Upto
    <3> QED
      BY <3>2, <3>3
  <2>4. \A k, l \in DOMAIN list : k < l => Before(list[k], list[l])
    BY <2>1 DEF Upto
  <2> QED
    BY <2>2, <2>3, <2>4
<1> QED
  BY <1>5 DEF list

\* No request comes before itself or before one that comes before it.
LEMMA BeforeOrder ==
    ASSUME NEW sel, NEW x \in Asks(sel), NEW y \in Asks(sel), Before(x, y)
    PROVE  x # y /\ ~Before(y, x)
<1>1. x.no \in Int /\ y.no \in Int
  <2>1. ASSUME NEW r \in Asks(sel) PROVE r.no \in Int
    <3>1. PICK a \in DOMAIN Order : \E m \in DOMAIN Steps[Order[a]] : r = Request(Order[a], m)
      BY <2>1, AsksFacts
    <3>2. PICK m \in DOMAIN Steps[Order[a]] : r = Request(Order[a], m)
      BY <3>1
    <3>3. m \in Int
      BY OrderFacts, SectionFacts
    <3> QED
      BY <3>2, <3>3 DEF Request
  <2> QED
    BY <2>1
<1>2. \A i, j \in DOMAIN Order : i \in Int /\ j \in Int /\ (Order[i] = Order[j] => i = j)
  BY OrderFacts, SuiteAssumption
<1>3. CASE x.sec = y.sec
  <2>1. x.no < y.no
    BY <1>2, <1>3 DEF Before
  <2>2. ~Before(y, x)
    BY <1>1, <1>2, <1>3, <2>1 DEF Before
  <2> QED
    BY <1>1, <2>1, <2>2
<1>4. CASE x.sec # y.sec
  <2>1. PICK i, j \in DOMAIN Order : Order[i] = x.sec /\ Order[j] = y.sec /\ i < j
    BY <1>4 DEF Before
  <2>2. ASSUME NEW k \in DOMAIN Order, NEW l \in DOMAIN Order,
               Order[k] = y.sec, Order[l] = x.sec, k < l
        PROVE  FALSE
    <3>1. k = j /\ l = i
      BY <1>2, <2>1, <2>2
    <3> QED
      BY <1>2, <2>1, <2>2, <3>1
  <2> QED
    BY <1>4, <2>2 DEF Before
<1> QED
  BY <1>3, <1>4

\* The same for what they are recorded as.
LEMMA EarlierOrder ==
    ASSUME NEW sel, NEW c, c.asked \in Asks(sel), c.key[3] \in PartsOf(c.asked.ask),
           NEW d, d.asked \in Asks(sel), d.key[3] \in PartsOf(d.asked.ask), Earlier(c, d)
    PROVE  ~(c.asked = d.asked /\ c.key[3] = d.key[3]) /\ ~Earlier(d, c)
<1>1. PartNo[c.key[3]] \in Int /\ PartNo[d.key[3]] \in Int
  BY PartNumbers
<1>2. CASE Before(c.asked, d.asked)
  <2>1. c.asked # d.asked /\ ~Before(d.asked, c.asked)
    BY <1>2, BeforeOrder
  <2> QED
    BY <2>1 DEF Earlier
<1>3. CASE c.asked = d.asked /\ PartNo[c.key[3]] < PartNo[d.key[3]]
  <2>1. ~Before(d.asked, c.asked)
    BY <1>3, BeforeOrder
  <2> QED
    BY <1>1, <1>3, <2>1 DEF Earlier
<1> QED
  BY <1>2, <1>3 DEF Earlier

\* A recorded request is the next one, and the report goes on in order.
LEMMA FollowsEmit ==
    ASSUME CoreInv, Emitting, NEW sel, Follows(cases, todo, sel)
    PROVE  Follows(cases', todo', sel)
<1>1. TypeOK /\ WellMade(cases) /\ todo \in Seq(Requests)
  BY DEF CoreInv, Reports, TypeOK
<1>2. todo # <<>>
  BY <1>1, EmittingRecords
<1>3. PICK recs : Emit(recs) /\ Recorded(Step, recs)
  BY <1>1, EmittingRecords
<1> DEFINE n == Len(cases)
           r == Len(recs)
           all == cases'
           rest == todo'
           t == Len(todo)
<1>4. /\ n \in Nat /\ r \in Nat /\ DOMAIN cases = 1..n /\ DOMAIN all = 1..(n + r)
      /\ \A i \in 1..n : i \in 1..(n + r) /\ all[i] = cases[i]
      /\ \A i \in 1..(n + r) : i \notin 1..n =>
            /\ i - n \in 1..r /\ all[i].asked = Step /\ all[i].err = recs[i - n].err
            /\ all[i].key[3] = recs[i - n].key[3]
      /\ DOMAIN recs = 1..r
  <2>1. DOMAIN recs = 1..r
    BY <1>3 DEF Recorded
  <2> QED
    BY <1>1, <1>3, <2>1, EmitCases
<1>5. /\ t \in Nat /\ t >= 1 /\ DOMAIN todo = 1..t /\ DOMAIN rest = 1..(t - 1)
      /\ \A k \in 1..(t - 1) : k + 1 \in 1..t /\ rest[k] = todo[k + 1]
      /\ Step = todo[1]
  <2>1. rest = Tail(todo) /\ Step = todo[1]
    BY <1>3 DEF Emit, Step
  <2> HIDE DEF Requests, rest
  <2> QED
    BY <1>1, <1>2, <2>1
<1>6. \A k \in 1..r : recs[k].key[3] \in PartsOf(Step.ask)
  BY <1>3, <1>4 DEF Recorded
<1>7. \A j, k \in 1..r : j < k => PartNo[recs[j].key[3]] < PartNo[recs[k].key[3]]
  BY <1>3, <1>4 DEF Recorded
<1>8. (\A k \in 1..r : ~recs[k].err) =>
         \A p \in PartsOf(Step.ask) : \E k \in 1..r : recs[k].key[3] = p
  BY <1>3, <1>4 DEF Recorded
<1> HIDE DEF all, rest, n, r, t
<1>9. /\ \A k \in 1..t : todo[k] \in Asks(sel)
      /\ \A i, j \in 1..t : i < j => Before(todo[i], todo[j])
      /\ \A i \in 1..n : /\ cases[i].asked \in Asks(sel)
                         /\ cases[i].key[3] \in PartsOf(cases[i].asked.ask)
      /\ \A i, j \in 1..n : i < j => Earlier(cases[i], cases[j])
      /\ \A i \in 1..n, k \in 1..t : Before(cases[i].asked, todo[k])
      /\ (\A i \in 1..n : ~cases[i].err) =>
            \A a \in Asks(sel) :
               \/ \E k \in 1..t : todo[k] = a
               \/ \A p \in PartsOf(a.ask) :
                     \E i \in 1..n : cases[i].asked = a /\ cases[i].key[3] = p
  <2>1. /\ \A k \in DOMAIN todo : todo[k] \in Asks(sel)
        /\ \A i, j \in DOMAIN todo : i < j => Before(todo[i], todo[j])
        /\ \A i \in DOMAIN cases : /\ cases[i].asked \in Asks(sel)
                                   /\ cases[i].key[3] \in PartsOf(cases[i].asked.ask)
        /\ \A i, j \in DOMAIN cases : i < j => Earlier(cases[i], cases[j])
        /\ \A i \in DOMAIN cases, k \in DOMAIN todo : Before(cases[i].asked, todo[k])
    BY Zenon DEF Follows
  <2>2. (\A i \in DOMAIN cases : ~cases[i].err) =>
            \A a \in Asks(sel) :
               \/ \E k \in DOMAIN todo : todo[k] = a
               \/ \A p \in PartsOf(a.ask) :
                     \E i \in DOMAIN cases : cases[i].asked = a /\ cases[i].key[3] = p
    BY Zenon DEF Follows
  <2>3. DOMAIN todo = 1..t /\ DOMAIN cases = 1..n
    BY <1>4, <1>5
  <2>4. /\ \A k \in 1..t : todo[k] \in Asks(sel)
        /\ \A i, j \in 1..t : i < j => Before(todo[i], todo[j])
        /\ \A i \in 1..n : /\ cases[i].asked \in Asks(sel)
                           /\ cases[i].key[3] \in PartsOf(cases[i].asked.ask)
        /\ \A i, j \in 1..n : i < j => Earlier(cases[i], cases[j])
        /\ \A i \in 1..n, k \in 1..t : Before(cases[i].asked, todo[k])
    BY <2>1, <2>3
  <2>5. (\A i \in 1..n : ~cases[i].err) =>
            \A a \in Asks(sel) :
               \/ \E k \in 1..t : todo[k] = a
               \/ \A p \in PartsOf(a.ask) :
                     \E i \in 1..n : cases[i].asked = a /\ cases[i].key[3] = p
    BY <2>2, <2>3
  <2> QED
    BY <2>4, <2>5
<1>10. 1 \in 1..t /\ Step \in Asks(sel)
  BY <1>5, <1>9
<1>11. \A k \in DOMAIN rest : rest[k] \in Asks(sel)
  BY <1>5, <1>9
<1>12. ASSUME NEW i \in DOMAIN rest, NEW j \in DOMAIN rest, i < j PROVE Before(rest[i], rest[j])
  <2>1. i + 1 \in 1..t /\ j + 1 \in 1..t /\ i + 1 < j + 1
    BY <1>5, <1>12
  <2>2. rest[i] = todo[i + 1] /\ rest[j] = todo[j + 1]
    BY <1>5
  <2> QED
    BY <1>9, <2>1, <2>2
<1>13. \A i \in DOMAIN all : /\ all[i].asked \in Asks(sel)
                             /\ all[i].key[3] \in PartsOf(all[i].asked.ask)
  <2> TAKE i \in DOMAIN all
  <2>1. CASE i \in 1..n
    BY <1>4, <1>9, <2>1
  <2>2. CASE i \notin 1..n
    BY <1>4, <1>6, <1>10, <2>2
  <2> QED
    BY <2>1, <2>2
<1>14. ASSUME NEW i \in DOMAIN all, NEW j \in DOMAIN all, i < j PROVE Earlier(all[i], all[j])
  <2>1. CASE j \in 1..n
    <3>1. i \in 1..n
      BY <1>4, <1>14, <2>1
    <3> QED
      BY <1>4, <1>9, <1>14, <2>1, <3>1
  <2>2. CASE j \notin 1..n /\ i \in 1..n
    <3>1. all[i] = cases[i] /\ all[j].asked = todo[1]
      BY <1>4, <1>5, <2>2
    <3>2. Before(cases[i].asked, todo[1])
      BY <1>9, <1>10, <2>2
    <3> QED
      BY <3>1, <3>2 DEF Earlier
  <2>3. CASE j \notin 1..n /\ i \notin 1..n
    <3>1. i - n \in 1..r /\ j - n \in 1..r /\ i - n < j - n
      BY <1>4, <1>14, <2>3
    <3>2. PartNo[recs[i - n].key[3]] < PartNo[recs[j - n].key[3]]
      BY <1>7, <3>1
    <3>3. all[i].asked = all[j].asked /\ PartNo[all[i].key[3]] < PartNo[all[j].key[3]]
      BY <1>4, <2>3, <3>2
    <3> QED
      BY <3>3 DEF Earlier
  <2> QED
    BY <2>1, <2>2, <2>3
<1>15. ASSUME NEW i \in DOMAIN all, NEW k \in DOMAIN rest PROVE Before(all[i].asked, rest[k])
  <2>1. k + 1 \in 1..t /\ rest[k] = todo[k + 1] /\ 1 < k + 1
    BY <1>5
  <2>2. CASE i \in 1..n
    BY <1>4, <1>9, <2>1, <2>2
  <2>3. CASE i \notin 1..n
    <3>1. all[i].asked = todo[1]
      BY <1>4, <1>5, <2>3
    <3>2. Before(todo[1], todo[k + 1])
      BY <1>9, <1>10, <2>1
    <3> QED
      BY <2>1, <3>1, <3>2
  <2> QED
    BY <2>2, <2>3
<1>16. ASSUME \A i \in DOMAIN all : ~all[i].err, NEW a \in Asks(sel)
       PROVE  \/ \E k \in DOMAIN rest : rest[k] = a
              \/ \A p \in PartsOf(a.ask) :
                    \E i \in DOMAIN all : all[i].asked = a /\ all[i].key[3] = p
  <2>1. \A i \in 1..n : ~cases[i].err
    BY <1>4, <1>16
  <2>2. \A k \in 1..r : n + k \in 1..(n + r) /\ n + k \notin 1..n /\ (n + k) - n = k
    BY <1>4
  <2>3. \A k \in 1..r : /\ n + k \in DOMAIN all /\ all[n + k].asked = Step
                        /\ all[n + k].err = recs[k].err /\ all[n + k].key[3] = recs[k].key[3]
    BY <1>4, <2>2
  <2>4. \A k \in 1..r : ~recs[k].err
    BY <1>16, <2>3
  <2>5. CASE \E k \in 1..t : todo[k] = a
    <3>1. PICK k \in 1..t : todo[k] = a
      BY <2>5
    <3>2. CASE k = 1
      <4>1. a = Step
        BY <1>5, <3>1, <3>2
      <4>2. ASSUME NEW p \in PartsOf(a.ask)
            PROVE  \E i \in DOMAIN all : all[i].asked = a /\ all[i].key[3] = p
        <5>1. PICK l \in 1..r : recs[l].key[3] = p
          BY <1>8, <2>4, <4>1, <4>2
        <5> QED
          BY <2>3, <4>1, <5>1
      <4> QED
        BY <4>2
    <3>3. CASE k # 1
      <4>1. k - 1 \in 1..(t - 1) /\ (k - 1) + 1 = k
        BY <1>5, <3>3
      <4>2. k - 1 \in DOMAIN rest /\ rest[k - 1] = todo[k]
        BY <1>5, <4>1
      <4> QED
        BY <3>1, <4>2
    <3> QED
      BY <3>2, <3>3
  <2>6. CASE \A p \in PartsOf(a.ask) :
                \E i \in 1..n : cases[i].asked = a /\ cases[i].key[3] = p
    <3>1. ASSUME NEW p \in PartsOf(a.ask)
          PROVE  \E i \in DOMAIN all : all[i].asked = a /\ all[i].key[3] = p
      <4>1. PICK i \in 1..n : cases[i].asked = a /\ cases[i].key[3] = p
        BY <2>6, <3>1
      <4> QED
        BY <1>4, <4>1
    <3> QED
      BY <3>1
  <2> QED
    BY <1>9, <2>1, <2>5, <2>6
<1>17. Follows(all, rest, sel)
  BY <1>11, <1>12, <1>13, <1>14, <1>15, <1>16, Zenon DEF Follows
<1> QED
  BY <1>17 DEF all, rest

\* A cleanup is asked and not recorded.
LEMMA FollowsCleanup ==
    ASSUME CoreInv, Cleanup, NEW sel, Follows(cases, todo, sel)
    PROVE  Follows(cases', todo', sel)
<1> DEFINE rest == todo'
           t == Len(todo)
<1>1. /\ t \in Nat /\ t >= 1 /\ DOMAIN todo = 1..t /\ DOMAIN rest = 1..(t - 1)
      /\ \A k \in 1..(t - 1) : k + 1 \in 1..t /\ rest[k] = todo[k + 1]
      /\ todo[1].ask = "cleanup"
  <2>1. rest = Tail(todo) /\ todo # <<>> /\ todo[1].ask = "cleanup"
    BY DEF Cleanup, Ask
  <2>2. todo \in Seq(Requests)
    BY DEF CoreInv, TypeOK
  <2> HIDE DEF Requests, rest
  <2> QED
    BY <2>1, <2>2
<1>2. cases' = cases
  BY DEF Cleanup
<1> HIDE DEF rest, t
<1>3. \A k \in DOMAIN rest : rest[k] \in Asks(sel)
  BY <1>1 DEF Follows
<1>4. ASSUME NEW i \in DOMAIN rest, NEW j \in DOMAIN rest, i < j PROVE Before(rest[i], rest[j])
  <2>1. i + 1 \in 1..t /\ j + 1 \in 1..t /\ i + 1 < j + 1
    BY <1>1, <1>4
  <2>2. rest[i] = todo[i + 1] /\ rest[j] = todo[j + 1]
    BY <1>1
  <2> QED
    BY <1>1, <2>1, <2>2 DEF Follows
<1>5. ASSUME NEW i \in DOMAIN cases, NEW k \in DOMAIN rest
      PROVE  Before(cases[i].asked, rest[k])
  BY <1>1 DEF Follows
<1>6. ASSUME \A i \in DOMAIN cases : ~cases[i].err, NEW a \in Asks(sel)
      PROVE  \/ \E k \in DOMAIN rest : rest[k] = a
             \/ \A p \in PartsOf(a.ask) :
                   \E i \in DOMAIN cases : cases[i].asked = a /\ cases[i].key[3] = p
  <2>1. CASE \E k \in DOMAIN todo : todo[k] = a
    <3>1. PICK k \in 1..t : todo[k] = a
      BY <1>1, <2>1
    <3>2. CASE k = 1
      BY <1>1, <3>1, <3>2 DEF PartsOf
    <3>3. CASE k # 1
      <4>1. k - 1 \in 1..(t - 1) /\ (k - 1) + 1 = k
        BY <1>1, <3>3
      <4>2. k - 1 \in DOMAIN rest /\ rest[k - 1] = todo[k]
        BY <1>1, <4>1
      <4> QED
        BY <3>1, <4>2
    <3> QED
      BY <3>2, <3>3
  <2>2. CASE ~\E k \in DOMAIN todo : todo[k] = a
    BY <1>6, <2>2 DEF Follows
  <2> QED
    BY <2>1, <2>2
<1>7. /\ \A i \in DOMAIN cases : /\ cases[i].asked \in Asks(sel)
                                 /\ cases[i].key[3] \in PartsOf(cases[i].asked.ask)
      /\ \A i, j \in DOMAIN cases : i < j => Earlier(cases[i], cases[j])
  BY DEF Follows
<1>8. Follows(cases, rest, sel)
  BY <1>3, <1>4, <1>5, <1>6, <1>7, Zenon DEF Follows
<1> QED
  BY <1>2, <1>8 DEF rest

\* A report that was dumped.
Listed(report) == Copies(report) /\ Whole(report)

\* Every report is one of a selection, in order, with its copies counted.
OrderInv ==
    /\ Copies(cases)
    /\ pc = "run" => \E sel \in Selections : Follows(cases, todo, sel)
    /\ pc = "exit" => Whole(cases)
    /\ \A f \in DOMAIN files : Listed(files[f])
    /\ expect = NoReport \/ Listed(expect)

\* A run begins with nothing recorded and the whole program to ask.
LEMMA FollowsStart == \A sel : Follows(<<>>, Program(sel), sel)
<1> SUFFICES ASSUME NEW sel PROVE Follows(<<>>, Program(sel), sel)
  OBVIOUS
<1> DEFINE list == Program(sel)
<1>1. /\ \A k \in DOMAIN list : list[k] \in Asks(sel)
      /\ \A k, l \in DOMAIN list : k < l => Before(list[k], list[l])
      /\ \A r \in Asks(sel) : \E k \in DOMAIN list : list[k] = r
  BY ProgramUpto
<1> HIDE DEF list
<1>2. DOMAIN <<>> = {}
  OBVIOUS
<1>3. Follows(<<>>, list, sel)
  BY <1>1, <1>2, Zenon DEF Follows
<1> QED
  BY <1>3 DEF list

\* The order is kept by every step.
LEMMA OrderNext == ASSUME CoreInv, OrderInv, [Next]_vars PROVE OrderInv'
<1>1. /\ Copies(cases)
      /\ pc = "run" => \E sel \in Selections : Follows(cases, todo, sel)
      /\ pc = "exit" => Whole(cases)
      /\ \A f \in DOMAIN files : Listed(files[f])
      /\ expect = NoReport \/ Listed(expect)
  BY DEF OrderInv
<1>2. ASSUME Emitting PROVE OrderInv'
  <2>1. WellMade(cases) /\ TypeOK
    BY DEF CoreInv, Reports
  <2>2. PICK recs : Emit(recs) /\ Recorded(Step, recs)
    BY <1>2, <2>1, EmittingRecords
  <2>3. pc = "run" /\ UNCHANGED <<pc, expect, files>>
    BY <1>2, <2>1, <2>2, EmittingRecords DEF Emit
  <2>4. Copies(cases')
    BY <1>1, <2>1, <2>2, EmitCopies
  <2>5. PICK sel \in Selections : Follows(cases, todo, sel)
    BY <1>1, <2>3
  <2>6. Follows(cases', todo', sel)
    BY <1>2, <2>5, FollowsEmit
  <2> QED
    BY <1>1, <2>3, <2>4, <2>6 DEF OrderInv
<1>3. ASSUME NEW b \in Backends, NEW sel \in Selections,
             NEW oracle \in {NoReport} \cup {files[f] : f \in DOMAIN files},
             StartRun(b, sel, oracle)
      PROVE  OrderInv'
  <2>1. /\ pc' = "run" /\ todo' = Program(sel) /\ cases' = <<>> /\ expect' = oracle
        /\ files' = files
    BY <1>3 DEF StartRun
  <2>2. Follows(cases', todo', sel)
    BY <2>1, FollowsStart
  <2>3. Copies(cases')
    <3>1. DOMAIN cases' = {}
      BY <2>1
    <3> QED
      BY <3>1 DEF Copies
  <2>4. expect' = NoReport \/ Listed(expect')
    BY <1>1, <2>1
  <2> QED
    BY <1>1, <2>1, <2>2, <2>3, <2>4 DEF OrderInv
<1>4. CASE Cleanup
  <2>1. pc = "run" /\ UNCHANGED <<pc, cases, expect, files>>
    BY <1>4 DEF Cleanup, Ask
  <2>2. PICK sel \in Selections : Follows(cases, todo, sel)
    BY <1>1, <2>1
  <2>3. Follows(cases', todo', sel)
    BY <1>4, <2>2, FollowsCleanup
  <2> QED
    BY <1>1, <2>1, <2>3 DEF OrderInv
<1>5. CASE Dump
  <2>1. /\ pc = "run" /\ pc' = "exit" /\ todo = <<>> /\ UNCHANGED <<cases, expect>>
        /\ files' \in {files, Append(files, cases)}
    BY <1>5 DEF Dump
  <2>2. Whole(cases)
    BY <1>1, <2>1 DEF Whole
  <2>3. \A f \in DOMAIN files' : Listed(files'[f])
    <3>1. files \in Seq(ToSet(files))
      BY DEF CoreInv, TypeOK
    <3>2. \A f \in DOMAIN files' : \/ f \in DOMAIN files /\ files'[f] = files[f]
                                   \/ files'[f] = cases
      <4> DEFINE S == ToSet(files)
                 more == Append(files, cases)
      <4>1. \A f \in DOMAIN more : \/ f \in DOMAIN files /\ more[f] = files[f]
                                   \/ more[f] = cases
        <5> HIDE DEF S
        <5> QED
          BY <3>1
      <4> HIDE DEF more
      <4>2. files' = files \/ files' = more
        BY <2>1 DEF more
      <4> QED
        BY <4>1, <4>2
    <3> QED
      BY <1>1, <2>2, <3>2 DEF Listed
  <2> QED
    BY <1>1, <2>1, <2>2, <2>3 DEF OrderInv
<1>6. CASE Exit
  BY <1>1, <1>6 DEF Exit, OrderInv
<1>7. CASE Killed
  BY <1>1, <1>7 DEF Killed, OrderInv
<1>8. ASSUME NEW b \in Backends, LateCommit(b) PROVE OrderInv'
  BY <1>1, <1>8 DEF LateCommit, run, OrderInv
<1>9. CASE UNCHANGED vars
  BY <1>1, <1>9 DEF vars, run, OrderInv
<1> QED
  BY <1>2, <1>3, <1>4, <1>5, <1>6, <1>7, <1>8, <1>9 DEF Next, RunStep, Emitting

\* What holds of the reports in every state.
LEMMA OrderAlways == Spec => [](CoreInv /\ OrderInv)
<1>1. Init => OrderInv
  <2> SUFFICES ASSUME Init PROVE OrderInv
    OBVIOUS
  <2>1. cases = <<>> /\ files = <<>> /\ expect = NoReport /\ pc = "idle"
    BY DEF Init
  <2>2. DOMAIN cases = {} /\ DOMAIN files = {}
    BY <2>1
  <2> QED
    BY <2>1, <2>2 DEF OrderInv, Copies
<1>2. CoreInv /\ OrderInv /\ [Next]_vars => (CoreInv /\ OrderInv)'
  BY CoreNext, OrderNext
<1> QED
  BY CoreInit, <1>1, <1>2, PTL DEF Spec

\* Nothing but OK in a comparison: the two reports have the same keys, no error,
\* and the same answer under each key.
LEMMA CleanFacts ==
    ASSUME NEW O, WellMade(O), NEW T, WellMade(T), Clean(O, T)
    PROVE  /\ Keys(O) = Keys(T)
           /\ \A i \in DOMAIN O, j \in DOMAIN T : O[i].key = T[j].key =>
                 ~O[i].err /\ ~T[j].err /\ O[i].ids = T[j].ids /\ O[i].n = T[j].n
<1>1. /\ Len(O) \in Nat /\ DOMAIN O = 1..Len(O) /\ Len(T) \in Nat /\ DOMAIN T = 1..Len(T)
  BY DEF WellMade
<1>2. \A n \in Nat : \A S : S \subseteq 1..n /\ Cardinality(S) = 0 => S = {}
  BY CountOf, FS_EmptySet
<1>3. \A i \in DOMAIN O : O[i].key \in Keys(T)
  <2> DEFINE S == {i \in DOMAIN O : O[i].key \notin Keys(T)}
  <2>1. "MISSING" \in Classes \cup {"MISSING"} /\ "MISSING" # "OK" /\ "MISSING" # "NEW"
    BY DEF Classes
  <2>2. Compared(O, T)["MISSING"] = Cardinality(S)
    BY <2>1 DEF Compared
  <2>3. Cardinality(S) = 0
    BY <2>1, <2>2 DEF Clean
  <2>4. S = {}
    BY <1>1, <1>2, <2>3
  <2> QED
    BY <2>4
<1>4. \A j \in DOMAIN T : T[j].key \in Keys(O)
  <2> DEFINE S == {j \in DOMAIN T : T[j].key \notin Keys(O)}
  <2>1. "NEW" \in Classes \cup {"MISSING"} /\ "NEW" # "OK"
    BY DEF Classes
  <2>2. Compared(O, T)["NEW"] = Cardinality(S)
    BY <2>1 DEF Compared
  <2>3. Cardinality(S) = 0
    BY <2>1, <2>2 DEF Clean
  <2>4. S = {}
    BY <1>1, <1>2, <2>3
  <2> QED
    BY <2>4
<1>5. Keys(O) = Keys(T)
  BY <1>3, <1>4 DEF Keys
<1>6. ASSUME NEW i \in DOMAIN O PROVE Classify(O[i], Entry(T, O[i].key)) = "OK"
  <2> DEFINE c == Classify(O[i], Entry(T, O[i].key))
  <2>1. c \in Classes \ {"NEW"}
    BY ClassifyRange
  <2>2. SUFFICES ASSUME c # "OK" PROVE FALSE
    OBVIOUS
  <2> HIDE DEF c
  <2> DEFINE S == {k \in DOMAIN O : /\ O[k].key \in Keys(T)
                                    /\ Classify(O[k], Entry(T, O[k].key)) = c}
  <2>3. c \in Classes \cup {"MISSING"} /\ c # "NEW" /\ c # "MISSING"
    BY <2>1 DEF Classes
  <2>4. Compared(O, T)[c] = Cardinality(S)
    BY <2>3 DEF Compared
  <2>5. Cardinality(S) = 0
    BY <2>2, <2>3, <2>4 DEF Clean
  <2>6. S = {}
    BY <1>1, <1>2, <2>5
  <2>7. i \in S
    BY <1>3 DEF c
  <2> QED
    BY <2>6, <2>7
<1>7. ASSUME NEW i \in DOMAIN O, NEW j \in DOMAIN T, O[i].key = T[j].key
      PROVE  ~O[i].err /\ ~T[j].err /\ O[i].ids = T[j].ids /\ O[i].n = T[j].n
  <2>1. Entry(T, O[i].key) = T[j]
    BY <1>7, OneEntry
  <2>2. Classify(O[i], T[j]) = "OK"
    BY <1>6, <2>1
  <2> DEFINE o == O[i]
             t == T[j]
  <2> HIDE DEF o, t
  <2>3. Classify(o, t) = "OK" => ~o.err /\ ~t.err /\ SameSet(o, t)
    BY Zenon DEF Classify
  <2>4. SameSet(o, t) => o.ids = t.ids /\ o.n = t.n
    BY DEF SameSet
  <2> QED
    BY <2>2, <2>3, <2>4 DEF o, t
<1> QED
  BY <1>5, <1>7

\* Two cases of the same request and the same part.
Like(c, d) == c.asked = d.asked /\ c.key[3] = d.key[3]

\* The cases of a report come in the order of their requests and parts.
Ranked(report, sel) ==
    /\ Len(report) \in Nat /\ DOMAIN report = 1..Len(report)
    /\ \A i \in 1..Len(report) : /\ report[i].asked \in Asks(sel)
                                 /\ report[i].key[3] \in PartsOf(report[i].asked.ask)
    /\ \A i, j \in 1..Len(report) : i < j => Earlier(report[i], report[j])

\* Every case of a report has one like it in the other.
Covers(O, T) == \A i \in 1..Len(O) : \E j \in 1..Len(T) : Like(O[i], T[j])

\* The order does not tell two cases of the same request and part apart.
LEMMA EarlierLike ==
    \A a, b, c, d : Like(a, c) /\ Like(b, d) /\ Earlier(a, b) => Earlier(c, d)
  BY DEF Like, Earlier

\* Ranked reports of the same requests and parts have them at the same places.
LEMMA SortedSame ==
    ASSUME NEW sel, NEW O, NEW T, Ranked(O, sel), Ranked(T, sel), Covers(O, T), Covers(T, O)
    PROVE  \A i \in 1..Len(O) : i \in 1..Len(T) /\ Like(O[i], T[i])
<1> DEFINE P == {k \in Nat : k <= Len(O) =>
                    \A i \in 1..k : i \in 1..Len(T) /\ Like(O[i], T[i])}
<1>1. Len(O) \in Nat /\ Len(T) \in Nat
  BY DEF Ranked
<1>2. \A i, j \in 1..Len(O) : i < j =>
         Earlier(O[i], O[j]) /\ ~Like(O[i], O[j]) /\ ~Earlier(O[j], O[i])
  <2> SUFFICES ASSUME NEW i \in 1..Len(O), NEW j \in 1..Len(O), i < j
               PROVE  Earlier(O[i], O[j]) /\ ~Like(O[i], O[j]) /\ ~Earlier(O[j], O[i])
    OBVIOUS
  <2> DEFINE c == O[i]
             d == O[j]
  <2>1. /\ c.asked \in Asks(sel) /\ c.key[3] \in PartsOf(c.asked.ask)
        /\ d.asked \in Asks(sel) /\ d.key[3] \in PartsOf(d.asked.ask) /\ Earlier(c, d)
    BY DEF Ranked
  <2> HIDE DEF c, d
  <2>2. ~Like(c, d) /\ ~Earlier(d, c)
    BY <2>1, EarlierOrder DEF Like
  <2> QED
    BY <2>1, <2>2 DEF c, d
<1>3. \A i, j \in 1..Len(T) : i < j => Earlier(T[i], T[j])
  BY DEF Ranked
<1>4. /\ \A a, b : Like(a, b) => Like(b, a)
      /\ \A a, b, c : Like(a, b) /\ Like(b, c) => Like(a, c)
  BY DEF Like
<1>5. 0 \in P
  OBVIOUS
<1>6. ASSUME NEW k \in Nat, k \in P PROVE k + 1 \in P
  <2> SUFFICES ASSUME k + 1 <= Len(O)
               PROVE  k + 1 \in 1..Len(T) /\ Like(O[k + 1], T[k + 1])
    BY <1>6, <1>1
  <2>1. \A i \in 1..k : i \in 1..Len(O) /\ i \in 1..Len(T) /\ Like(O[i], T[i])
    BY <1>1, <1>6
  <2>2. k + 1 \in 1..Len(O)
    BY <1>1
  <2>3. PICK j \in 1..Len(T) : Like(O[k + 1], T[j])
    BY <2>2 DEF Covers
  <2>4. ~(j <= k)
    <3> SUFFICES ASSUME j <= k PROVE FALSE
      OBVIOUS
    <3>1. j \in 1..k /\ j < k + 1
      BY <1>1
    <3>2. Like(O[j], O[k + 1])
      BY <1>4, <2>1, <2>3, <3>1
    <3> QED
      BY <1>2, <2>1, <2>2, <3>1, <3>2
  <2>5. k + 1 \in 1..Len(T) /\ k + 1 <= j
    BY <1>1, <2>4
  <2>6. PICK m \in 1..Len(O) : Like(T[k + 1], O[m])
    BY <2>5 DEF Covers
  <2>7. ~(k + 1 < j)
    <3> SUFFICES ASSUME k + 1 < j PROVE FALSE
      OBVIOUS
    <3>1. Earlier(T[k + 1], T[j])
      BY <1>3, <2>5
    <3>2. Earlier(O[m], O[k + 1])
      BY <1>4, <2>3, <2>6, <3>1, EarlierLike
    <3>3. CASE m <= k
      <4>1. m \in 1..k
        BY <1>1, <3>3
      <4>2. Like(O[m], T[m]) /\ m \in 1..Len(T)
        BY <2>1, <4>1
      <4>3. Like(T[m], T[k + 1])
        BY <1>4, <2>6, <4>2
      <4>4. Earlier(T[m], T[k + 1])
        BY <1>1, <1>3, <2>5, <3>3, <4>2
      <4>5. Like(T[m], O[m]) /\ Like(T[k + 1], O[m])
        BY <1>4, <2>6, <4>2
      <4>6. Earlier(O[m], O[m])
        BY <4>4, <4>5, EarlierLike
      <4>7. Like(O[m], O[m])
        BY <1>4, <4>2
      <4> DEFINE c == O[m]
      <4>8. c.asked \in Asks(sel) /\ c.key[3] \in PartsOf(c.asked.ask) /\ Earlier(c, c)
        BY <4>6 DEF Ranked
      <4> HIDE DEF c
      <4> QED
        BY <4>8, EarlierOrder
    <3>4. CASE ~(m <= k) /\ m # k + 1
      <4>1. k + 1 < m
        BY <1>1, <3>4
      <4> QED
        BY <1>2, <2>2, <3>2, <4>1
    <3>5. CASE m = k + 1
      <4> DEFINE c == O[k + 1]
      <4>1. c.asked \in Asks(sel) /\ c.key[3] \in PartsOf(c.asked.ask) /\ Earlier(c, c)
        BY <2>2, <3>2, <3>5 DEF Ranked
      <4> HIDE DEF c
      <4> QED
        BY <4>1, EarlierOrder
    <3> QED
      BY <3>3, <3>4, <3>5
  <2>8. j = k + 1
    BY <1>1, <2>5, <2>7
  <2> QED
    BY <2>3, <2>5, <2>8
<1> HIDE DEF P
<1>7. Len(O) \in P
  BY <1>1, <1>5, <1>6, SetInduction
<1> QED
  BY <1>1, <1>7 DEF P

\* A case of one whole report is in the other when the keys are the same and
\* nothing failed: its key names its section, a section is asked as a whole, and
\* what is asked is recorded with all its parts.
LEMMA ItemsCovered ==
    ASSUME NEW O, WellMade(O), NEW sel, Follows(O, <<>>, sel),
           NEW T, WellMade(T), NEW other, Follows(T, <<>>, other),
           Keys(O) \subseteq Keys(T), \A j \in DOMAIN T : ~T[j].err
    PROVE  Covers(O, T) /\ \A i \in 1..Len(O) : O[i].asked \in Asks(other)
<1>1. DOMAIN O = 1..Len(O) /\ DOMAIN T = 1..Len(T)
  BY DEF WellMade
<1>2. ASSUME NEW i \in DOMAIN O
      PROVE  /\ O[i].asked \in Asks(other)
             /\ \E j \in DOMAIN T : Like(O[i], T[j])
  <2> DEFINE c == O[i]
  <2>1. PICK j \in DOMAIN T : c.key = T[j].key
    BY DEF Keys
  <2>2. c.key[1] = c.asked.sec
    BY DEF WellMade
  <2>3. T[j].key[1] = T[j].asked.sec
    BY DEF WellMade
  <2>4. c.asked \in Asks(sel) /\ c.key[3] \in PartsOf(c.asked.ask)
    BY DEF Follows
  <2>5. T[j].asked \in Asks(other)
    BY DEF Follows
  <2> HIDE DEF c
  <2>6. PICK a \in DOMAIN Order : /\ Order[a] \in sel
           /\ \E m \in DOMAIN Steps[Order[a]] : c.asked = Request(Order[a], m)
    BY <2>4, AsksFacts
  <2>7. PICK b \in DOMAIN Order : /\ Order[b] \in other
           /\ \E m \in DOMAIN Steps[Order[b]] : T[j].asked = Request(Order[b], m)
    BY <2>5, AsksFacts
  <2>8. c.asked.sec = Order[a] /\ T[j].asked.sec = Order[b]
    BY <2>6, <2>7 DEF Request
  <2>9. Order[a] = Order[b]
    BY <2>1, <2>2, <2>3, <2>8
  <2>10. c.asked \in Asks(other)
    BY <2>6, <2>7, <2>9, AsksFacts
  <2>11. \A x \in Asks(other) :
            \/ \E k \in DOMAIN <<>> : <<>>[k] = x
            \/ \A p \in PartsOf(x.ask) :
                  \E k \in DOMAIN T : T[k].asked = x /\ T[k].key[3] = p
    BY Zenon DEF Follows
  <2>12. DOMAIN <<>> = {}
    OBVIOUS
  <2>13. \A p \in PartsOf(c.asked.ask) :
            \E k \in DOMAIN T : T[k].asked = c.asked /\ T[k].key[3] = p
    BY <2>10, <2>11, <2>12
  <2>14. PICK k \in DOMAIN T : T[k].asked = c.asked /\ T[k].key[3] = c.key[3]
    BY <2>4, <2>13
  <2>15. Like(c, T[k])
    BY <2>14 DEF Like
  <2> QED
    BY <2>10, <2>15 DEF c
<1> QED
  BY <1>1, <1>2 DEF Covers

\* A whole report is ranked, in every selection that has its requests.
LEMMA WholeRanked ==
    ASSUME NEW O, WellMade(O), NEW sel, Follows(O, <<>>, sel),
           NEW other, \A i \in 1..Len(O) : O[i].asked \in Asks(other)
    PROVE  Ranked(O, other)
<1>1. DOMAIN O = 1..Len(O) /\ Len(O) \in Nat
  BY DEF WellMade
<1>2. \A i \in DOMAIN O : O[i].key[3] \in PartsOf(O[i].asked.ask)
  BY DEF Follows
<1>3. \A i, j \in DOMAIN O : i < j => Earlier(O[i], O[j])
  BY DEF Follows
<1>4. /\ \A i \in 1..Len(O) : O[i].key[3] \in PartsOf(O[i].asked.ask)
      /\ \A i, j \in 1..Len(O) : i < j => Earlier(O[i], O[j])
  BY <1>1, <1>2, <1>3
<1> QED
  BY <1>1, <1>4 DEF Ranked

\* Alike at every place up to the k-th, and the same keys before it: the copy of
\* the one at k is taken from no earlier case of the other.
LEMMA CopiesAgree ==
    ASSUME NEW O, WellMade(O), NEW T, WellMade(T), Copies(T),
           NEW k \in Nat, k \in DOMAIN O, k \in DOMAIN T, Like(O[k], T[k]),
           \A i \in 1..k - 1 : O[i].key = T[i].key,
           O[k].key[4] \in Nat, O[k].key[4] > 0
    PROVE  T[k].key[4] <= O[k].key[4]
<1> DEFINE a == O[k].key[4]
           b == T[k].key[4]
<1>1. DOMAIN O = 1..Len(O) /\ Len(O) \in Nat
  BY DEF WellMade
<1>2. O[k].key = <<O[k].asked.sec, O[k].asked.name, O[k].key[3], a>>
  BY DEF WellMade
<1>3. T[k].key = <<T[k].asked.sec, T[k].asked.name, T[k].key[3], b>>
  BY DEF WellMade
<1>4. /\ b \in Nat
      /\ \A c \in 1..b - 1 : \E j \in 1..k - 1 :
            T[j].key = <<T[k].key[1], T[k].key[2], T[k].key[3], c>>
  BY DEF Copies
<1>5. O[k].asked = T[k].asked /\ O[k].key[3] = T[k].key[3]
  BY DEF Like
<1>6. /\ O[k].key = <<T[k].key[1], T[k].key[2], T[k].key[3], a>>
  <2>1. T[k].key[1] = T[k].asked.sec /\ T[k].key[2] = T[k].asked.name
    BY <1>3
  <2> QED
    BY <1>2, <1>5, <2>1
<1> HIDE DEF a, b
<1>7. a \in Nat /\ a > 0
  BY DEF a
<1>8. SUFFICES ASSUME a < b PROVE FALSE
  BY <1>4, <1>7 DEF a, b
<1>9. a \in 1..b - 1
  BY <1>4, <1>7, <1>8
<1>10. PICK j \in 1..k - 1 : T[j].key = <<T[k].key[1], T[k].key[2], T[k].key[3], a>>
  BY <1>4, <1>9
<1>11. O[j].key = O[k].key /\ j # k /\ j \in DOMAIN O
  BY <1>1, <1>6, <1>10
<1> QED
  BY <1>11 DEF WellMade

\* Reports alike at every place have the same keys at the same places.
LEMMA SameKeys ==
    ASSUME NEW O, WellMade(O), Copies(O), NEW T, WellMade(T), Copies(T),
           Len(O) = Len(T), \A i \in 1..Len(O) : Like(O[i], T[i])
    PROVE  \A i \in 1..Len(O) : O[i].key = T[i].key
<1>1. /\ Len(O) \in Nat /\ DOMAIN O = 1..Len(O) /\ DOMAIN T = 1..Len(O)
  BY DEF WellMade
<1> DEFINE P == {k \in Nat : \A i \in 1..k : i <= Len(O) => O[i].key = T[i].key}
<1>2. 0 \in P
  OBVIOUS
<1>3. ASSUME NEW k \in Nat, k \in P PROVE k + 1 \in P
  <2> DEFINE n == k + 1
  <2> SUFFICES ASSUME n <= Len(O) PROVE O[n].key = T[n].key
    BY <1>1, <1>3
  <2>1. n \in Nat /\ n \in DOMAIN O /\ n \in DOMAIN T /\ Like(O[n], T[n])
    BY <1>1
  <2>2. \A i \in 1..n - 1 : O[i].key = T[i].key
    BY <1>1, <1>3
  <2> HIDE DEF n
  <2>3. O[n].key[4] \in Nat /\ O[n].key[4] > 0 /\ T[n].key[4] \in Nat /\ T[n].key[4] > 0
    BY <2>1 DEF Copies
  <2>4. T[n].key[4] <= O[n].key[4]
    BY <2>1, <2>2, <2>3, CopiesAgree
  <2>5. Like(T[n], O[n]) /\ \A i \in 1..n - 1 : T[i].key = O[i].key
    BY <2>1, <2>2 DEF Like
  <2>6. O[n].key[4] <= T[n].key[4]
    BY <2>1, <2>3, <2>5, CopiesAgree
  <2>7. O[n].key[4] = T[n].key[4]
    BY <2>3, <2>4, <2>6
  <2>8. O[n].key = <<O[n].asked.sec, O[n].asked.name, O[n].key[3], O[n].key[4]>>
    BY <2>1 DEF WellMade
  <2>9. T[n].key = <<T[n].asked.sec, T[n].asked.name, T[n].key[3], T[n].key[4]>>
    BY <2>1 DEF WellMade
  <2> QED
    BY <2>1, <2>7, <2>8, <2>9 DEF Like
<1> HIDE DEF P
<1>4. Len(O) \in P
  BY <1>1, <1>2, <1>3, SetInduction
<1> QED
  BY <1>1, <1>4 DEF P

\* compare exits with 0 only for two runs that asked the same requests in the
\* same order and got the same answer to each: neither may have failed anywhere.
THEOREM CleanComparison == Spec => []CleanMeansSame
<1>1. CoreInv /\ OrderInv => CleanMeansSame
  <2> DEFINE O == expect
             T == cases
  <2> SUFFICES ASSUME CoreInv, OrderInv, pc = "exit", expect # NoReport, Clean(O, T)
               PROVE  /\ Len(O) = Len(T)
                      /\ \A i \in DOMAIN T : /\ T[i].asked = O[i].asked
                                             /\ ~T[i].err /\ ~O[i].err
                                             /\ T[i].ids = O[i].ids /\ T[i].n = O[i].n
    BY DEF CleanMeansSame
  <2>1. WellMade(O) /\ WellMade(T) /\ Copies(O) /\ Copies(T) /\ Whole(O) /\ Whole(T)
    BY DEF CoreInv, Reports, OrderInv, Listed
  <2> HIDE DEF O, T
  <2>2. /\ Len(O) \in Nat /\ DOMAIN O = 1..Len(O) /\ Len(T) \in Nat /\ DOMAIN T = 1..Len(T)
    BY <2>1 DEF WellMade
  <2>3. /\ Keys(O) = Keys(T)
        /\ \A i \in DOMAIN O, j \in DOMAIN T : O[i].key = T[j].key =>
              ~O[i].err /\ ~T[j].err /\ O[i].ids = T[j].ids /\ O[i].n = T[j].n
    BY <2>1, CleanFacts
  <2>4. \A i \in DOMAIN O : ~O[i].err
    <3> SUFFICES ASSUME NEW i \in DOMAIN O PROVE ~O[i].err
      OBVIOUS
    <3>1. \E j \in DOMAIN T : T[j].key = O[i].key
      BY <2>3 DEF Keys
    <3> QED
      BY <2>3, <3>1
  <2>5. \A j \in DOMAIN T : ~T[j].err
    <3> SUFFICES ASSUME NEW j \in DOMAIN T PROVE ~T[j].err
      OBVIOUS
    <3>1. \E i \in DOMAIN O : O[i].key = T[j].key
      BY <2>3 DEF Keys
    <3> QED
      BY <2>3, <3>1
  <2>6. PICK sel \in Selections : Follows(O, <<>>, sel)
    BY <2>1 DEF Whole
  <2>7. PICK other \in Selections : Follows(T, <<>>, other)
    BY <2>1 DEF Whole
  <2>8. Covers(O, T) /\ \A i \in 1..Len(O) : O[i].asked \in Asks(other)
    BY <2>1, <2>3, <2>5, <2>6, <2>7, ItemsCovered
  <2>9. Covers(T, O)
    BY <2>1, <2>3, <2>4, <2>6, <2>7, ItemsCovered
  <2>10. \A i \in 1..Len(T) : T[i].asked \in Asks(other)
    BY <2>2, <2>7 DEF Follows
  <2>11. Ranked(O, other) /\ Ranked(T, other)
    BY <2>1, <2>6, <2>7, <2>8, <2>10, WholeRanked
  <2>12. \A i \in 1..Len(O) : i \in 1..Len(T) /\ Like(O[i], T[i])
    BY <2>8, <2>9, <2>11, SortedSame
  <2>13. \A i \in 1..Len(T) : i \in 1..Len(O)
    BY <2>8, <2>9, <2>11, SortedSame
  <2>14. Len(O) = Len(T)
    <3>1. \A a, b \in Nat : (\A i \in 1..a : i \in 1..b) => a <= b
      <4> SUFFICES ASSUME NEW a \in Nat, NEW b \in Nat, \A i \in 1..a : i \in 1..b, ~(a <= b)
                   PROVE  FALSE
        OBVIOUS
      <4>1. a \in 1..a /\ a \notin 1..b
        OBVIOUS
      <4> QED
        BY <4>1
    <3>2. Len(O) <= Len(T) /\ Len(T) <= Len(O)
      <4>1. \A i \in 1..Len(O) : i \in 1..Len(T)
        BY <2>12
      <4> QED
        BY <2>2, <2>13, <3>1, <4>1
    <3>3. \A a, b \in Nat : a <= b /\ b <= a => a = b
      OBVIOUS
    <3>4. Len(O) \in Nat /\ Len(T) \in Nat
      BY <2>2
    <3> QED
      BY <3>2, <3>3, <3>4, Zenon
  <2>15. \A i \in 1..Len(O) : O[i].key = T[i].key
    BY <2>1, <2>12, <2>14, SameKeys
  <2>16. ASSUME NEW i \in DOMAIN T
         PROVE  /\ T[i].asked = O[i].asked /\ ~T[i].err /\ ~O[i].err
                /\ T[i].ids = O[i].ids /\ T[i].n = O[i].n
    <3>1. i \in 1..Len(O) /\ i \in DOMAIN O
      BY <2>2, <2>14
    <3>2. O[i].key = T[i].key /\ Like(O[i], T[i])
      BY <2>12, <2>15, <3>1
    <3>3. ~O[i].err /\ ~T[i].err /\ O[i].ids = T[i].ids /\ O[i].n = T[i].n
      BY <2>3, <3>1, <3>2
    <3> QED
      BY <3>2, <3>3 DEF Like
  <2> QED
    BY <2>14, <2>16
<1> QED
  BY OrderAlways, <1>1, PTL
============================================================================
