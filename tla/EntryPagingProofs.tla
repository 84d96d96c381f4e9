------------------------- MODULE EntryPagingProofs -------------------------
(***************************************************************************)
(* Proofs about EntryPaging for every table, batch size and page limit.    *)
(* PagingInv is inductive: it ties the position of the scan to what the    *)
(* page has emitted, and the listing the client relies on follows.         *)
(***************************************************************************)
EXTENDS EntryPaging, SequenceTheorems, TLAPS

\* A stretch followed by the stretch that starts where it ends is a stretch.
LEMMA RunConcat ==
    ASSUME NEW s \in Seq(1..Records), NEW t \in Seq(1..Records), NEW a \in Int,
           RunFrom(s, a), RunFrom(t, a + Len(s))
    PROVE  /\ RunFrom(s \o t, a) /\ s \o t \in Seq(1..Records)
           /\ Len(s \o t) = Len(s) + Len(t)
<1>1. Len(s \o t) = Len(s) + Len(t) /\ Len(s) \in Nat /\ Len(t) \in Nat
  OBVIOUS
<1>2. ASSUME NEW k \in 1..Len(s \o t)
      PROVE  (s \o t)[k] = a + k - 1
  <2>1. CASE k <= Len(s)
    <3>1. (s \o t)[k] = s[k]
      BY <1>1, <2>1
    <3> QED BY <3>1, <2>1, <1>1 DEF RunFrom
  <2>2. CASE k > Len(s)
    <3>1. (s \o t)[k] = t[k - Len(s)] /\ k - Len(s) \in 1..Len(t)
      BY <1>1, <2>2
    <3>2. t[k - Len(s)] = a + Len(s) + (k - Len(s)) - 1
      BY <3>1, <1>1 DEF RunFrom
    <3> QED BY <3>1, <3>2, <1>1
  <2> QED BY <2>1, <2>2, <1>1
<1> QED BY <1>1, <1>2 DEF RunFrom

\* One record more lengthens a stretch when it is the next one.
LEMMA RunAppend ==
    ASSUME NEW s \in Seq(1..Records), NEW a \in Int, RunFrom(s, a),
           NEW r \in 1..Records, r = a + Len(s)
    PROVE  /\ RunFrom(Append(s, r), a) /\ Append(s, r) \in Seq(1..Records)
           /\ Len(Append(s, r)) = Len(s) + 1
<1>1. Len(Append(s, r)) = Len(s) + 1 /\ Len(s) \in Nat
  OBVIOUS
<1>2. ASSUME NEW k \in 1..(Len(s) + 1)
      PROVE  Append(s, r)[k] = a + k - 1
  BY <1>1, <1>2 DEF RunFrom
<1> QED BY <1>1, <1>2 DEF RunFrom

\* A client that has asked for nothing satisfies the invariant.
LEMMA PagingInit == Init => PagingInv
BY RecordsAssumption, LimitsAssumption
   DEF Init, PagingInv, TypeOK, PageSoFar, ScanPosition, RunFrom, Scanned

\* What every step keeps: the query, and the arithmetic facts about it.
LEMMA QueryFacts ==
    ASSUME TypeOK
    PROVE  /\ Records \in Nat /\ Batch \in Nat \ {0} /\ MaxPages \in Nat
           /\ limit \in Nat \ {0} /\ page \in Int /\ read \in Int
           /\ position \in Int /\ count \in Nat /\ Len(current) \in Nat
           /\ Len(next) \in Nat /\ Len(reply) \in Nat /\ Len(seen) \in Nat
BY RecordsAssumption, LimitsAssumption DEF TypeOK

\* Every step of the scan and of the client preserves the invariant.
LEMMA PagingStep == PagingInv /\ [Next]_vars => PagingInv'
<1> SUFFICES ASSUME PagingInv, [Next]_vars PROVE PagingInv'
  OBVIOUS
<1>a. TypeOK /\ PageSoFar /\ ScanPosition
  BY DEF PagingInv
<1>b. /\ Records \in Nat /\ Batch \in Nat \ {0} /\ MaxPages \in Nat
      /\ limit \in Nat \ {0} /\ page \in Int /\ read \in Int
      /\ position \in Int /\ count \in Nat /\ Len(current) \in Nat
      /\ Len(next) \in Nat /\ Len(reply) \in Nat /\ Len(seen) \in Nat
  BY <1>a, QueryFacts
<1>1. CASE RequestPage
  <2>1. TypeOK'
    BY <1>1, <1>a DEF RequestPage, TypeOK, query
  <2>2. PageSoFar' /\ ScanPosition'
    BY <1>1, <1>a, <1>b DEF RequestPage, PageSoFar, ScanPosition, RunFrom, Scanned, query
  <2> QED BY <2>1, <2>2 DEF PagingInv
<1>2. CASE StartFetch
  <2>1. TypeOK'
    BY <1>2, <1>a DEF StartFetch, TypeOK, query
  <2>2. PageSoFar'
    BY <1>2, <1>a, <1>b DEF StartFetch, PageSoFar, ScanPosition, RunFrom, Scanned, query
  <2>3. ScanPosition'
    BY <1>2, <1>a, <1>b DEF StartFetch, PageSoFar, ScanPosition, Scanned, query
  <2> QED BY <2>1, <2>2, <2>3 DEF PagingInv
<1>3. CASE Exhausted
  <2>1. TypeOK'
    BY <1>3, <1>a DEF Exhausted, LookAtNext, TypeOK, query
  <2>2. PageSoFar'
    BY <1>3, <1>a DEF Exhausted, PageSoFar, RunFrom, Scanned, query
  <2>3. ScanPosition'
    BY <1>3, <1>a, <1>b DEF Exhausted, LookAtNext, TypeOK, ScanPosition, Scanned, query
  <2> QED BY <2>1, <2>2, <2>3 DEF PagingInv
<1>4. CASE OpenNextBatch \/ OpenNextEntry
  <2>1. /\ pc = "scan" /\ pc' = "emit" /\ read <= Records /\ current # <<>>
        /\ position' = read /\ read' = read + 1 /\ next' = <<read>>
        /\ UNCHANGED <<query, page, current, count, reply, seen, pages>>
    BY <1>4 DEF OpenNextBatch, OpenNextEntry, LookAtNext, BatchFull
  <2>2. read \in 1..Records /\ next' \in Seq(1..Records) /\ Len(next') = 1 /\ next'[1] = read
    BY <2>1, <1>a, <1>b DEF TypeOK
  <2>3. TypeOK'
    BY <2>1, <2>2, <1>a, <1>b DEF TypeOK, query
  <2>4. PageSoFar'
    <3>1. RunFrom(next', page + Scanned)
      BY <2>1, <2>2, <1>a, <1>b DEF ScanPosition, RunFrom
    <3> QED BY <2>1, <2>2, <3>1, <1>a DEF PageSoFar, RunFrom, Scanned, query
  <2>5. ScanPosition'
    BY <2>1, <2>2, <1>a, <1>b DEF ScanPosition, Scanned, query
  <2> QED BY <2>3, <2>4, <2>5 DEF PagingInv
<1>5. CASE MergeRecord
  <2>1. /\ pc = "scan" /\ read <= Records /\ position' = read /\ read' = read + 1
        /\ ~BatchFull
        /\ UNCHANGED <<query, page, next, count, reply, seen, pages>>
    BY <1>5 DEF MergeRecord, LookAtNext
  <2>2. read \in 1..Records /\ read = page + Scanned /\ next = <<>>
    BY <2>1, <1>a, <1>b DEF TypeOK, ScanPosition
  <2>3. CASE reachLimit(Scanned) /\ pc' = "emit" /\ current' = current
    <3>1. TypeOK'
      BY <2>1, <2>2, <2>3, <1>a, <1>b DEF TypeOK, query
    <3>2. PageSoFar'
      BY <2>1, <2>3, <1>a DEF PageSoFar, RunFrom, Scanned, query
    <3>3. Scanned = limit
      BY <2>1, <2>3, <1>a, <1>b DEF PageSoFar, Scanned, reachLimit
    <3>4. ScanPosition'
      BY <2>1, <2>2, <2>3, <3>3, <1>a, <1>b DEF ScanPosition, Scanned, query
    <3> QED BY <3>1, <3>2, <3>4 DEF PagingInv
  <2>4. CASE ~reachLimit(Scanned) /\ pc' = "scan" /\ current' = Append(current, read)
    <3>1. /\ RunFrom(current', page + count) /\ current' \in Seq(1..Records)
          /\ Len(current') = Len(current) + 1
      BY <2>1, <2>2, <2>4, <1>a, <1>b, RunAppend DEF PageSoFar, TypeOK, Scanned
    <3>2. TypeOK'
      BY <2>1, <2>2, <2>4, <3>1, <1>a, <1>b DEF TypeOK, query
    <3>3. Len(current') <= Batch
      <4>1. CASE current = <<>>
        BY <4>1, <3>1, <1>b
      <4>2. CASE current # <<>>
        BY <4>2, <2>1, <3>1, <1>b DEF BatchFull
      <4> QED BY <4>1, <4>2
    <3>4. PageSoFar'
      <4>1. /\ page = Len(seen) + 1 /\ RunFrom(seen, 1)
            /\ RunFrom(reply, page) /\ count = Len(reply)
        BY <2>1, <1>a DEF PageSoFar
      <4>2. UNCHANGED <<limit, page, next, count, reply, seen>> /\ pc' = "scan"
        BY <2>1, <2>4 DEF query
      <4>3. Scanned' = Scanned + 1 /\ Scanned < limit
        BY <3>1, <4>2, <2>4, <1>b DEF Scanned, reachLimit
      <4>4. Scanned' <= limit
        BY <4>3, <1>b DEF Scanned
      <4>5. next' = <<>> /\ Len(next') = 0
        BY <4>2, <2>2
      <4>6. RunFrom(next', page' + Scanned') /\ Len(next') <= 1
        BY <4>5 DEF RunFrom
      <4>7. RunFrom(seen, 1)' /\ RunFrom(reply, page)' /\ RunFrom(current, page + count)'
        BY <4>1, <4>2, <3>1, Zenon DEF RunFrom
      <4> QED BY <4>1, <4>2, <4>4, <4>6, <4>7, <3>3, Zenon DEF PageSoFar
    <3>5. ScanPosition'
      BY <2>1, <2>2, <2>4, <3>1, <1>a, <1>b DEF ScanPosition, Scanned, query
    <3> QED BY <3>2, <3>4, <3>5 DEF PagingInv
  <2> QED BY <1>5, <2>3, <2>4 DEF MergeRecord, Scanned
<1>6. CASE EmitEntry
  <2>1. /\ pc = "emit" /\ current # <<>> /\ reply' = reply \o current
        /\ count' = Scanned /\ current' = <<>>
        /\ pc' = IF reachLimit(count') THEN "emit" ELSE "fetch"
        /\ UNCHANGED <<query, page, read, position, next, seen, pages>>
    BY <1>6 DEF EmitEntry, Scanned
  <2>2. /\ RunFrom(reply', page) /\ reply' \in Seq(1..Records)
        /\ Len(reply') = count'
    BY <2>1, <1>a, <1>b, RunConcat DEF PageSoFar, TypeOK, Scanned
  <2>3. (pc' = "emit" /\ count' >= limit) \/ (pc' = "fetch" /\ count' < limit)
    BY <2>1, <1>b DEF reachLimit, Scanned, query
  <2>4. TypeOK'
    BY <2>1, <2>2, <2>3, <1>a, <1>b DEF TypeOK, Scanned, query
  <2>5. PageSoFar'
    BY <2>1, <2>2, <2>3, <1>a, <1>b DEF PageSoFar, RunFrom, Scanned, query
  <2>6. ScanPosition'
    <3>1. position = page + count' /\ count' <= limit
      BY <2>1, <1>a, <1>b DEF ScanPosition, PageSoFar
    <3>2. CASE pc' = "emit" /\ count' >= limit
      BY <3>1, <3>2, <2>1, <1>a, <1>b DEF ScanPosition, Scanned, query
    <3>3. CASE pc' = "fetch" /\ count' < limit
      <4>1. read = page + count' + Len(next)
        <5>1. CASE next = <<>>
          BY <5>1, <3>1, <3>3, <2>1, <1>a, <1>b DEF ScanPosition
        <5>2. CASE next # <<>>
          <6>1. next \in Seq(1..Records) /\ Len(next) <= 1
            BY <2>1, <1>a DEF PageSoFar, TypeOK
          <6>2. Len(next) = 1
            <7>1. Len(next) \in Nat \ {0}
              BY <6>1, <5>2, EmptySeq, Zenon
            <7>2. Len(next) <= 1
              BY <6>1, Zenon
            <7>3. \A n \in Nat \ {0} : n <= 1 => n = 1
              OBVIOUS
            <7> QED BY <7>1, <7>2, <7>3, Zenon
          <6> QED BY <6>2, <5>2, <3>1, <2>1, <1>a, <1>b DEF ScanPosition
        <5> QED BY <5>1, <5>2
      <4> QED BY <4>1, <3>3, <2>1, <1>b DEF ScanPosition, query
    <3> QED BY <3>2, <3>3, <2>3
  <2> QED BY <2>4, <2>5, <2>6 DEF PagingInv
<1>7. CASE EndPage
  <2>1. /\ pc = "emit" /\ current = <<>> /\ page' = position
        /\ seen' = seen \o reply /\ pages' = pages + 1
        /\ \/ pc' = "done" /\ (page' > Records \/ pages' > MaxPages)
           \/ pc' = "client"
        /\ UNCHANGED <<query, read, position, current, next, count, reply>>
    BY <1>7 DEF EndPage
  <2>2. /\ RunFrom(seen', 1) /\ seen' \in Seq(1..Records)
        /\ Len(seen') = Len(seen) + Len(reply)
    <3>1. RunFrom(reply, 1 + Len(seen))
      BY <2>1, <1>a, <1>b DEF PageSoFar
    <3> QED BY <3>1, <2>1, <1>a, <1>b, RunConcat DEF PageSoFar, TypeOK
  <2>3. page' = Len(seen') + 1
    <3>1. position = page + count /\ page = Len(seen) + 1 /\ count = Len(reply)
      BY <2>1, <1>a, <1>b DEF PageSoFar, ScanPosition, Scanned
    <3> QED BY <3>1, <2>1, <2>2, <1>b
  <2>4. TypeOK'
    BY <2>1, <2>2, <1>a, <1>b DEF TypeOK, query
  <2>5. PageSoFar'
    BY <2>1, <2>2, <2>3, <1>a DEF PageSoFar, query
  <2>6. ScanPosition'
    BY <2>1, <2>4, <1>b DEF ScanPosition, TypeOK
  <2> QED BY <2>4, <2>5, <2>6 DEF PagingInv
<1>8. CASE UNCHANGED vars
  BY <1>8 DEF vars, PagingInv, TypeOK, PageSoFar, ScanPosition, RunFrom, Scanned
<1>9. CASE PageFails
  <2>1. TypeOK'
    BY <1>9, <1>a DEF PageFails, TypeOK, query
  <2>2. PageSoFar' /\ ScanPosition'
    BY <1>9, <1>a DEF PageFails, PageSoFar, ScanPosition, RunFrom, Scanned, query
  <2> QED BY <2>1, <2>2 DEF PagingInv
<1> QED BY <1>1, <1>2, <1>3, <1>4, <1>5, <1>6, <1>7, <1>8, <1>9 DEF Next

\* PagingInv holds in every state of every page.
THEOREM PagingInvariant == Spec => []PagingInv
<1>1. PagingInv /\ [Next]_vars => PagingInv'
  BY PagingStep
<1> QED BY PagingInit, <1>1, PTL DEF Spec

\* fetch and the client around it are well typed: nothing is read past the
\* table and the position is a record or null.
THEOREM PagingTypeCorrect == Spec => []TypeOK
<1>1. PagingInv => TypeOK
  BY DEF PagingInv
<1> QED BY PagingInvariant, <1>1, PTL

\* For every limit, batch size and split into entries the client has each
\* record at most once and in order.
THEOREM PagingInOrder == Spec => []NoDuplicateNoGap
<1>1. PagingInv => NoDuplicateNoGap
  BY DEF PagingInv, PageSoFar, NoDuplicateNoGap
<1> QED BY PagingInvariant, <1>1, PTL

\* A client that ends without being cut off has every record.
THEOREM PagingComplete == Spec => []AllSeen
<1>1. PagingInv => AllSeen
  <2> SUFFICES ASSUME PagingInv, pc = "done", ~(pages > MaxPages)
               PROVE  Len(seen) = Records
    BY DEF AllSeen
  <2>1. page = Records + 1 /\ page = Len(seen) + 1
    BY DEF PagingInv, PageSoFar, ScanPosition
  <2>2. Records \in Nat /\ Len(seen) \in Nat
    BY QueryFacts DEF PagingInv
  <2> QED BY <2>1, <2>2
<1> QED BY PagingInvariant, <1>1, PTL

\* The token of a page never points at a record the page has emitted.
\* PositionNotEmitted also speaks of the client's states, where it keeps what
\* EndPage left: the invariant is strengthened by that.
TokenInv ==
    pc \in {"client", "done"} => \A k \in 1..Len(reply) : reply[k] < position

LEMMA TokenStep == PagingInv /\ TokenInv /\ [Next]_vars => TokenInv'
<1> SUFFICES ASSUME PagingInv, TokenInv, [Next]_vars PROVE TokenInv'
  OBVIOUS
<1>1. CASE EndPage
  <2>1. /\ RunFrom(reply, page) /\ count = Len(reply)
        /\ position = page + count + Len(current)
    BY <1>1 DEF EndPage, PagingInv, PageSoFar, ScanPosition, Scanned
  <2>2. page \in Int /\ Len(reply) \in Nat /\ Len(current) \in Nat
    BY QueryFacts DEF PagingInv
  <2>3. \A k \in 1..Len(reply) : reply[k] < position
    BY <2>1, <2>2 DEF RunFrom
  <2> QED BY <1>1, <2>3 DEF EndPage, TokenInv
<1>2. CASE Next /\ ~EndPage
  BY <1>2 DEF Next, RequestPage, StartFetch, Exhausted, OpenNextBatch,
              OpenNextEntry, MergeRecord, EmitEntry, PageFails, TokenInv
<1>3. CASE UNCHANGED vars
  BY <1>3 DEF vars, TokenInv
<1> QED BY <1>1, <1>2, <1>3

\* No page token points at a record that has been emitted, the invariant the
\* comment of the patch claims.
THEOREM TokenNotEmitted == Spec => []PositionNotEmitted
<1>1. Init => TokenInv
  BY DEF Init, TokenInv
<1>2. PagingInv /\ TokenInv => PositionNotEmitted
  <2> SUFFICES ASSUME PagingInv, TokenInv PROVE PositionNotEmitted
    OBVIOUS
  <2>1. CASE pc = "emit"
    <3>1. /\ RunFrom(reply, page) /\ count = Len(reply)
          /\ position = page + count + Len(current)
      BY <2>1 DEF PagingInv, PageSoFar, ScanPosition, Scanned
    <3>2. page \in Int /\ Len(reply) \in Nat /\ Len(current) \in Nat
      BY QueryFacts DEF PagingInv
    <3> QED BY <3>1, <3>2 DEF RunFrom, PositionNotEmitted
  <2>2. CASE pc # "emit"
    BY <2>2 DEF TokenInv, PositionNotEmitted
  <2> QED BY <2>1, <2>2
<1>3. PagingInv /\ TokenInv /\ [Next]_vars => TokenInv'
  BY TokenStep
<1>4. Spec => []TokenInv
  BY <1>1, <1>3, PagingInvariant, PTL DEF Spec
<1> QED BY <1>2, <1>4, PagingInvariant, PTL

\* What a page has emitted, after its end too.
ReplyFits == Len(reply) <= limit

\* An entry is handed out only while the page has room for all of it.
LEMMA LimitStep == PagingInv /\ ReplyFits /\ [Next]_vars => ReplyFits'
<1> SUFFICES ASSUME PagingInv, ReplyFits, [Next]_vars PROVE ReplyFits'
  OBVIOUS
<1> USE DEF ReplyFits
<1>1. limit \in Nat \ {0} /\ Len(reply) \in Nat /\ Len(current) \in Nat
  BY QueryFacts DEF PagingInv
<1>2. CASE RequestPage
  BY <1>1, <1>2 DEF RequestPage, query
<1>3. CASE EmitEntry
  <2>1. reply' = reply \o current /\ limit' = limit
    BY <1>3 DEF EmitEntry, query
  <2>2. Len(reply) + Len(current) <= limit
    BY <1>3, <1>1 DEF EmitEntry, PagingInv, PageSoFar, Scanned
  <2>3. reply \in Seq(1..Records) /\ current \in Seq(1..Records)
    BY DEF PagingInv, TypeOK
  <2>4. Len(reply \o current) = Len(reply) + Len(current)
    BY <2>3
  <2> QED BY <2>1, <2>2, <2>4
<1>4. CASE \/ StartFetch \/ Exhausted \/ OpenNextBatch \/ OpenNextEntry \/ MergeRecord
           \/ EndPage \/ PageFails \/ UNCHANGED vars
  BY <1>4 DEF StartFetch, Exhausted, OpenNextBatch, OpenNextEntry, MergeRecord, EndPage,
              PageFails, query, vars
<1> QED BY <1>2, <1>3, <1>4 DEF Next

\* No page of fetch holds more records than its limit and no entry more than a
\* batch: the record that exceeds the limit is removed again.
THEOREM PagesWithinLimit == Spec => []PageWithinLimit
<1>1. Init => ReplyFits
  BY LimitsAssumption DEF Init, ReplyFits
<1>2. Spec => [](ReplyFits)
  BY <1>1, LimitStep, PagingInvariant, PTL DEF Spec
<1>3. PagingInv /\ ReplyFits => PageWithinLimit
  BY DEF PagingInv, PageSoFar, ReplyFits, PageWithinLimit
<1> QED BY <1>2, <1>3, PagingInvariant, PTL

----------------------------------------------------------------------------
\* A stretch that starts at record 1 is the head of the table.
LEMMA RunIsUpto ==
    ASSUME NEW s \in Seq(1..Records), RunFrom(s, 1)
    PROVE  s = Listing!Upto(Len(s))
<1>1. Len(s) \in Nat /\ s = [k \in 1..Len(s) |-> s[k]]
  OBVIOUS
<1>2. \A k \in 1..Len(s) : s[k] = k
  BY <1>1 DEF RunFrom
<1> QED BY <1>1, <1>2 DEF Listing!Upto

\* The end of a page is one page of the listing: as many records as the limit
\* allows and as are left.
LEMMA EndPageLists ==
    ASSUME PagingInv, EndPage
    PROVE  Listing!Page(limit)
<1>1. /\ pc = "emit" /\ current = <<>> /\ page' = position
      /\ seen' = seen \o reply /\ pages' = pages + 1
      /\ pc' = IF page' > Records \/ pages' > MaxPages THEN "done" ELSE "client"
  BY DEF EndPage
<1>2. /\ Records \in Nat /\ limit \in Nat \ {0} /\ Len(seen) \in Nat
      /\ Len(reply) \in Nat /\ position \in 1..(Records + 1)
  BY QueryFacts DEF PagingInv, TypeOK
<1>3. /\ count = Len(reply) /\ count <= limit /\ position = page + count
      /\ page = Len(seen) + 1 /\ (count = limit \/ position = Records + 1)
  BY <1>1, <1>2 DEF PagingInv, PageSoFar, ScanPosition, Scanned
<1>4. PagingInv'
  BY PagingStep DEF Next
<1>5. page' = Len(seen') + 1 /\ RunFrom(seen', 1) /\ seen' \in Seq(1..Records)
  BY <1>4 DEF PagingInv, PageSoFar, TypeOK
<1>6. Len(seen') = position - 1
  <2>1. Len(seen') \in Nat
    BY <1>5
  <2> QED BY <2>1, <1>1, <1>2, <1>5
<1> DEFINE last == IF Len(seen) + limit < Records THEN Len(seen) + limit ELSE Records
<1>7. Len(seen') = last
  BY <1>2, <1>3, <1>6
<1>8. seen' = Listing!Upto(last)
  <2>1. \A s \in Seq(1..Records) : RunFrom(s, 1) => s = Listing!Upto(Len(s))
    BY RunIsUpto
  <2> QED BY <2>1, <1>5, <1>7
<1>9. (pc' = "done") <=> (last = Records \/ pages' > MaxPages)
  <2>1. page' > Records <=> last = Records
    BY <1>1, <1>2, <1>6, <1>7
  <2> QED BY <2>1, <1>1
<1>10. (pc' = "done") = (last = Records \/ pages' > MaxPages)
  BY <1>9, Zenon
<1>11. ~(pc = "done")
  BY <1>1
<1> QED BY <1>1, <1>8, <1>10, <1>11, Zenon DEF Listing!Page

\* Every step inside a page leaves the client's view as it is.
LEMMA ListingStep ==
    PagingInv /\ [Next]_vars => [Listing!Page(limit)]_(Listing!vars)
<1> SUFFICES ASSUME PagingInv, [Next]_vars
             PROVE  Listing!Page(limit) \/ UNCHANGED Listing!vars
  OBVIOUS
<1>1. CASE EndPage
  BY <1>1, EndPageLists
<1>2. ASSUME (Next /\ ~EndPage) \/ UNCHANGED vars
      PROVE  UNCHANGED Listing!vars
  <2>1. UNCHANGED <<seen, pages>> /\ ((pc # "done" /\ pc' # "done") \/ pc' = pc)
    BY <1>2 DEF Next, RequestPage, StartFetch, Exhausted, OpenNextBatch,
                OpenNextEntry, MergeRecord, EmitEntry, PageFails, vars
  <2>2. (pc' = "done") = (pc = "done")
    BY <2>1
  <2> QED BY <2>1, <2>2, Zenon DEF Listing!vars
<1> QED BY <1>1, <1>2

\* The client is given the records page by page as PagedListing promises.
THEOREM PagingImplementsListing == Spec => ListingSpec
<1>1. Init => Listing!Init
  BY DEF Init, Listing!Init
<1>2. PagingInv /\ [Next]_vars => [Listing!Page(limit)]_(Listing!vars)
  BY ListingStep
<1> QED BY <1>1, <1>2, PagingInvariant, PTL DEF Spec, ListingSpec
============================================================================
