---------------------------- MODULE EntryPaging ----------------------------
(***************************************************************************)
(* BinaryEntryIterator.fetch as patches/0001 leaves it, inside the scan of *)
(* one page and the client loop that follows the page tokens (HG.paged of  *)
(* the suite, the test of the patch).                                      *)
(*                                                                         *)
(* A query matches the records 1..Records of a table.  Records of the same *)
(* owner are columns of one backend entry; the iterator hands entries of   *)
(* at most Batch columns to the consumer until the page holds limit        *)
(* columns.  The page token is results.position(), the key of the record   *)
(* the backend last looked at, and the next page starts AT that key.       *)
(*                                                                         *)
(* Only fetch is in the repository.  What surrounds it (hasNext, next,     *)
(* reachLimit, removeLastRecord, position, the inclusive restart) is       *)
(* modelled as docs/findings.md F1 and the context of the patch use it.    *)
(***************************************************************************)
EXTENDS Integers, Sequences

CONSTANTS
    Records,     \* number of records the query matches
    Owners,      \* backend entries a record may belong to
    Batch,       \* INLINE_BATCH_SIZE
    Limits,      \* page limits a client may ask for
    MaxPages     \* max_pages of the client

ASSUME RecordsAssumption == Records \in Nat
ASSUME LimitsAssumption  == /\ Batch \in Nat \ {0}
                            /\ Limits \subseteq Nat \ {0}
                            /\ MaxPages \in Nat

VARIABLES
    limit,      \* the limit of the client's requests
    owner,      \* owner[r] is the entry record r belongs to
    pc,         \* "client", "fetch", "scan", "emit", "done" or "failed"
    page,       \* record the next page starts at, Records + 1 when none is left
    read,       \* record results.next() returns next
    position,   \* results.position(); Records + 1 stands for null
    current,    \* columns of the entry being built, <<>> for null
    next,       \* columns of the entry started ahead, <<>> for null
    count,      \* columns of the entries handed out in this page
    reply,      \* what this page has emitted
    seen,       \* what the client has collected
    pages       \* pages the client has received

vars == <<limit, owner, pc, page, read, position, current, next, count, reply, seen, pages>>

\* What stays the same while a client follows its tokens.
query == <<limit, owner>>

Init ==
    /\ limit \in Limits /\ owner \in [1..Records -> Owners]
    /\ pc = "client" /\ page = 1 /\ seen = <<>> /\ pages = 0
    /\ read = 1 /\ position = 1
    /\ current = <<>> /\ next = <<>> /\ count = 0 /\ reply = <<>>

----------------------------------------------------------------------------
\* The client asks for the page at its token; a new iterator scans from there.
RequestPage ==
    /\ pc = "client"
    /\ pc' = "fetch"
    /\ read' = page /\ position' = page
    /\ current' = <<>> /\ next' = <<>> /\ count' = 0 /\ reply' = <<>>
    /\ UNCHANGED <<query, page, seen, pages>>

\* Head of fetch: the entry started ahead becomes the current one.
StartFetch ==
    /\ pc = "fetch"
    /\ pc' = "scan" /\ current' = next /\ next' = <<>>
    /\ UNCHANGED <<query, page, read, position, count, reply, seen, pages>>

\* results.hasNext() looks at the next record and moves position to it.
LookAtNext == position' = read

Exhausted ==
    /\ pc = "scan" /\ read > Records
    /\ LookAtNext
    /\ pc' = "emit"
    /\ UNCHANGED <<query, page, read, current, next, count, reply, seen, pages>>

BatchFull == current # <<>> /\ Len(current) >= Batch

\* Mutant: the code before the patch never starts an entry for a full batch.
OpenNextBatch_Merged ==
    /\ pc = "scan" /\ read <= Records
    /\ current # <<>> /\ owner[current[1]] = owner[read] /\ Len(current) + 1 >= Batch
    /\ LookAtNext
    /\ read' = read + 1
    /\ current' = Append(current, read)
    /\ pc' = "emit"
    /\ UNCHANGED <<query, page, next, count, reply, seen, pages>>

\* Mutant: the record that finds the batch full is dropped.
OpenNextBatch_Dropped ==
    /\ pc = "scan" /\ read <= Records /\ BatchFull
    /\ LookAtNext
    /\ read' = read + 1
    /\ pc' = "emit"
    /\ UNCHANGED <<query, page, current, next, count, reply, seen, pages>>

\* A full batch: the record starts the next entry although it belongs to the
\* same owner, so position never points at a record of the current entry.
OpenNextBatch ==
    /\ pc = "scan" /\ read <= Records /\ BatchFull
    /\ LookAtNext
    /\ read' = read + 1
    /\ next' = <<read>>
    /\ pc' = "emit"
    /\ UNCHANGED <<query, page, current, count, reply, seen, pages>>

\* merger.apply returned another entry: the record belongs to another owner.
OpenNextEntry ==
    /\ pc = "scan" /\ read <= Records /\ ~BatchFull
    /\ current # <<>> /\ owner[current[1]] # owner[read]
    /\ LookAtNext
    /\ read' = read + 1
    /\ next' = <<read>>
    /\ pc' = "emit"
    /\ UNCHANGED <<query, page, current, count, reply, seen, pages>>

reachLimit(n) == n >= limit

\* Mutant: the extra record stays in the entry when the limit is exceeded.
MergeRecord_Kept ==
    /\ pc = "scan" /\ read <= Records /\ ~BatchFull
    /\ current # <<>> => owner[current[1]] = owner[read]
    /\ LookAtNext
    /\ read' = read + 1
    /\ current' = Append(current, read)
    /\ pc' = IF reachLimit(count + Len(current)) THEN "emit" ELSE "scan"
    /\ UNCHANGED <<query, page, next, count, reply, seen, pages>>

\* The record joins the current entry, or is the first of it.  When the page
\* then holds limit + 1 records the last one is removed and the scan closed.
MergeRecord ==
    /\ pc = "scan" /\ read <= Records /\ ~BatchFull
    /\ current # <<>> => owner[current[1]] = owner[read]
    /\ LookAtNext
    /\ read' = read + 1
    /\ \/ reachLimit(count + Len(current)) /\ pc' = "emit" /\ UNCHANGED current
       \/ ~reachLimit(count + Len(current))
          /\ pc' = "scan" /\ current' = Append(current, read)
    /\ UNCHANGED <<query, page, next, count, reply, seen, pages>>

\* The consumer takes the current entry and, short of the limit, fetches again.
EmitEntry ==
    /\ pc = "emit" /\ current # <<>>
    /\ reply' = reply \o current
    /\ count' = count + Len(current)
    /\ current' = <<>>
    /\ pc' = IF reachLimit(count') THEN "emit" ELSE "fetch"
    /\ UNCHANGED <<query, page, read, position, next, seen, pages>>

\* Mutant: the next page restarts after the position, as if it were emitted.
EndPage_Exclusive ==
    /\ pc = "emit" /\ current = <<>>
    /\ page' = IF position > Records THEN position ELSE position + 1
    /\ seen' = seen \o reply
    /\ pages' = pages + 1
    /\ pc' = IF page' > Records \/ pages' > MaxPages THEN "done" ELSE "client"
    /\ UNCHANGED <<query, read, position, current, next, count, reply>>

\* No entry is left in hand: the limit is reached or the scan is exhausted.
\* The token is the position; the client goes on unless there is none or it
\* has had enough pages.
EndPage ==
    /\ pc = "emit" /\ current = <<>>
    /\ page' = position
    /\ seen' = seen \o reply
    /\ pages' = pages + 1
    /\ pc' = IF page' > Records \/ pages' > MaxPages THEN "done" ELSE "client"
    /\ UNCHANGED <<query, read, position, current, next, count, reply>>

\* The request for a page has no answer the client can use, wherever the scan
\* is: paged gives up and returns None, also for what earlier pages brought.
PageFails ==
    /\ pc \in {"fetch", "scan", "emit"}
    /\ pc' = "failed"
    /\ UNCHANGED <<query, page, read, position, current, next, count, reply, seen, pages>>

Next == \/ RequestPage \/ StartFetch
        \/ Exhausted \/ OpenNextBatch \/ OpenNextEntry \/ MergeRecord
        \/ EmitEntry \/ EndPage \/ PageFails

Spec == Init /\ [][Next]_vars

----------------------------------------------------------------------------
\* s is the stretch of the table that starts at record first.
RunFrom(s, first) == \A k \in 1..Len(s) : s[k] = first + k - 1

TypeOK ==
    /\ limit \in Limits /\ owner \in [1..Records -> Owners]
    /\ pc \in {"client", "fetch", "scan", "emit", "done", "failed"}
    /\ page \in 1..(Records + 1) /\ read \in 1..(Records + 1)
    /\ position \in 1..(Records + 1)
    /\ current \in Seq(1..Records) /\ next \in Seq(1..Records)
    /\ reply \in Seq(1..Records) /\ seen \in Seq(1..Records)
    /\ count \in Nat /\ pages \in Nat

\* Following the tokens gives every record once and in order, whatever the
\* page limit, the batch size and the split of the records into entries.
NoDuplicateNoGap == RunFrom(seen, 1)

\* A client that was not cut off by its own page limit has all the records.
AllSeen == pc = "done" => Len(seen) = Records \/ pages > MaxPages

\* No page holds more records than its limit, and no entry handed out holds
\* more than a batch.
PageWithinLimit == Len(reply) <= limit /\ Len(current) <= Batch

\* The token of a page points at a record that page has not emitted (the
\* invariant the comment of the patch states).
PositionNotEmitted ==
    pc \in {"emit", "client", "done"} =>
        \A k \in 1..Len(reply) : reply[k] < position

\* Why it holds: where the scan stands, in terms of what has been emitted.
Scanned == count + Len(current)

PageSoFar ==
    /\ page = Len(seen) + 1 /\ RunFrom(seen, 1)
    /\ pc \in {"fetch", "scan", "emit"} =>
          /\ RunFrom(reply, page) /\ count = Len(reply)
          /\ RunFrom(current, page + count)
          /\ RunFrom(next, page + Scanned)
          /\ Len(next) <= 1 /\ Scanned <= limit
    /\ Len(current) <= Batch

ScanPosition ==
    /\ pc = "fetch" => /\ current = <<>> /\ count < limit
                       /\ read = page + count + Len(next)
    /\ pc = "scan"  => /\ next = <<>> /\ count < limit
                       /\ read = page + Scanned
    /\ pc = "emit"  => /\ position = page + Scanned
                       /\ next = <<>> => read = position \/ Scanned = limit
                       /\ next # <<>> => read = position + 1
                       /\ current = <<>> => count = limit \/ position = Records + 1
    /\ pc = "done"  => page = Records + 1 \/ pages > MaxPages

PagingInv == TypeOK /\ PageSoFar /\ ScanPosition

----------------------------------------------------------------------------
\* Paging implements the listing the client relies on.
Listing == INSTANCE PagedListing
               WITH got <- seen, pages <- pages, over <- (pc = "done")

ListingSpec == Listing!Init /\ [][Listing!Page(limit)]_(Listing!vars)
============================================================================
