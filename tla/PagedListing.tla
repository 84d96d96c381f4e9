---------------------------- MODULE PagedListing ----------------------------
(***************************************************************************)
(* What paging promises the client that follows the page tokens: it is     *)
(* given the records one page after the other, in order, each exactly      *)
(* once, and no page but the last one is short.  EntryPaging is shown to   *)
(* implement it.                                                           *)
(***************************************************************************)
EXTENDS Integers, Sequences

CONSTANTS Records,    \* number of records the query matches
          MaxPages    \* pages after which the client gives up

VARIABLES
    got,      \* the records the client holds
    pages,    \* responses it has received
    over      \* it asks for no further page

vars == <<got, pages, over>>

\* The records of the table from the first to the last one given.
Upto(last) == [k \in 1..last |-> k]

Init == got = <<>> /\ pages = 0 /\ over = FALSE

Page(limit) ==
    LET last == IF Len(got) + limit < Records THEN Len(got) + limit ELSE Records
    IN  /\ ~over
        /\ got' = Upto(last)
        /\ pages' = pages + 1
        /\ over' = (last = Records \/ pages' > MaxPages)
=============================================================================
