--------------------------- MODULE MCEntryPaging ---------------------------
(* Every page limit up to one past the table and every split of the records *)
(* into up to two entries; the records of an owner may come in two           *)
(* stretches, which costs nothing and covers a merge of any shape.           *)
EXTENDS EntryPaging

MCLimits == 1..(Records + 1)

Ended == pc \in {"done", "failed"} /\ UNCHANGED vars
MCSpec == Init /\ [][Next \/ Ended]_vars
============================================================================
