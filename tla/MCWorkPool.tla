----------------------------- MODULE MCWorkPool -----------------------------
(* Two accounts or edges, two threads, two rounds of three entries in      *)
(* batches of two.                                                         *)
EXTENDS WorkPool

Symmetry == Permutations(Names) \cup Permutations(Workers)

Ended == pc = "done" /\ flying = {} /\ UNCHANGED vars
MCSpec == Init /\ [][Next \/ Ended]_vars
=============================================================================
