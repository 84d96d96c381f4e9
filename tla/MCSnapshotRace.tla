--------------------------- MODULE MCSnapshotRace ---------------------------
(* Three attempts on two partitions, the first of them named twice, as in   *)
(* run4 of results/issue-3164-pods.                                         *)
EXTENDS SnapshotRace

CONSTANTS d0, d3

MCPartitions == {d0, d3}
MCTarget == <<d0, d3, d0>>

\* The last attempt is over or the script has raised.
Ended == Over /\ UNCHANGED vars

MCSpec == Init /\ [][Next \/ Ended]_vars
=============================================================================
