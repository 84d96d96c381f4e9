----------------------------- MODULE AckLedger -----------------------------
(***************************************************************************)
(* What a program that loads a database and then reports on it promises    *)
(* the reader of its report: the books are closed before they are read     *)
(* back, at most Slack batches are acknowledged after that, and a report   *)
(* without losses has read back, since the books were closed, every batch  *)
(* in them and every batch earlier reports were about.  FaultBattery       *)
(* (Slack = 0) and ClusterOperations (Slack = 1) are shown to implement it. *)
(***************************************************************************)
EXTENDS Naturals, FiniteSets

CONSTANTS Batches,    \* what the load writes
          Slack       \* batches that may be acknowledged after the close

VARIABLES
    stage,     \* "idle", "writing", "closed", or "void" after a broken run
    entered,   \* batches acknowledged before the books were closed
    late,      \* batches acknowledged afterwards
    owed,      \* batches of earlier reports
    stored,    \* batches the database holds
    found,     \* batches that were read back
    clean      \* the report says that nothing is lost

vars == <<stage, entered, late, owed, stored, found, clean>>

Init == /\ stage = "idle" /\ entered = {} /\ late = {}
        /\ owed \subseteq Batches /\ stored \subseteq Batches
        /\ found = {} /\ clean = FALSE

\* A run starts with empty books; what earlier reports were about is still owed.
Begin == /\ stage \in {"idle", "void"} /\ stage' = "writing"
         /\ entered' = {} /\ late' = {} /\ found' = {} /\ clean' = FALSE
         /\ UNCHANGED <<owed, stored>>

\* The database acknowledges a batch it has stored.
Acknowledge(b) == /\ stage = "writing"
                  /\ entered' = entered \cup {b} /\ stored' = stored \cup {b}
                  /\ UNCHANGED <<stage, late, owed, found, clean>>

AcknowledgeLate(b) == /\ stage \in {"closed", "idle"}
                      /\ late' = late \cup {b} /\ Cardinality(late') <= Slack
                      /\ stored' = stored \cup {b}
                      /\ UNCHANGED <<stage, entered, owed, found, clean>>

Close == stage = "writing" /\ stage' = "closed"
         /\ UNCHANGED <<entered, late, owed, stored, found, clean>>

ReadBack == /\ stage = "closed" /\ found' \subseteq stored
            /\ UNCHANGED <<stage, entered, late, owed, stored, clean>>

Report == /\ stage = "closed" /\ stage' = "idle"
          /\ owed' = owed \cup entered
          /\ clean' \in BOOLEAN /\ (clean' => owed' \subseteq found)
          /\ UNCHANGED <<entered, late, stored, found>>

\* The program stops without a report: nothing is promised of this run.
Break == /\ ~clean /\ stage' \in {"idle", "void"}
         /\ UNCHANGED <<owed, stored, found, clean>>

\* What is left of it goes on unheard.
Unheard == stage = "void" /\ UNCHANGED <<stage, owed, found, clean>>

\* The database keeps a batch nobody was told of, or loses one.
Drift == stored' \subseteq Batches /\ UNCHANGED <<stage, entered, late, owed, found, clean>>

Next == \/ Begin \/ Close \/ ReadBack \/ Report \/ Break \/ Unheard \/ Drift
        \/ \E b \in Batches : Acknowledge(b) \/ AcknowledgeLate(b)

Spec == Init /\ [][Next]_vars
============================================================================
