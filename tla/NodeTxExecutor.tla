--------------------------- MODULE NodeTxExecutor ---------------------------
(***************************************************************************)
(* The commit of a store transaction: the supplier NodeTxExecutor hands to *)
(* retryingInvoke re-runs the buffered actions and then commits every      *)
(* session in parallel; when one fails the sessions are rolled back and    *)
(* one exception stands for all the failures (patches/0002).               *)
(*                                                                         *)
(* Each attempt of RetryLoop is opened up here into the steps of the       *)
(* supplier; the interrupt still arrives between any two of them.  The     *)
(* sessions and the stores behind them are outside the repository: an      *)
(* action buffers one write in some session (the partition leader may have *)
(* moved since the previous attempt) or reports a failure that nobody      *)
(* looks at, and a commit of a session applies what it buffered.  A commit *)
(* that fails may have reached its store all the same: a client that gave  *)
(* up at its deadline does not recall the request, and a stalled store     *)
(* (F15) applies it when it wakes up, even after the call has returned.    *)
(***************************************************************************)
EXTENDS RetryLoop, StoreFailure, FiniteSets

CONSTANTS
    Entries,      \* the writes of the transaction
    Sessions,     \* one session per store node
    Throwables    \* what a commit or an action may throw: chains of Links

ASSUME ThrowablesAssumption == Throwables \subseteq Seq(Links) \ {<<>>}

VARIABLES
    isTx,         \* the executor is in tx mode
    phase,        \* step of the supplier: "idle", "actions" or "commit"
    todo,         \* entries whose action has not run in this attempt
    buffer,       \* writes buffered by each session; isTx() of a session
                  \* that buffers nothing is false
    pending,      \* sessions whose commit has not returned
    failures,     \* the ConcurrentLinkedQueue, in order of arrival
    applied,      \* entries the stores hold
    refused,      \* entries whose action reported a failure in this attempt
    lost          \* entries of failed commits that may still reach a store

txVars == <<isTx, phase, todo, buffer, pending, failures, applied, refused, lost>>
vars   == <<loopVars, txVars>>

Init == /\ LoopInit
        /\ isTx \in BOOLEAN
        /\ phase = "idle" /\ todo = {} /\ pending = {} /\ failures = <<>>
        /\ buffer = [s \in Sessions |-> {}]
        /\ applied = {} /\ refused = {} /\ lost = {}

----------------------------------------------------------------------------
\* Mutant: only the first attempt runs the actions.
BeginSupplier_ActionsOnce ==
    /\ StartAttempt
    /\ phase' = "actions" /\ refused' = {}
    /\ todo' = IF i = 0 THEN Entries ELSE {}
    /\ UNCHANGED <<isTx, buffer, pending, failures, applied, lost>>

\* The supplier starts over with the whole list of entries.
BeginSupplier ==
    /\ StartAttempt
    /\ phase' = "actions" /\ todo' = Entries /\ refused' = {}
    /\ UNCHANGED <<isTx, buffer, pending, failures, applied, lost>>

\* doAction of one entry returns true ...
DoAction(e, s) ==
    /\ phase = "actions" /\ e \in todo
    /\ buffer' = [buffer EXCEPT ![s] = @ \cup {e}]
    /\ todo' = todo \ {e}
    /\ UNCHANGED <<loopVars, isTx, phase, pending, failures, applied, refused, lost>>

\* ... or false, with nothing buffered; the supplier does not look.
DoActionRefused(e) ==
    /\ phase = "actions" /\ e \in todo
    /\ todo' = todo \ {e} /\ refused' = refused \cup {e}
    /\ UNCHANGED <<loopVars, isTx, phase, buffer, pending, failures, applied, lost>>

\* doAction throws: the supplier ends at once, nothing is rolled back.
ActionFails(t) ==
    /\ phase = "actions" /\ todo # {}
    /\ AttemptFails(Classify(Single(t)))
    /\ phase' = "idle" /\ todo' = {}
    /\ UNCHANGED <<isTx, buffer, pending, failures, applied, refused, lost>>

\* commitSessions starts one commit per tx session.
BeginCommit ==
    /\ phase = "actions" /\ todo = {}
    /\ phase' = "commit"
    /\ pending' = {s \in Sessions : buffer[s] # {}}
    /\ failures' = <<>>
    /\ UNCHANGED <<loopVars, isTx, todo, buffer, applied, refused, lost>>

CommitSucceeds(s) ==
    /\ phase = "commit" /\ s \in pending
    /\ pending' = pending \ {s}
    /\ applied' = applied \cup buffer[s]
    /\ buffer' = [buffer EXCEPT ![s] = {}]
    /\ UNCHANGED <<loopVars, isTx, phase, todo, failures, refused, lost>>

CommitFails(s, t) ==
    /\ phase = "commit" /\ s \in pending
    /\ pending' = pending \ {s}
    /\ failures' = Append(failures, t)
    /\ lost' \in {lost, lost \cup buffer[s]}
    /\ UNCHANGED <<loopVars, isTx, phase, todo, buffer, applied, refused>>

\* A store applies a write of a commit that failed for the client: at once,
\* during a later attempt, or when the call has long returned.
LateCommit(e) ==
    /\ e \in lost \ applied
    /\ applied' = applied \cup {e}
    /\ UNCHANGED <<loopVars, isTx, phase, todo, buffer, pending, failures, refused, lost>>

\* Every commit returned and none failed: the supplier returns true.  An
\* executor without entries gets here at once.
AllCommitted ==
    /\ phase = "commit" /\ pending = {} /\ failures = <<>>
    /\ AttemptReturns(TRUE)
    /\ phase' = "idle"
    /\ UNCHANGED <<isTx, todo, buffer, pending, failures, applied, refused, lost>>

\* Mutant: the first failure is thrown without waiting for the other commits.
RollBackAndThrow_NoJoin ==
    /\ phase = "commit" /\ failures # <<>>
    /\ \E rolledBack \in IF isTx THEN SUBSET Sessions ELSE {{}} :
          buffer' = [s \in Sessions |-> IF s \in rolledBack THEN {} ELSE buffer[s]]
    /\ AttemptFails(Classify(Aggregate(failures)))
    /\ UNCHANGED <<isTx, phase, todo, pending, failures, applied, refused, lost>>

\* Some commit failed.  In tx mode the sessions are rolled back one after the
\* other until one rollback throws, which is swallowed and leaves the rest as
\* they are; then the aggregate of the failures reaches the retry loop.
RollBackAndThrow ==
    /\ phase = "commit" /\ pending = {} /\ failures # <<>>
    /\ \E rolledBack \in IF isTx THEN SUBSET Sessions ELSE {{}} :
          buffer' = [s \in Sessions |-> IF s \in rolledBack THEN {} ELSE buffer[s]]
    /\ AttemptFails(Classify(Aggregate(failures)))
    /\ phase' = "idle"
    /\ UNCHANGED <<isTx, todo, pending, failures, applied, refused, lost>>

----------------------------------------------------------------------------
LoopOnly == (Interrupt \/ CheckInterrupted \/ SleepElapsed \/ SleepInterrupted)
            /\ UNCHANGED txVars

SupplierStep ==
    \/ \E e \in Entries, s \in Sessions : DoAction(e, s)
    \/ \E e \in Entries : DoActionRefused(e)
    \/ \E t \in Throwables : ActionFails(t)
    \/ BeginCommit
    \/ \E s \in Sessions : CommitSucceeds(s)
    \/ \E s \in Sessions, t \in Throwables : CommitFails(s, t)
    \/ AllCommitted
    \/ RollBackAndThrow

Next == LoopOnly \/ BeginSupplier \/ SupplierStep \/ \E e \in Entries : LateCommit(e)

Spec == Init /\ [][Next]_vars

----------------------------------------------------------------------------
TypeOK ==
    /\ LoopTypeOK
    /\ isTx \in BOOLEAN /\ phase \in {"idle", "actions", "commit"}
    /\ todo \subseteq Entries /\ applied \subseteq Entries
    /\ refused \subseteq Entries /\ lost \subseteq Entries
    /\ buffer \in [Sessions -> SUBSET Entries]
    /\ pending \subseteq Sessions
    /\ failures \in Seq(Throwables)

\* A commit that reports success has delivered every write of the
\* transaction, however many attempts, moved leaders, partial commits, failed
\* rollbacks and late answers came before, but for the writes whose action
\* returned false in the last attempt.
SuccessDeliversAll == result = "value" => Entries \ refused \subseteq applied

\* Why it holds: while the supplier runs, every entry is still to be buffered,
\* or refused, or buffered in a session, or - as long as no commit has failed -
\* in a session whose commit is running or already in a store.
Buffered(S) == UNION {buffer[s] : s \in S}

Delivery ==
    /\ phase = "actions" => Entries \subseteq todo \cup refused \cup Buffered(Sessions)
    /\ (phase = "commit" /\ failures = <<>>) =>
          Entries \subseteq applied \cup refused \cup Buffered(pending)
    /\ SuccessDeliversAll

\* Javadoc of commitSessions: whether a commit is retried does not depend on
\* which partition failed first.  The class the loop sees is the worst of all
\* the failures that have arrived.
DecisionIgnoresOrder ==
    failures # <<>> => Classify(Aggregate(failures)) = Worst(failures)

\* When the call has returned, its sessions are at rest: no commit or rollback
\* of it is still running behind the caller's back.  Only a write of a request
\* the client has given up on can still reach a store, and none can when the
\* first attempt succeeded.
QuietAfterReturn ==
    [][pc = "done" => /\ UNCHANGED <<buffer, pending, lost>>
                      /\ applied' \subseteq applied \cup lost
                      /\ result = "value" /\ attempts = 1 => UNCHANGED applied]_vars
============================================================================
