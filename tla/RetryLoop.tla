----------------------------- MODULE RetryLoop -----------------------------
(***************************************************************************)
(* NodeTxExecutor.retryingInvoke of hg-store-client, the loop every store  *)
(* call of the server goes through (patches/0002).  The supplier is        *)
(* abstract here: an attempt returns a value, returns a value isValid      *)
(* rejects, or throws a failure of one of four kinds.  NodeTxExecutor      *)
(* composes this loop with the supplier of a commit.                       *)
(*                                                                         *)
(* The interrupt of the calling thread arrives at any moment.  The flag is *)
(* the thread's own: Thread.sleep clears it when it throws, and a blocking *)
(* call inside the supplier may clear it when it throws an                 *)
(* InterruptedException.                                                   *)
(***************************************************************************)
EXTENDS Integers

CONSTANT MaxRetries    \* NODE_MAX_RETRYING_TIMES

ASSUME MaxRetriesAssumption == MaxRetries \in Nat

VARIABLES
    pc,               \* "check", "attempt", "sleep" or "done"
    i,                \* index of the iteration, 0..MaxRetries
    deadlineRetried,  \* the one-element array of the code
    interrupted,      \* the interrupt flag of the calling thread
    result,           \* how the call ended
    \* History: what the properties speak about, read by no guard.
    told,             \* an interrupt has been delivered
    carried,          \* the thrown exception holds an InterruptedException
    attempts,         \* attempts started
    deadlines,        \* attempts that ended in DEADLINE
    streak,           \* deadlines since the last failure of another class
    slept             \* seconds of backoff slept in full

loopVars == <<pc, i, deadlineRetried, interrupted, result,
              told, carried, attempts, deadlines, streak, slept>>

FatalKinds == {"cancelled", "interrupted"}
Kinds      == {"retryable", "deadline"} \cup FatalKinds
Thrown     == {"interrupted", "fatal", "deadline", "exhausted"}
Results    == {"none", "value", "empty"} \cup Thrown

\* The schedule 1, 1, 1, 2, 3, 4, ... of the code.
SleepTime(n) == IF n < 3 THEN 1 ELSE n - 1

LoopInit ==
    /\ pc = "check" /\ i = 0 /\ deadlineRetried = FALSE
    /\ interrupted \in BOOLEAN /\ told = interrupted
    /\ result = "none" /\ carried = FALSE
    /\ attempts = 0 /\ deadlines = 0 /\ streak = 0 /\ slept = 0

----------------------------------------------------------------------------
\* The caller gives up on the thread: restserver.request_timeout, a Gremlin
\* evaluation timeout, a cancelled task.
Interrupt ==
    /\ pc # "done" /\ ~interrupted
    /\ interrupted' = TRUE /\ told' = TRUE
    /\ UNCHANGED <<pc, i, deadlineRetried, result, carried,
                   attempts, deadlines, streak, slept>>

\* Head of the iteration, flag set: throw with a fresh InterruptedException.
CheckInterrupted ==
    /\ pc = "check" /\ interrupted
    /\ pc' = "done" /\ result' = "interrupted" /\ carried' = TRUE
    /\ UNCHANGED <<i, deadlineRetried, interrupted, told,
                   attempts, deadlines, streak, slept>>

\* Mutant: the interrupt flag is not looked at before the supplier is called.
StartAttempt_Unchecked ==
    /\ pc = "check"
    /\ pc' = "attempt" /\ attempts' = attempts + 1
    /\ UNCHANGED <<i, deadlineRetried, interrupted, result, told, carried,
                   deadlines, streak, slept>>

\* Head of the iteration, flag clear: call the supplier.
StartAttempt ==
    /\ pc = "check" /\ ~interrupted
    /\ pc' = "attempt" /\ attempts' = attempts + 1
    /\ UNCHANGED <<i, deadlineRetried, interrupted, result, told, carried,
                   deadlines, streak, slept>>

\* The supplier returns.  A value that isValid accepts ends the stream; one it
\* rejects is filtered out and the next iteration follows without a sleep.
AttemptReturns(valid) ==
    /\ pc = "attempt"
    /\ \/ valid /\ pc' = "done" /\ result' = "value" /\ UNCHANGED i
       \/ ~valid /\ i = MaxRetries
          /\ pc' = "done" /\ result' = "empty" /\ UNCHANGED i
       \/ ~valid /\ i < MaxRetries
          /\ pc' = "check" /\ i' = i + 1 /\ UNCHANGED result
    /\ UNCHANGED <<deadlineRetried, interrupted, told, carried,
                   attempts, deadlines, streak, slept>>

\* Mutant: the limit is tested one iteration too late.
Verdict_OneMore(kind) ==
    IF kind \in FatalKinds THEN "fatal"
    ELSE IF kind = "deadline" /\ deadlineRetried THEN "deadline"
    ELSE IF i > MaxRetries THEN "exhausted"
    ELSE "none"

\* Mutant: a deadline is retried like any transport error, as before the fix.
Verdict_DeadlineRetried(kind) ==
    IF kind \in FatalKinds THEN "fatal"
    ELSE IF i = MaxRetries THEN "exhausted"
    ELSE "none"

\* What the loop does with a failure: give up, or sleep and go round again.
Verdict(kind) ==
    IF kind \in FatalKinds THEN "fatal"
    ELSE IF kind = "deadline" /\ deadlineRetried THEN "deadline"
    ELSE IF i = MaxRetries THEN "exhausted"
    ELSE "none"

\* Mutant: another failure in between does not reset deadlineRetried.
AttemptFails_NoReset(kind) ==
    /\ pc = "attempt"
    /\ interrupted' \in IF kind = "interrupted" THEN {interrupted, FALSE}
                                                ELSE {interrupted}
    /\ deadlineRetried' = (deadlineRetried \/ kind = "deadline")
    /\ deadlines' = IF kind = "deadline" THEN deadlines + 1 ELSE deadlines
    /\ streak' = IF kind = "deadline" THEN streak + 1 ELSE 0
    /\ result' = Verdict(kind)
    /\ pc' = IF Verdict(kind) = "none" THEN "sleep" ELSE "done"
    /\ carried' = (kind = "interrupted")
    /\ UNCHANGED <<i, told, attempts, slept>>

\* The supplier throws.  Whoever throws an InterruptedException may have
\* cleared the flag (it was raised on the calling thread) or not (it was
\* raised on a thread of the pool that runs the parallel commit).
AttemptFails(kind) ==
    /\ pc = "attempt"
    /\ interrupted' \in IF kind = "interrupted" THEN {interrupted, FALSE}
                                                ELSE {interrupted}
    /\ deadlineRetried' = (kind = "deadline")
    /\ deadlines' = IF kind = "deadline" THEN deadlines + 1 ELSE deadlines
    /\ streak' = IF kind = "deadline" THEN streak + 1 ELSE 0
    /\ result' = Verdict(kind)
    /\ pc' = IF Verdict(kind) = "none" THEN "sleep" ELSE "done"
    /\ carried' = (kind = "interrupted")
    /\ UNCHANGED <<i, told, attempts, slept>>

SleepElapsed ==
    /\ pc = "sleep" /\ ~interrupted
    /\ pc' = "check" /\ i' = i + 1 /\ slept' = slept + SleepTime(i)
    /\ UNCHANGED <<deadlineRetried, interrupted, result, told, carried,
                   attempts, deadlines, streak>>

\* Mutant: the InterruptedException is logged and the loop goes on, as before
\* the fix ("Failed to sleep").
SleepInterrupted_Swallowed ==
    /\ pc = "sleep" /\ interrupted
    /\ interrupted' = FALSE
    /\ pc' = "check" /\ i' = i + 1
    /\ UNCHANGED <<deadlineRetried, result, told, carried, attempts, deadlines,
                   streak, slept>>

\* Mutant: the flag is restored and the pause started over, which throws again.
SleepInterrupted_SleepAgain ==
    /\ pc = "sleep" /\ interrupted
    /\ interrupted' = TRUE
    /\ UNCHANGED <<pc, i, deadlineRetried, result, told, carried, attempts,
                   deadlines, streak, slept>>

\* Thread.sleep throws and clears the flag; the catch block sets it again and
\* throws, with the InterruptedException as the root cause.
SleepInterrupted ==
    /\ pc = "sleep" /\ interrupted
    /\ interrupted' = TRUE
    /\ pc' = "done" /\ result' = "interrupted" /\ carried' = TRUE
    /\ UNCHANGED <<i, deadlineRetried, told, attempts, deadlines, streak, slept>>

----------------------------------------------------------------------------
LoopStep == CheckInterrupted \/ StartAttempt \/ SleepElapsed \/ SleepInterrupted

AttemptStep == \/ \E valid \in BOOLEAN : AttemptReturns(valid)
               \/ \E kind \in Kinds : AttemptFails(kind)

LoopNext == Interrupt \/ LoopStep \/ AttemptStep

\* The loop runs on a live thread, Thread.sleep elapses, and every attempt
\* ends because its RPCs carry a deadline.  Nobody has to interrupt.
LoopFairness == WF_loopVars(LoopStep) /\ WF_loopVars(AttemptStep)

LoopSpec == LoopInit /\ [][LoopNext]_loopVars /\ LoopFairness

----------------------------------------------------------------------------
\* Types, and the ranges the code's own limits give the counters.
LoopTypeOK ==
    /\ pc \in {"check", "attempt", "sleep", "done"}
    /\ i \in 0..MaxRetries
    /\ deadlineRetried \in BOOLEAN /\ interrupted \in BOOLEAN
    /\ told \in BOOLEAN /\ carried \in BOOLEAN
    /\ result \in Results
    /\ attempts \in Nat /\ deadlines \in Nat /\ streak \in Nat /\ slept \in Nat

\* DEADLINE is retried once in a row (javadoc of Failure): after a second
\* deadline with no failure of another class in between the call is over.  An
\* attempt that returned an invalid value in between does not reset the budget.
DeadlineOnceInARow ==
    streak <= 2 /\ (streak = 2 => pc = "done" /\ result = "deadline")

\* A worker held by a stalled store waits for a bounded number of RPC
\* deadlines even when other failures in between keep resetting the budget:
\* at most one attempt in two, plus the last one.
DeadlineBudget == 2 * deadlines <= MaxRetries + 3

\* Twice the seconds the schedule sleeps in its first n pauses.
TwiceSchedule(n) == IF n < 3 THEN 2 * n ELSE 4 + (n - 1) * (n - 2)

\* ... and sleeps no longer than the whole schedule, 38 s for ten retries.
BackoffBudget == 2 * slept <= TwiceSchedule(MaxRetries)

\* An interrupt that reached the thread before the call ended is never
\* swallowed: when the call has ended without a value, the flag is still set
\* for the caller or the exception holds the InterruptedException.
InterruptNotSwallowed ==
    (told /\ pc = "done") => (interrupted \/ carried)

\* An interrupt that has been delivered is never followed by a new attempt.
NoAttemptAfterInterrupt == [][told => attempts' = attempts]_loopVars

\* The call always ends: the thread is given back to its pool.
CallEnds == <>(pc = "done")

----------------------------------------------------------------------------
\* Why the properties hold: how the counters follow the iteration, and that
\* the code's deadlineRetried agrees with the streak of deadlines.
Progress ==
    /\ pc = "check" => attempts = i
    /\ pc \in {"attempt", "sleep"} => attempts = i + 1
    /\ attempts <= i + 1
Streak ==
    pc # "done" => streak = IF deadlineRetried THEN 1 ELSE 0
Budgets ==
    /\ pc \in {"check", "attempt"} =>
          2 * deadlines <= i + (IF deadlineRetried THEN 1 ELSE 0)
    /\ pc = "sleep" =>
          2 * deadlines <= i + 1 + (IF deadlineRetried THEN 1 ELSE 0)
    /\ 2 * deadlines <= i + 3
    /\ 2 * slept <= TwiceSchedule(i)
    /\ pc = "sleep" => i < MaxRetries
Told == told => interrupted \/ (pc = "done" /\ carried)

LoopInv == /\ LoopTypeOK /\ Progress /\ Streak /\ Budgets /\ Told
           /\ DeadlineOnceInARow

----------------------------------------------------------------------------
\* The loop implements the promise of BoundedCall.
Promise == INSTANCE BoundedCall
               WITH MaxTries <- MaxRetries + 1, tries <- attempts,
                    told <- told, over <- (pc = "done")

PromiseSpec == Promise!Spec
============================================================================
