------------------------ MODULE NodeTxExecutorProofs ------------------------
(***************************************************************************)
(* Proofs about the retry loop for every number of retries, and about the  *)
(* commit of a store transaction that runs in it, for every set of         *)
(* entries, sessions and throwables.  LoopInv is inductive for the loop;   *)
(* the safety properties the runs check, and the refinement of             *)
(* BoundedCall, follow from it.  The commit takes only steps of the loop,  *)
(* so it inherits LoopInv.                                                 *)
(***************************************************************************)
EXTENDS NodeTxExecutor, TLAPS

(* The retry loop *)
\* One more pause lengthens the schedule by exactly that pause.
LEMMA ScheduleStep ==
    ASSUME NEW n \in Nat
    PROVE  TwiceSchedule(n + 1) = TwiceSchedule(n) + 2 * SleepTime(n)
<1>1. CASE n < 2
  BY <1>1 DEF TwiceSchedule, SleepTime
<1>2. CASE n = 2
  BY <1>2 DEF TwiceSchedule, SleepTime
<1>3. CASE n > 2
  <2>1. n * (n - 1) = (n - 1) * (n - 2) + 2 * (n - 1)
    BY <1>3
  <2>2. TwiceSchedule(n + 1) = 4 + n * (n - 1)
    BY <1>3 DEF TwiceSchedule
  <2>3. TwiceSchedule(n) = 4 + (n - 1) * (n - 2) /\ SleepTime(n) = n - 1
    BY <1>3 DEF TwiceSchedule, SleepTime
  <2> QED BY <2>1, <2>2, <2>3
<1> QED BY <1>1, <1>2, <1>3

\* The schedule grows with the number of pauses.
LEMMA ScheduleMonotone ==
    ASSUME NEW m \in Nat, NEW n \in Nat, m <= n
    PROVE  TwiceSchedule(m) <= TwiceSchedule(n)
<1>1. CASE n < 3
  BY <1>1 DEF TwiceSchedule
<1>2. CASE n >= 3 /\ m < 3
  <2>1. (n - 1) * (n - 2) >= 2
    BY <1>2
  <2> QED BY <1>2, <2>1 DEF TwiceSchedule
<1>3. CASE m >= 3
  <2>1. (m - 1) * (m - 2) <= (n - 1) * (n - 2)
    BY <1>3
  <2> QED BY <1>3, <2>1 DEF TwiceSchedule
<1> QED BY <1>1, <1>2, <1>3

----------------------------------------------------------------------------
\* A call starts in a state that satisfies LoopInv, interrupted or not.
LEMMA LoopInitInv == LoopInit => LoopInv
<1> SUFFICES ASSUME LoopInit PROVE LoopInv
  OBVIOUS
<1>1. /\ i = 0 /\ attempts = 0 /\ deadlines = 0 /\ streak = 0 /\ slept = 0
      /\ pc = "check" /\ result = "none" /\ ~deadlineRetried
  BY DEF LoopInit
<1>2. /\ deadlineRetried \in BOOLEAN /\ interrupted \in BOOLEAN
      /\ told \in BOOLEAN /\ carried \in BOOLEAN /\ (told => interrupted)
  BY Zenon DEF LoopInit
<1>3. LoopTypeOK
  BY <1>1, <1>2, MaxRetriesAssumption DEF LoopTypeOK, Results
<1>4. Progress /\ Streak /\ DeadlineOnceInARow
  BY <1>1 DEF Progress, Streak, DeadlineOnceInARow
<1>5. Budgets
  BY <1>1, MaxRetriesAssumption DEF Budgets, TwiceSchedule
<1>6. Told
  BY <1>2 DEF Told
<1> QED BY <1>3, <1>4, <1>5, <1>6 DEF LoopInv

\* Every step of the loop, and the interrupt between two steps, preserves
\* LoopInv.
LEMMA LoopNextInv == LoopInv /\ [LoopNext]_loopVars => LoopInv'
<1> SUFFICES ASSUME LoopInv, [LoopNext]_loopVars PROVE LoopInv'
  OBVIOUS
<1>a. LoopTypeOK /\ Progress /\ Streak /\ Budgets /\ Told /\ DeadlineOnceInARow
  BY DEF LoopInv
<1>b. MaxRetries \in Nat /\ i \in Nat /\ TwiceSchedule(i) \in Int
  BY <1>a, MaxRetriesAssumption DEF LoopTypeOK, TwiceSchedule
<1>1. CASE Interrupt
  <2>1. LoopTypeOK'
    BY <1>1, <1>a DEF Interrupt, LoopTypeOK
  <2>2. Progress' /\ Streak' /\ DeadlineOnceInARow' /\ Budgets'
    BY <1>1, <1>a DEF Interrupt, Progress, Streak, DeadlineOnceInARow, Budgets, TwiceSchedule
  <2>3. Told'
    BY <1>1 DEF Interrupt, Told
  <2> QED BY <2>1, <2>2, <2>3 DEF LoopInv
<1>2. CASE CheckInterrupted
  <2>1. LoopTypeOK'
    BY <1>2, <1>a DEF CheckInterrupted, LoopTypeOK, Results, Thrown
  <2>2. Progress' /\ Streak' /\ DeadlineOnceInARow'
    BY <1>2, <1>a DEF CheckInterrupted, Progress, Streak, DeadlineOnceInARow
  <2>3. Budgets'
    BY <1>2, <1>a DEF CheckInterrupted, Budgets, TwiceSchedule
  <2>4. Told'
    BY <1>2 DEF CheckInterrupted, Told
  <2> QED BY <2>1, <2>2, <2>3, <2>4 DEF LoopInv
<1>3. CASE StartAttempt
  <2>1. LoopTypeOK'
    BY <1>3, <1>a DEF StartAttempt, LoopTypeOK
  <2>2. Progress' /\ Streak' /\ DeadlineOnceInARow'
    BY <1>3, <1>a, <1>b DEF StartAttempt, Progress, Streak, DeadlineOnceInARow
  <2>3. Budgets'
    BY <1>3, <1>a DEF StartAttempt, Budgets, TwiceSchedule
  <2>4. Told'
    BY <1>3, <1>a DEF StartAttempt, Told
  <2> QED BY <2>1, <2>2, <2>3, <2>4 DEF LoopInv
<1>4. ASSUME NEW valid \in BOOLEAN, AttemptReturns(valid)
      PROVE  LoopInv'
  <2>1. /\ pc = "attempt"
        /\ \/ pc' = "done" /\ i' = i
           \/ pc' = "check" /\ i' = i + 1 /\ i < MaxRetries /\ result' = result
    BY <1>4 DEF AttemptReturns
  <2>2. UNCHANGED <<deadlineRetried, interrupted, told, carried,
                    attempts, deadlines, streak, slept>>
    BY <1>4 DEF AttemptReturns
  <2>3. LoopTypeOK'
    BY <1>4, <1>a, <1>b DEF AttemptReturns, LoopTypeOK, Results
  <2>4. Progress' /\ Streak' /\ DeadlineOnceInARow'
    BY <2>1, <2>2, <1>a, <1>b DEF Progress, Streak, DeadlineOnceInARow
  <2>5. Budgets'
    <3>1. TwiceSchedule(i) <= TwiceSchedule(i') /\ TwiceSchedule(i') \in Int
      BY <2>1, <1>b, ScheduleMonotone DEF TwiceSchedule
    <3>2. slept \in Nat /\ deadlines \in Nat
      BY <1>a DEF LoopTypeOK
    <3>3. 2 * slept' <= TwiceSchedule(i')
      BY <3>1, <3>2, <2>2, <1>a, <1>b DEF Budgets
    <3> QED BY <3>2, <3>3, <2>1, <2>2, <1>a, <1>b DEF Budgets
  <2>6. Told'
    BY <2>1, <2>2, <1>a DEF Told
  <2> QED BY <2>3, <2>4, <2>5, <2>6 DEF LoopInv
<1>5. ASSUME NEW kind \in Kinds, AttemptFails(kind)
      PROVE  LoopInv'
  <2>1. /\ pc = "attempt" /\ UNCHANGED <<i, told, attempts, slept>>
        /\ interrupted' \in {interrupted, FALSE}
        /\ kind # "interrupted" => interrupted' = interrupted
    BY <1>5 DEF AttemptFails
  <2>2. pc' \in {"sleep", "done"} /\ (pc' = "sleep" => i # MaxRetries)
    BY <1>5 DEF AttemptFails, Verdict
  <2>3. result' \in Results
    BY <1>5 DEF AttemptFails, Verdict, Results, Thrown
  <2>4. /\ deadlineRetried' \in BOOLEAN /\ carried' \in BOOLEAN
        /\ deadlineRetried' <=> kind = "deadline"
        /\ carried' <=> kind = "interrupted"
    BY <1>5, Zenon DEF AttemptFails
  <2>5. \/ /\ kind = "deadline" /\ streak' = streak + 1 /\ deadlines' = deadlines + 1
           /\ deadlineRetried => pc' = "done" /\ result' = "deadline"
        \/ kind # "deadline" /\ streak' = 0 /\ deadlines' = deadlines
    BY <1>5 DEF AttemptFails, Verdict, FatalKinds
  <2>6. LoopTypeOK'
    <3>1. interrupted' \in BOOLEAN /\ told' \in BOOLEAN
      BY <2>1, <1>a, Zenon DEF LoopTypeOK
    <3>2. deadlines' \in Nat /\ streak' \in Nat /\ attempts' \in Nat /\ slept' \in Nat
      BY <2>1, <2>5, <1>a DEF LoopTypeOK
    <3>3. pc' \in {"check", "attempt", "sleep", "done"} /\ i' \in 0..MaxRetries
      BY <2>1, <2>2, <1>a DEF LoopTypeOK
    <3> QED BY <3>1, <3>2, <3>3, <2>3, <2>4 DEF LoopTypeOK
  <2>7. Progress'
    BY <2>1, <2>2, <1>a, <1>b DEF Progress
  <2>8. Streak' /\ DeadlineOnceInARow'
    BY <2>1, <2>4, <2>5, <1>a DEF Streak, DeadlineOnceInARow
  <2>9. Budgets'
    <3>1. deadlines \in Nat /\ i <= MaxRetries
      BY <1>a, <1>b DEF LoopTypeOK
    <3>2. 2 * deadlines' <= i' + 3
          /\ (pc' = "sleep" => 2 * deadlines' <= i' + 1 + (IF deadlineRetried' THEN 1 ELSE 0))
      <4>1. CASE kind = "deadline" /\ deadlineRetried
        BY <4>1, <3>1, <2>1, <2>5, <1>a, <1>b DEF Budgets
      <4>2. CASE kind = "deadline" /\ ~deadlineRetried
        BY <4>2, <3>1, <2>1, <2>4, <2>5, <1>a, <1>b DEF Budgets
      <4>3. CASE kind # "deadline"
        BY <4>3, <3>1, <2>1, <2>4, <2>5, <1>a, <1>b DEF Budgets
      <4> QED BY <4>1, <4>2, <4>3
    <3>3. 2 * slept' <= TwiceSchedule(i')
      BY <2>1, <1>a DEF Budgets
    <3> QED BY <3>1, <3>2, <3>3, <2>1, <2>2, <1>b DEF Budgets
  <2>10. Told'
    <3>1. CASE kind = "interrupted"
      <4>1. pc' = "done"
        BY <1>5, <3>1 DEF AttemptFails, Verdict, FatalKinds
      <4> QED BY <4>1, <3>1, <2>4 DEF Told
    <3>2. CASE kind # "interrupted"
      BY <3>2, <2>1, <1>a DEF Told
    <3> QED BY <3>1, <3>2
  <2> QED BY <2>6, <2>7, <2>8, <2>9, <2>10 DEF LoopInv
<1>6. CASE SleepElapsed
  <2>1. SleepTime(i) \in Nat
    BY <1>b DEF SleepTime
  <2>2. TwiceSchedule(i + 1) = TwiceSchedule(i) + 2 * SleepTime(i)
        /\ TwiceSchedule(i + 1) \in Int
    BY <1>b, ScheduleStep DEF TwiceSchedule
  <2>3. /\ pc = "sleep" /\ pc' = "check" /\ i' = i + 1
        /\ slept' = slept + SleepTime(i) /\ i < MaxRetries
        /\ UNCHANGED <<deadlineRetried, interrupted, result, told, carried,
                       attempts, deadlines, streak>>
    BY <1>6, <1>a DEF SleepElapsed, Budgets
  <2>4. LoopTypeOK'
    BY <2>1, <2>3, <1>a, <1>b DEF LoopTypeOK
  <2>5. Progress' /\ Streak' /\ DeadlineOnceInARow'
    BY <2>3, <1>a, <1>b DEF Progress, Streak, DeadlineOnceInARow
  <2>6. Budgets'
    <3>1. slept \in Nat /\ deadlines \in Nat
      BY <1>a DEF LoopTypeOK
    <3>2. 2 * slept' <= TwiceSchedule(i')
      BY <3>1, <2>1, <2>2, <2>3, <1>a, <1>b DEF Budgets
    <3> QED BY <3>1, <3>2, <2>3, <1>a, <1>b DEF Budgets
  <2>7. Told'
    BY <2>3, <1>a DEF Told
  <2> QED BY <2>4, <2>5, <2>6, <2>7 DEF LoopInv
<1>7. CASE SleepInterrupted
  <2>1. LoopTypeOK'
    BY <1>7, <1>a DEF SleepInterrupted, LoopTypeOK, Results, Thrown
  <2>2. Progress' /\ Streak' /\ DeadlineOnceInARow'
    BY <1>7, <1>a, <1>b DEF SleepInterrupted, Progress, Streak, DeadlineOnceInARow
  <2>3. Budgets'
    BY <1>7, <1>a DEF SleepInterrupted, Budgets, TwiceSchedule
  <2>4. Told'
    BY <1>7 DEF SleepInterrupted, Told
  <2> QED BY <2>1, <2>2, <2>3, <2>4 DEF LoopInv
<1>8. CASE UNCHANGED loopVars
  BY <1>8, <1>a
     DEF loopVars, LoopInv, LoopTypeOK, Progress, Streak, Budgets, Told,
         DeadlineOnceInARow, TwiceSchedule
<1> QED
  BY <1>1, <1>2, <1>3, <1>4, <1>5, <1>6, <1>7, <1>8
     DEF LoopNext, LoopStep, AttemptStep

\* The invariant holds in every state the loop reaches.
THEOREM LoopInvariant == LoopSpec => []LoopInv
BY LoopInitInv, LoopNextInv, PTL DEF LoopSpec

\* retryingInvoke is well typed and its iteration index stays in range.
THEOREM LoopTypeCorrect == LoopSpec => []LoopTypeOK
<1>1. LoopInv => LoopTypeOK
  BY DEF LoopInv
<1> QED BY <1>1, LoopInvariant, PTL

\* A second deadline in a row ends the call, for every number of retries.
THEOREM DeadlineRetriedOnce == LoopSpec => []DeadlineOnceInARow
<1>1. LoopInv => DeadlineOnceInARow
  BY DEF LoopInv
<1> QED BY <1>1, LoopInvariant, PTL

\* A call waits for at most half its attempts' deadlines, plus one, ...
THEOREM DeadlinesBounded == LoopSpec => []DeadlineBudget
<1>1. LoopInv => DeadlineBudget
  BY MaxRetriesAssumption DEF LoopInv, LoopTypeOK, Budgets, DeadlineBudget
<1> QED BY <1>1, LoopInvariant, PTL

\* ... and sleeps no longer than the whole schedule.
THEOREM BackoffBounded == LoopSpec => []BackoffBudget
<1>1. LoopInv => BackoffBudget
  <2> SUFFICES ASSUME LoopInv PROVE BackoffBudget
    OBVIOUS
  <2>1. i \in Nat /\ MaxRetries \in Nat /\ i <= MaxRetries /\ slept \in Nat
    BY MaxRetriesAssumption DEF LoopInv, LoopTypeOK
  <2>2. TwiceSchedule(i) <= TwiceSchedule(MaxRetries)
    BY <2>1, ScheduleMonotone
  <2>3. TwiceSchedule(i) \in Int /\ TwiceSchedule(MaxRetries) \in Int
    BY <2>1 DEF TwiceSchedule
  <2> QED BY <2>1, <2>2, <2>3 DEF LoopInv, Budgets, BackoffBudget
<1> QED BY <1>1, LoopInvariant, PTL

\* No interrupt delivered to the calling thread is lost.
THEOREM InterruptKept == LoopSpec => []InterruptNotSwallowed
<1>1. LoopInv => InterruptNotSwallowed
  BY DEF LoopInv, Told, InterruptNotSwallowed
<1> QED BY <1>1, LoopInvariant, PTL

\* One step: an interrupted thread is stopped at the head of the iteration,
\* before the supplier is called.
LEMMA InterruptStepStops ==
    LoopInv /\ [LoopNext]_loopVars => [told => attempts' = attempts]_loopVars
BY DEF LoopInv, Told, LoopNext, LoopStep, AttemptStep, Interrupt, CheckInterrupted,
       StartAttempt, AttemptReturns, AttemptFails, SleepElapsed, SleepInterrupted,
       loopVars

\* No attempt starts once an interrupt has been delivered: the caller that gave
\* up gets its thread back after the attempt that is running.
THEOREM InterruptStopsAttempts == LoopSpec => NoAttemptAfterInterrupt
BY LoopInvariant, InterruptStepStops, PTL DEF LoopSpec, NoAttemptAfterInterrupt

----------------------------------------------------------------------------
\* The refinement of BoundedCall: a call that starts has made no try, ...
LEMMA PromiseInit == LoopInit => Promise!Init
BY DEF LoopInit, Promise!Init

\* ... and every step of the loop is a step of the promise or a stutter.
LEMMA PromiseStep == LoopInv /\ [LoopNext]_loopVars => [Promise!Next]_(Promise!vars)
<1> SUFFICES ASSUME LoopInv, [LoopNext]_loopVars
             PROVE  Promise!Next \/ UNCHANGED Promise!vars
  OBVIOUS
<1> USE DEF Promise!Next, Promise!Try, Promise!Deliver, Promise!Finish, Promise!vars
<1>1. CASE Interrupt
  BY <1>1 DEF Interrupt
<1>2. CASE CheckInterrupted
  BY <1>2 DEF CheckInterrupted
<1>3. CASE StartAttempt
  BY <1>3, MaxRetriesAssumption
     DEF StartAttempt, LoopInv, LoopTypeOK, Progress, Told
<1>4. ASSUME NEW valid \in BOOLEAN, AttemptReturns(valid)
      PROVE  Promise!Next \/ UNCHANGED Promise!vars
  BY <1>4 DEF AttemptReturns
<1>5. ASSUME NEW kind \in Kinds, AttemptFails(kind)
      PROVE  Promise!Next \/ UNCHANGED Promise!vars
  BY <1>5 DEF AttemptFails
<1>6. CASE SleepElapsed
  BY <1>6 DEF SleepElapsed
<1>7. CASE SleepInterrupted
  BY <1>7 DEF SleepInterrupted
<1>8. CASE UNCHANGED loopVars
  BY <1>8 DEF loopVars
<1> QED
  BY <1>1, <1>2, <1>3, <1>4, <1>5, <1>6, <1>7, <1>8
     DEF LoopNext, LoopStep, AttemptStep

\* Whatever the number of retries, the loop keeps the promise of BoundedCall
\* with MaxRetries + 1 tries.
THEOREM LoopKeepsPromise == LoopSpec => PromiseSpec
BY LoopInvariant, PromiseInit, PromiseStep, PTL
   DEF LoopSpec, PromiseSpec, Promise!Spec

----------------------------------------------------------------------------
(* The commit *)
\* Whatever is thrown, classify gives it one of the kinds the loop knows.
LEMMA ClassifyKind == \A t : Classify(t) \in Kinds
BY DEF Classify, Kinds, FatalKinds

\* The commit takes only steps of the retry loop.
LEMMA ExecutorLoopStep == [Next]_vars => [LoopNext]_loopVars
<1> SUFFICES ASSUME [Next]_vars PROVE LoopNext \/ UNCHANGED loopVars
  OBVIOUS
<1> USE DEF LoopNext, LoopStep, AttemptStep
<1>1. CASE LoopOnly
  BY <1>1 DEF LoopOnly
<1>2. CASE BeginSupplier
  BY <1>2 DEF BeginSupplier
<1>3. ASSUME NEW t \in Throwables, ActionFails(t)
      PROVE  LoopNext
  BY <1>3, ClassifyKind DEF ActionFails
<1>4. CASE AllCommitted
  BY <1>4 DEF AllCommitted
<1>5. CASE RollBackAndThrow
  BY <1>5, ClassifyKind DEF RollBackAndThrow
<1>6. CASE \/ \E e \in Entries, s \in Sessions : DoAction(e, s)
           \/ BeginCommit
           \/ \E s \in Sessions : CommitSucceeds(s)
           \/ \E s \in Sessions, t \in Throwables : CommitFails(s, t)
           \/ \E e \in Entries : DoActionRefused(e) \/ LateCommit(e)
  BY <1>6 DEF DoAction, DoActionRefused, BeginCommit, CommitSucceeds, CommitFails, LateCommit
<1>7. CASE UNCHANGED vars
  BY <1>7 DEF vars
<1> QED
  BY <1>1, <1>2, <1>3, <1>4, <1>5, <1>6, <1>7 DEF Next, SupplierStep

\* The invariant of the retry loop holds for the commit that runs in it.
THEOREM ExecutorLoopInvariant == Spec => []LoopInv
<1>1. Init => LoopInv
  BY LoopInitInv DEF Init
<1>2. LoopInv /\ [Next]_vars => LoopInv'
  BY LoopNextInv, ExecutorLoopStep
<1> QED BY <1>1, <1>2, PTL DEF Spec

----------------------------------------------------------------------------
\* The inductive invariant of a commit; LoopInv is the part of the loop.  A call
\* that goes on has no result yet.
Undecided == pc # "done" => result = "none"

TxInv == TypeOK /\ Undecided /\ Delivery

\* A new executor has buffered and delivered nothing and satisfies TxInv.
LEMMA TxInitInv == Init => TxInv
<1> SUFFICES ASSUME Init PROVE TxInv
  OBVIOUS
<1>1. LoopTypeOK
  BY LoopInitInv DEF Init, LoopInv
<1>2. TypeOK
  BY <1>1 DEF Init, TypeOK
<1>3. result = "none" /\ phase = "idle"
  BY DEF Init, LoopInit
<1>4. Delivery
  BY <1>3 DEF Delivery, SuccessDeliversAll
<1> QED BY <1>2, <1>3, <1>4 DEF TxInv, Undecided

\* Types are preserved by every step of the supplier.
LEMMA TxTypeStep == TypeOK /\ LoopTypeOK' /\ [Next]_vars => TypeOK'
<1> SUFFICES ASSUME TypeOK, LoopTypeOK', [Next]_vars PROVE TypeOK'
  OBVIOUS
<1> USE DEF TypeOK
<1>1. CASE LoopOnly
  BY <1>1 DEF LoopOnly, txVars
<1>2. CASE BeginSupplier
  BY <1>2 DEF BeginSupplier
<1>3. ASSUME NEW e \in Entries, NEW s \in Sessions, DoAction(e, s) PROVE TypeOK'
  BY <1>3 DEF DoAction
<1>4. ASSUME NEW t \in Throwables, ActionFails(t) PROVE TypeOK'
  BY <1>4 DEF ActionFails
<1>5. CASE BeginCommit
  BY <1>5 DEF BeginCommit
<1>6. ASSUME NEW s \in Sessions, CommitSucceeds(s) PROVE TypeOK'
  BY <1>6 DEF CommitSucceeds
<1>7. ASSUME NEW s \in Sessions, NEW t \in Throwables, CommitFails(s, t) PROVE TypeOK'
  BY <1>7 DEF CommitFails
<1>8. CASE AllCommitted
  BY <1>8 DEF AllCommitted
<1>9. CASE RollBackAndThrow
  <2>1. buffer' \in [Sessions -> SUBSET Entries]
    BY <1>9 DEF RollBackAndThrow
  <2> QED BY <1>9, <2>1 DEF RollBackAndThrow
<1>10. ASSUME NEW e \in Entries, DoActionRefused(e) \/ LateCommit(e) PROVE TypeOK'
  BY <1>10 DEF DoActionRefused, LateCommit
<1>11. CASE UNCHANGED vars
  BY <1>11 DEF vars, txVars
<1> QED
  BY <1>1, <1>2, <1>3, <1>4, <1>5, <1>6, <1>7, <1>8, <1>9, <1>10, <1>11
     DEF Next, SupplierStep

\* A failure never ends the call with a value.
LEMMA FailureIsNoValue ==
    ASSUME NEW kind, AttemptFails(kind) PROVE result' # "value"
BY DEF AttemptFails, Verdict

\* A call gets its result in the step that ends it.
LEMMA UndecidedStep == Undecided /\ [Next]_vars => Undecided'
<1> SUFFICES ASSUME Undecided, [Next]_vars PROVE Undecided'
  OBVIOUS
<1> USE DEF Undecided
<1>1. CASE LoopOnly
  BY <1>1 DEF LoopOnly, Interrupt, CheckInterrupted, SleepElapsed, SleepInterrupted
<1>2. CASE BeginSupplier
  BY <1>2 DEF BeginSupplier, StartAttempt
<1>3. ASSUME NEW t \in Throwables, ActionFails(t) PROVE Undecided'
  BY <1>3 DEF ActionFails, AttemptFails
<1>4. CASE AllCommitted
  BY <1>4 DEF AllCommitted, AttemptReturns
<1>5. CASE RollBackAndThrow
  BY <1>5 DEF RollBackAndThrow, AttemptFails
<1>6. CASE UNCHANGED <<pc, result>>
  BY <1>6
<1> QED
  BY <1>1, <1>2, <1>3, <1>4, <1>5, <1>6
     DEF Next, SupplierStep, DoAction, DoActionRefused, BeginCommit, CommitSucceeds,
         CommitFails, LateCommit, vars, loopVars

\* No step loses track of an entry: what leaves todo enters a buffer, what
\* leaves a buffer by a commit enters a store.
LEMMA DeliveryStep == TypeOK /\ Undecided /\ Delivery /\ [Next]_vars => Delivery'
<1> SUFFICES ASSUME TypeOK, Undecided, Delivery, [Next]_vars PROVE Delivery'
  OBVIOUS
<1> USE DEF Delivery, SuccessDeliversAll, Buffered
<1>1. CASE LoopOnly
  <2>1. result' # "value" \/ result' = result
    BY <1>1 DEF LoopOnly, Interrupt, CheckInterrupted, SleepElapsed, SleepInterrupted
  <2> QED BY <1>1, <2>1 DEF LoopOnly, txVars
<1>2. CASE BeginSupplier
  BY <1>2 DEF BeginSupplier, StartAttempt, Undecided
<1>3. ASSUME NEW e \in Entries, NEW s \in Sessions, DoAction(e, s) PROVE Delivery'
  <2>1. UNCHANGED <<result, phase, applied, refused>> /\ phase = "actions"
    BY <1>3 DEF DoAction, loopVars
  <2>2. todo' = todo \ {e} /\ buffer' = [buffer EXCEPT ![s] = @ \cup {e}]
    BY <1>3 DEF DoAction
  <2>3. \A r \in Sessions : buffer[r] \subseteq buffer'[r]
    BY <2>2 DEF TypeOK
  <2>4. e \in buffer'[s]
    BY <2>2 DEF TypeOK
  <2>5. Entries \subseteq todo' \cup refused' \cup Buffered(Sessions)'
    BY <2>1, <2>2, <2>3, <2>4
  <2> QED BY <2>1, <2>5
<1>4. ASSUME NEW t \in Throwables, ActionFails(t) PROVE Delivery'
  BY <1>4, FailureIsNoValue DEF ActionFails
<1>5. CASE BeginCommit
  <2>1. UNCHANGED <<result, applied, buffer, refused>> /\ phase' = "commit"
    BY <1>5 DEF BeginCommit, loopVars
  <2>2. phase = "actions" /\ todo = {} /\ pending' = {s \in Sessions : buffer[s] # {}}
    BY <1>5 DEF BeginCommit
  <2>3. Buffered(Sessions) = UNION {buffer[s] : s \in pending'}
    BY <2>2
  <2> QED BY <2>1, <2>2, <2>3
<1>6. ASSUME NEW s \in Sessions, CommitSucceeds(s) PROVE Delivery'
  <2>1. /\ UNCHANGED <<result, phase, failures, todo, refused>> /\ s \in pending
        /\ pending' = pending \ {s} /\ applied' = applied \cup buffer[s]
        /\ buffer' = [buffer EXCEPT ![s] = {}]
    BY <1>6 DEF CommitSucceeds, loopVars
  <2>2. \A r \in Sessions \ {s} : buffer'[r] = buffer[r]
    BY <2>1 DEF TypeOK
  <2>3. Buffered(pending) \subseteq buffer[s] \cup Buffered(pending)'
    BY <2>1, <2>2 DEF TypeOK
  <2>4. phase # "actions"
    BY <1>6 DEF CommitSucceeds
  <2> QED BY <2>1, <2>3, <2>4
<1>7. ASSUME NEW s \in Sessions, NEW t \in Throwables, CommitFails(s, t) PROVE Delivery'
  <2>1. failures' # <<>> /\ UNCHANGED <<result, phase, todo, buffer, applied, refused>>
    BY <1>7 DEF CommitFails, loopVars, TypeOK
  <2> QED BY <2>1
<1>8. CASE AllCommitted
  <2>1. /\ phase = "commit" /\ pending = {} /\ failures = <<>>
        /\ phase' = "idle" /\ UNCHANGED <<applied, refused>>
    BY <1>8 DEF AllCommitted
  <2>2. Entries \subseteq applied \cup refused
    BY <2>1
  <2> QED BY <2>1, <2>2
<1>9. CASE RollBackAndThrow
  BY <1>9, FailureIsNoValue DEF RollBackAndThrow
<1>10. ASSUME NEW e \in Entries, DoActionRefused(e) PROVE Delivery'
  BY <1>10 DEF DoActionRefused, loopVars
<1>11. ASSUME NEW e \in Entries, LateCommit(e) PROVE Delivery'
  BY <1>11 DEF LateCommit, loopVars
<1>12. CASE UNCHANGED vars
  BY <1>12 DEF vars, txVars, loopVars
<1> QED
  BY <1>1, <1>2, <1>3, <1>4, <1>5, <1>6, <1>7, <1>8, <1>9, <1>10, <1>11, <1>12
     DEF Next, SupplierStep

\* Every step of the loop and of the supplier preserves TxInv.
LEMMA TxNextInv == LoopInv /\ TxInv /\ [Next]_vars => TxInv'
<1> SUFFICES ASSUME LoopInv, TxInv, [Next]_vars PROVE TxInv'
  OBVIOUS
<1>1. LoopTypeOK'
  BY LoopNextInv, ExecutorLoopStep DEF LoopInv
<1>2. TypeOK'
  BY <1>1, TxTypeStep DEF TxInv
<1>3. Delivery'
  BY DeliveryStep DEF TxInv
<1>4. Undecided'
  BY UndecidedStep DEF TxInv
<1> QED BY <1>2, <1>3, <1>4 DEF TxInv

\* TxInv holds in every state a commit reaches.
THEOREM ExecutorInvariant == Spec => []TxInv
<1>1. LoopInv /\ TxInv /\ [Next]_vars => TxInv'
  BY TxNextInv
<1> QED BY <1>1, TxInitInv, ExecutorLoopInvariant, PTL DEF Spec

\* The executor is well typed.
THEOREM ExecutorTypeCorrect == Spec => []TypeOK
<1>1. TxInv => TypeOK
  BY DEF TxInv
<1> QED BY <1>1, ExecutorInvariant, PTL

\* A commit that reports success has delivered every write whose action was not
\* refused, for any number of stores, attempts, partial commits and failed
\* rollbacks.
THEOREM CommitDelivers == Spec => []SuccessDeliversAll
<1>1. TxInv => SuccessDeliversAll
  BY DEF TxInv, Delivery
<1> QED BY <1>1, ExecutorInvariant, PTL

----------------------------------------------------------------------------
(***************************************************************************)
(* The retry decision and the order in which the commits fail.  aggregate  *)
(* drops the outermost link of the first failure when that link has a      *)
(* cause, so the claim of the javadoc rests on an assumption about what a  *)
(* session may throw: an exception with a cause is a plain wrapper.        *)
(***************************************************************************)
WrappersArePlain == \A t \in Throwables : Len(t) > 1 => t[1] = "plain"

\* classify sees the same severe exceptions whether or not plain ones are
\* among them.
LEMMA ClassifyIgnoresPlain ==
    ASSUME NEW t, NEW u,
           Visited(t) \ {"plain"} = Visited(u) \ {"plain"}
    PROVE  Classify(t) = Classify(u)
<1>1. \A x \in {"interrupted", "cancelled", "deadline"} :
          x \in Visited(t) <=> x \in Visited(u)
  OBVIOUS
<1> QED BY <1>1 DEF Classify

\* A value of a function is in its range.
LEMMA RangeMember ==
    ASSUME NEW S, NEW f \in Seq(S), NEW k \in 1..Len(f)
    PROVE  f[k] \in Range(f)
<1>1. k \in DOMAIN f
  OBVIOUS
<1> QED BY <1>1, Zenon DEF Range

\* The aggregate of some failures visits all of them but plain wrappers.
LEMMA AggregateVisitsAll ==
    ASSUME WrappersArePlain, NEW fs \in Seq(Throwables), fs # <<>>
    PROVE  Classify(Aggregate(fs)) = Worst(fs)
<1> DEFINE first == Head(fs)
           rest == Tail(fs)
           agg == Aggregate(fs)
           all == [chain |-> <<>>, suppressed |-> Range(fs)]
<1>1. /\ first \in Throwables /\ first \in Seq(Links)
      /\ Len(first) \in Nat \ {0} /\ Len(fs) \in Nat \ {0}
  <2>1. first \in Throwables
    OBVIOUS
  <2>2. first \in Seq(Links) /\ first # <<>>
    BY <2>1, ThrowablesAssumption
  <2> QED BY <2>1, <2>2
<1>2. Range(fs) = {first} \cup Range(rest)
  <2>1. \A x \in Range(fs) : x = first \/ x \in Range(rest)
    <3> TAKE x \in Range(fs)
    <3>1. PICK k \in 1..Len(fs) : x = fs[k]
      BY DEF Range
    <3>a. k = 1 \/ k > 1
      BY <1>1
    <3>2. CASE k = 1
      BY <3>1, <3>2
    <3>3. CASE k > 1
      <4>1. k - 1 \in 1..Len(rest) /\ rest[k - 1] = x /\ rest \in Seq(Throwables)
        BY <3>1, <3>3
      <4> QED BY <4>1, RangeMember
    <3> QED BY <3>a, <3>2, <3>3
  <2>2. first \in Range(fs)
    BY DEF Range
  <2>3. \A x \in Range(rest) : x \in Range(fs)
    <3> TAKE x \in Range(rest)
    <3>1. PICK k \in 1..Len(rest) : x = rest[k]
      BY DEF Range
    <3> QED BY <3>1 DEF Range
  <2> QED BY <2>1, <2>2, <2>3
<1>3. Range(agg.chain) \ {"plain"} = Range(first) \ {"plain"}
  <2>1. CASE ~(Len(first) > 1)
    <3>1. agg.chain = first
      BY <2>1 DEF Aggregate
    <3> QED BY <3>1
  <2>2. CASE Len(first) > 1
    <3>1. agg.chain = Tail(first) /\ first[1] = "plain"
      BY <1>1, <2>2 DEF Aggregate, WrappersArePlain
    <3>2. \A x \in Range(first) : x = "plain" \/ x \in Range(Tail(first))
      <4> TAKE x \in Range(first)
      <4>1. PICK k \in 1..Len(first) : x = first[k]
        BY <1>1 DEF Range
      <4>a. k = 1 \/ k > 1
        BY <1>1
      <4>2. CASE k = 1
        BY <3>1, <4>1, <4>2
      <4>3. CASE k > 1
        <5>1. /\ k - 1 \in 1..Len(Tail(first)) /\ Tail(first)[k - 1] = x
              /\ Tail(first) \in Seq(Links)
          BY <1>1, <4>1, <4>3
        <5> QED BY <5>1, RangeMember
      <4> QED BY <4>a, <4>2, <4>3
    <3>3. \A x \in Range(Tail(first)) : x \in Range(first)
      <4> TAKE x \in Range(Tail(first))
      <4>1. PICK k \in 1..Len(Tail(first)) : x = Tail(first)[k]
        BY <1>1 DEF Range
      <4> QED BY <1>1, <4>1 DEF Range
    <3>4. Range(Tail(first)) \ {"plain"} = Range(first) \ {"plain"}
      BY <3>2, <3>3
    <3> QED BY <3>1, <3>4
  <2> QED BY <2>1, <2>2
<1>4. Visited(agg) = Range(agg.chain) \cup UNION {Range(s) : s \in Range(rest)}
  BY DEF Visited, Aggregate
<1>5. Visited(all) = UNION {Range(s) : s \in Range(fs)}
  <2>1. Range(<<>>) = {}
    BY DEF Range
  <2> QED BY <2>1 DEF Visited
<1>6. Visited(agg) \ {"plain"} = Visited(all) \ {"plain"}
  BY <1>2, <1>3, <1>4, <1>5
<1> QED BY <1>6, ClassifyIgnoresPlain DEF Worst

\* Under that assumption the decision to retry is the same for every order
\* of arrival of the failures of a parallel commit.
THEOREM DecisionStable == ASSUME WrappersArePlain
                          PROVE  Spec => []DecisionIgnoresOrder
<1>1. TxInv => DecisionIgnoresOrder
  BY AggregateVisitsAll DEF TxInv, TypeOK, DecisionIgnoresOrder
<1> QED BY <1>1, ExecutorInvariant, PTL

----------------------------------------------------------------------------
\* The supplier runs within an attempt of the loop, and ends with it; and a write
\* of a failed commit is on its way to a store only after an attempt has failed.
SupplierWithinAttempt ==
    /\ phase # "idle" => pc = "attempt"
    /\ attempts = 0 => lost = {}
    /\ (attempts = 1 /\ phase = "actions") => lost = {}
    /\ (attempts = 1 /\ phase = "commit" /\ failures = <<>>) => lost = {}
    /\ (attempts = 1 /\ result = "value") => lost = {}

\* Every step of the executor keeps the supplier within its attempt.
LEMMA SupplierStepWithin ==
    LoopInv /\ TxInv /\ SupplierWithinAttempt /\ [Next]_vars => SupplierWithinAttempt'
<1> SUFFICES ASSUME LoopInv, TxInv, SupplierWithinAttempt, [Next]_vars
             PROVE  SupplierWithinAttempt'
  OBVIOUS
<1>a. /\ attempts \in Nat /\ i \in Nat
      /\ pc = "attempt" => attempts >= 1
      /\ pc = "check" => attempts = i
  BY DEF LoopInv, LoopTypeOK, Progress
<1> USE DEF SupplierWithinAttempt
<1>1. CASE LoopOnly
  <2>1. /\ UNCHANGED <<phase, lost, failures, attempts>>
        /\ result' = result \/ result' # "value"
        /\ pc = "attempt" => pc' = "attempt"
    BY <1>1 DEF LoopOnly, Interrupt, CheckInterrupted, SleepElapsed, SleepInterrupted, txVars
  <2> QED BY <2>1
<1>2. CASE BeginSupplier
  <2>1. /\ phase' = "actions" /\ pc' = "attempt" /\ UNCHANGED <<lost, failures, result>>
        /\ attempts' = attempts + 1 /\ pc = "check"
    BY <1>2 DEF BeginSupplier, StartAttempt
  <2>2. result = "none"
    BY <2>1 DEF TxInv, Undecided
  <2> QED BY <1>a, <2>1, <2>2
<1>3. ASSUME NEW e \in Entries, NEW s \in Sessions, DoAction(e, s)
      PROVE  SupplierWithinAttempt'
  BY <1>3 DEF DoAction, loopVars
<1>4. ASSUME NEW t \in Throwables, ActionFails(t) PROVE SupplierWithinAttempt'
  <2>1. /\ phase' = "idle" /\ UNCHANGED <<lost, failures, attempts>>
        /\ pc = "attempt" /\ result' # "value"
    BY <1>4, FailureIsNoValue DEF ActionFails, AttemptFails
  <2> QED BY <1>a, <2>1
<1>5. CASE BeginCommit
  BY <1>5 DEF BeginCommit, loopVars
<1>6. ASSUME NEW s \in Sessions, CommitSucceeds(s) PROVE SupplierWithinAttempt'
  BY <1>6 DEF CommitSucceeds, loopVars
<1>7. ASSUME NEW s \in Sessions, NEW t \in Throwables, CommitFails(s, t)
      PROVE  SupplierWithinAttempt'
  <2>1. /\ phase = "commit" /\ UNCHANGED <<pc, result, attempts, phase>>
        /\ failures' # <<>>
    BY <1>7 DEF CommitFails, loopVars, TxInv, TypeOK
  <2>2. result = "none"
    BY <2>1 DEF SupplierWithinAttempt, TxInv, Undecided
  <2> QED BY <1>a, <2>1, <2>2
<1>8. CASE AllCommitted
  <2>1. /\ phase = "commit" /\ failures = <<>> /\ phase' = "idle" /\ pc' = "done"
        /\ UNCHANGED <<lost, failures, attempts>>
    BY <1>8 DEF AllCommitted, AttemptReturns
  <2> QED BY <1>a, <2>1
<1>9. CASE RollBackAndThrow
  <2>1. /\ phase' = "idle" /\ UNCHANGED <<lost, failures, attempts>>
        /\ pc = "attempt" /\ result' # "value"
    BY <1>9, FailureIsNoValue DEF RollBackAndThrow, AttemptFails
  <2> QED BY <1>a, <2>1
<1>10. ASSUME NEW e \in Entries, DoActionRefused(e) \/ LateCommit(e)
       PROVE  SupplierWithinAttempt'
  BY <1>10 DEF DoActionRefused, LateCommit, loopVars
<1>11. CASE UNCHANGED vars
  BY <1>11 DEF vars, txVars, loopVars
<1> QED
  BY <1>1, <1>2, <1>3, <1>4, <1>5, <1>6, <1>7, <1>8, <1>9, <1>10, <1>11
     DEF Next, SupplierStep

\* commitSessions waits for every commit it has started, so its sessions are at
\* rest when the call returns.  What can still reach a store is a write of a
\* request the client gave up on, and after a first attempt that succeeded there
\* is none, whatever the numbers of entries, sessions and retries.
THEOREM SessionsAtRest == Spec => QuietAfterReturn
<1>1. Init => SupplierWithinAttempt
  BY DEF Init, LoopInit, SupplierWithinAttempt
<1> DEFINE Rest == pc = "done" => /\ UNCHANGED <<buffer, pending, lost>>
                                  /\ applied' \subseteq applied \cup lost
                                  /\ result = "value" /\ attempts = 1 => UNCHANGED applied
<1>2. SupplierWithinAttempt /\ [Next]_vars => [Rest]_vars
  <2> SUFFICES ASSUME SupplierWithinAttempt, Next, pc = "done" PROVE Rest
    OBVIOUS
  <2>1. CASE \E e \in Entries : LateCommit(e)
    BY <2>1 DEF LateCommit, SupplierWithinAttempt
  <2>2. CASE ~\E e \in Entries : LateCommit(e)
    BY <2>2 DEF SupplierWithinAttempt, Next, LoopOnly, BeginSupplier, StartAttempt, SupplierStep,
       DoAction, DoActionRefused, ActionFails, BeginCommit, CommitSucceeds, CommitFails,
       AllCommitted, RollBackAndThrow, txVars
  <2> QED BY <2>1, <2>2
<1> QED
  BY <1>1, <1>2,  SupplierStepWithin, ExecutorLoopInvariant, ExecutorInvariant, PTL
     DEF Spec, QuietAfterReturn
============================================================================
