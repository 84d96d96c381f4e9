---------------------------- MODULE BoundedCall ----------------------------
(***************************************************************************)
(* What the store client promises a caller of retryingInvoke, without      *)
(* saying how: a call makes a bounded number of tries, an interrupt that   *)
(* was delivered is followed by no further try, and the call ends once.    *)
(* RetryLoop is shown to implement it.                                     *)
(***************************************************************************)
EXTENDS Naturals

CONSTANT MaxTries    \* tries a call may make, the first one included: a positive number

VARIABLES
    tries,    \* tries started so far
    told,     \* an interrupt has been delivered to the calling thread
    over      \* the call has returned or thrown

vars == <<tries, told, over>>

\* The thread may already be interrupted when the call starts.
Init == tries = 0 /\ told \in BOOLEAN /\ over = FALSE

\* One more try, allowed only while nobody has interrupted the caller.
Try == /\ ~over /\ ~told /\ tries < MaxTries
       /\ tries' = tries + 1
       /\ UNCHANGED <<told, over>>

\* The caller gives up (a request timeout): it can happen at any time.
Deliver == ~over /\ told' = TRUE /\ UNCHANGED <<tries, over>>

Finish == ~over /\ over' = TRUE /\ UNCHANGED <<tries, told>>

Next == Try \/ Deliver \/ Finish

Spec == Init /\ [][Next]_vars
============================================================================
