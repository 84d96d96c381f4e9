---------------------------- MODULE StoreFailure ----------------------------
(***************************************************************************)
(* Failures of store calls and how NodeTxExecutor folds and classifies     *)
(* them (aggregate and classify of patches/0002).                          *)
(*                                                                         *)
(* A throwable is its chain of causes, outermost first, each link one of   *)
(* the five kinds of exception classify can tell apart.  A link of kind    *)
(* "plain" is any other exception, HgStoreClientException and a gRPC       *)
(* status other than the two the code looks at included.                   *)
(***************************************************************************)
EXTENDS Sequences, SequencesExt

Links == {"plain", "deadline", "cancelled", "interrupted"}

\* Mutant: only the failure that arrived first is kept, as before the fix.
Aggregate_FirstOnly(failures) ==
    [chain |-> Head(failures), suppressed |-> {}]

\* The result of aggregate: the chain of the first failure without its
\* outermost link when that link has a cause, the others as suppressed.
Aggregate(failures) ==
    LET first == Head(failures)
    IN  [chain      |-> IF Len(first) > 1 THEN Tail(first) ELSE first,
         suppressed |-> Range(Tail(failures))]

\* A single throwable as it reaches the retry loop.
Single(throwable) == [chain |-> throwable, suppressed |-> {}]

\* Every exception classify visits: the chain and the chains of the
\* suppressed failures, each seen once.
Visited(t) == Range(t.chain) \cup UNION {Range(s) : s \in t.suppressed}

\* classify: the most severe class among the visited exceptions.  FATAL is
\* split in two because only an InterruptedException tells of an interrupt.
Classify(t) ==
    CASE "interrupted" \in Visited(t) -> "interrupted"
      [] "interrupted" \notin Visited(t) /\ "cancelled" \in Visited(t) -> "cancelled"
      [] Visited(t) \cap {"interrupted", "cancelled"} = {}
            /\ "deadline" \in Visited(t) -> "deadline"
      [] OTHER -> "retryable"

\* The class the whole set of failures deserves, whatever their order.
Worst(failures) ==
    Classify([chain |-> <<>>, suppressed |-> Range(failures)])
============================================================================
