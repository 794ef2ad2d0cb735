----------------------------- MODULE BatchWrite -----------------------------
(***************************************************************************)
(* One BatchWriteItem request and its retries (src/batch/batch-write.js).  *)
(* The table may process part of a request and hand the rest back as       *)
(* UnprocessedItems; the rest is sent again after a pause, at most         *)
(* MaxAttempts times.  The modules that send batches supply the effect of  *)
(* the processed writes.                                                   *)
(***************************************************************************)
EXTENDS Integers

CONSTANT MaxAttempts     \* MAX_ATTEMPTS

VARIABLES
    unsent,     \* RequestItems of the next request
    attempts,   \* requests that did not finish the batch
    status      \* where the loop is

BatchTypeOK ==
    /\ attempts \in 0..MaxAttempts
    /\ status \in {"idle", "send", "wait", "failed"}

BatchInit ==
    /\ unsent = {}
    /\ attempts = 0
    /\ status = "idle"

\* batchWrite(client, requestItems) is called.
Load(requests) ==
    /\ status = "idle"
    /\ requests # {}
    /\ unsent' = requests
    /\ attempts' = 0
    /\ status' = "send"

\* Mutation: a failed attempt is not counted.
RetryUncounted == attempts' = attempts /\ status' = "wait"

Retry ==
    /\ attempts' = attempts + 1
    /\ status' = IF attempts + 1 >= MaxAttempts THEN "failed" ELSE "wait"

\* Mutation: a retry sends the whole request again.
RemainingAll(done) == unsent

\* What UnprocessedItems returns when the writes in `done` were processed.
Remaining(done) == unsent \ done

\* Mutation: whatever comes back, the batch counts as processed.
BatchDoneEarly(done) == done # {}

BatchDone(done) == done = unsent

\* The table processes some of the writes, or all of them.
Deliver(done) ==
    /\ status = "send"
    /\ done \subseteq unsent
    /\ IF BatchDone(done)
       THEN status' = "idle" /\ unsent' = {} /\ attempts' = 0
       ELSE unsent' = Remaining(done) /\ Retry

\* ProvisionedThroughputExceededException is swallowed: nothing was written,
\* and the same request is sent again.
Throttle ==
    /\ status = "send"
    /\ Retry
    /\ UNCHANGED unsent

\* Any other error is thrown, and may hide writes that took place.
Raise(done) ==
    /\ status = "send"
    /\ done \subseteq unsent
    /\ status' = "failed"
    /\ UNCHANGED <<unsent, attempts>>

\* The back-off elapses.
Wake ==
    /\ status = "wait"
    /\ status' = "send"
    /\ UNCHANGED <<unsent, attempts>>

Threw == status = "failed"
=============================================================================
