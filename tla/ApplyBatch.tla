----------------------------- MODULE ApplyBatch -----------------------------
(***************************************************************************)
(* applyBatch (src/batch/apply-batch.js): a list of N put and delete       *)
(* descriptors is cut into chunks of WriteLimit, each sent by batchWrite   *)
(* before the next one is cut.  Writes are named by their place in it.     *)
(***************************************************************************)
EXTENDS BatchWrite, FiniteSets

CONSTANTS
    N,              \* descriptors passed in
    WriteLimit      \* BATCH_WRITE_LIMIT

ASSUME SizeAssumption == N \in Nat /\ WriteLimit \in Nat \ {0}
ASSUME AttemptAssumption == MaxAttempts \in Nat \ {0}

VARIABLES
    start,      \* offset of the current chunk
    total,      \* writes counted so far
    applied     \* writes the table performed

Writes == 1..N

applyVars == <<start, total, applied, unsent, attempts, status>>

ApplyTypeOK ==
    /\ BatchTypeOK
    /\ unsent \subseteq Writes
    /\ start \in Nat
    /\ total \in 0..N
    /\ applied \subseteq Writes

ApplyInit ==
    /\ BatchInit
    /\ start = 0
    /\ total = 0
    /\ applied = {}

WriteChunk(offset) == {p \in Writes : offset < p /\ p <= offset + WriteLimit}

\* Cut the next chunk and hand it to batchWrite.
NextWrites ==
    /\ start < N
    /\ Load(WriteChunk(start))
    /\ UNCHANGED <<start, total, applied>>

\* What a response adds to the total.
CountedChunk(done) == IF BatchDone(done) THEN Cardinality(WriteChunk(start)) ELSE 0

\* batchWrite returns only when nothing of the chunk is left.
SendChunk ==
    \E done \in SUBSET unsent :
        /\ Deliver(done)
        /\ applied' = applied \cup done
        /\ total' = total + CountedChunk(done)
        /\ start' = IF BatchDone(done) THEN start + WriteLimit ELSE start

ThrottleChunk ==
    /\ Throttle
    /\ UNCHANGED <<start, total, applied>>

\* The error leaves applyBatch too, and with it the total.
RaiseChunk ==
    \E done \in SUBSET unsent :
        /\ Raise(done)
        /\ applied' = applied \cup done
        /\ UNCHANGED <<start, total>>

WakeChunk ==
    /\ Wake
    /\ UNCHANGED <<start, total, applied>>

ApplyReturned == status = "idle" /\ start >= N

Stop == (ApplyReturned \/ Threw) /\ UNCHANGED applyVars

ApplyNext == NextWrites \/ SendChunk \/ ThrottleChunk \/ RaiseChunk \/ WakeChunk \/ Stop

\* The loop goes on as long as the table answers and timers fire.
ApplySpec == ApplyInit /\ [][ApplyNext]_applyVars /\ WF_applyVars(ApplyNext)

-----------------------------------------------------------------------------
\* When applyBatch returns, every write took place and was counted
\* (apply-batch.js:31-51).
ReturnMeansApplied == ApplyReturned => applied = Writes /\ total = N

\* At any time, a throw included, the counted writes took place, and no write
\* of a later chunk has been attempted.
CountedAreApplied == 1..total \subseteq applied /\ applied \subseteq 1..(start + WriteLimit)

\* A write that took place is never sent again: only UnprocessedItems are
\* retried, so a slow retry cannot undo a newer write of an item that was
\* already processed (batch-write.js:19).
NoResend == ~Threw => unsent \cap applied = {}

\* However the table answers, applyBatch returns or throws: the retry loop is
\* bounded (batch-write.js:23).
ApplySettles == <>(ApplyReturned \/ Threw)
=============================================================================
