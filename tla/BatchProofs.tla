----------------------------- MODULE BatchProofs -----------------------------
(***************************************************************************)
(* Proofs about the two loops over the chunks of a list.  ApplyBatch: for  *)
(* any number of writes, any chunk size, any bound on the attempts, and    *)
(* whatever part of a request the table processes.  ReadByKeys: for any    *)
(* list of keys, chunk size and bound on the attempts, direct and in two   *)
(* hops, whatever others write meanwhile and in however many answers the   *)
(* items come back.                                                        *)
(***************************************************************************)
EXTENDS ApplyBatch, ReadByKeys, FiniteSetTheorems, TLAPS

USE SizeAssumption, AttemptAssumption, WantedAssumption, NumberAssumption, ProjectionAssumption
    DEF SizeAssumption, AttemptAssumption, WantedAssumption, NumberAssumption,
        ProjectionAssumption, Positions

-----------------------------------------------------------------------------
\* applyBatch.

\* What has been counted is what the chunks before the current one hold; of
\* the current chunk everything but `unsent` was processed.
ChunkInv ==
    /\ total = IF start < N THEN start ELSE N
    /\ \A p \in Writes : p <= start => p \in applied
    /\ \A p \in applied : p <= start + WriteLimit
    /\ status = "idle" => unsent = {}
    /\ status = "idle" => \A p \in applied : p <= start
    /\ status # "idle" => start < N /\ unsent \subseteq WriteChunk(start)
                          /\ WriteChunk(start) \ unsent \subseteq applied
    /\ status \in {"send", "wait"} => attempts < MaxAttempts

ApplyInv == ApplyTypeOK /\ ChunkInv /\ NoResend

LEMMA ChunkSize ==
    ASSUME NEW offset \in Nat, offset < N
    PROVE  /\ Cardinality(WriteChunk(offset)) \in Nat
           /\ offset + Cardinality(WriteChunk(offset)) = IF offset + WriteLimit < N THEN offset + WriteLimit ELSE N
  <1> DEFINE end == IF offset + WriteLimit < N THEN offset + WriteLimit ELSE N
  <1>1. WriteChunk(offset) = (offset + 1)..end
    BY DEF WriteChunk, Writes
  <1>2. end \in Int /\ offset + 1 \in Int /\ offset + 1 <= end
    OBVIOUS
  <1> HIDE DEF end
  <1>3. Cardinality((offset + 1)..end) = end - (offset + 1) + 1
    BY <1>2, FS_Interval
  <1>4. offset + Cardinality(WriteChunk(offset)) = end
    BY <1>1, <1>2, <1>3
  <1> QED
    BY <1>1, <1>2, <1>3, <1>4 DEF end

LEMMA ApplyInitInv == ApplyInit => ApplyInv
  BY DEF ApplyInit, BatchInit, ApplyInv, ApplyTypeOK, BatchTypeOK, ChunkInv, NoResend, Writes

\* A failed attempt: the rest of the chunk waits, or the last attempt is over.
LEMMA WriteRetryFacts ==
    ASSUME ApplyInv, status = "send", Retry
    PROVE  /\ attempts' \in 0..MaxAttempts
           /\ status' \in {"wait", "failed"}
           /\ status' = "wait" => attempts' < MaxAttempts
  BY DEF Retry, ApplyInv, ApplyTypeOK, BatchTypeOK, ChunkInv

LEMMA NextWritesStep ==
    ASSUME ApplyInv, NextWrites
    PROVE  ApplyInv'
  <1>1. /\ status = "idle" /\ status' = "send" /\ attempts' = 0 /\ unsent' = WriteChunk(start)
        /\ start' = start /\ total' = total /\ applied' = applied /\ start < N
    BY DEF NextWrites, Load
  <1>2. WriteChunk(start) \subseteq Writes /\ \A p \in WriteChunk(start) : start < p
    BY DEF WriteChunk
  <1>3. applied \cap WriteChunk(start) = {}
    BY <1>1, <1>2 DEF ApplyInv, ChunkInv, ApplyTypeOK, Writes
  <1>4. ApplyTypeOK'
    BY <1>1, <1>2 DEF ApplyInv, ApplyTypeOK, BatchTypeOK
  <1>5. ChunkInv'
    BY <1>1 DEF ApplyInv, ChunkInv
  <1>6. NoResend'
    BY <1>1, <1>3 DEF NoResend
  <1> QED
    BY <1>4, <1>5, <1>6 DEF ApplyInv

LEMMA ChunkThrough ==
    ASSUME ApplyInv, status = "send", status' = "idle", unsent' = {}, attempts' = 0,
           applied' = applied \cup unsent,
           total' = total + Cardinality(WriteChunk(start)), start' = start + WriteLimit
    PROVE  ApplyInv'
  <1>1. start \in Nat /\ start < N /\ total = start /\ unsent \subseteq WriteChunk(start)
        /\ WriteChunk(start) \subseteq applied'
    BY DEF ApplyInv, ApplyTypeOK, ChunkInv
  <1>2. total' = IF start' < N THEN start' ELSE N
    BY <1>1, ChunkSize
  <1>3. \A p \in Writes : p <= start' => p \in applied'
    BY <1>1 DEF WriteChunk, Writes, ApplyInv, ChunkInv
  <1>4. applied' \subseteq Writes /\ \A p \in applied' : p <= start'
    BY <1>1 DEF WriteChunk, Writes, ApplyInv, ChunkInv, ApplyTypeOK
  <1>5. ApplyTypeOK'
    BY <1>1, <1>2, <1>4 DEF ApplyInv, ApplyTypeOK, BatchTypeOK
  <1>6. ChunkInv'
    <2>1. \A p \in applied' : p <= start' + WriteLimit
      BY <1>1, <1>4 DEF Writes
    <2> QED
      BY <1>2, <1>3, <1>4, <2>1 DEF ChunkInv
  <1> QED
    BY <1>5, <1>6 DEF ApplyInv, NoResend

LEMMA SendChunkStep ==
    ASSUME ApplyInv, SendChunk
    PROVE  ApplyInv'
  <1>1. PICK done \in SUBSET unsent :
          /\ Deliver(done)
          /\ applied' = applied \cup done
          /\ total' = total + CountedChunk(done)
          /\ start' = IF BatchDone(done) THEN start + WriteLimit ELSE start
    BY DEF SendChunk
  <1>2. status = "send"
    BY <1>1 DEF Deliver
  <1>3. CASE BatchDone(done)
    <2>1. status' = "idle" /\ unsent' = {} /\ attempts' = 0 /\ done = unsent
      BY <1>1, <1>3 DEF Deliver, BatchDone
    <2>2. total' = total + Cardinality(WriteChunk(start)) /\ start' = start + WriteLimit
      BY <1>1, <1>3 DEF CountedChunk
    <2> QED
      BY <1>1, <1>2, <2>1, <2>2, ChunkThrough
  <1>4. CASE ~BatchDone(done)
    <2>1. unsent' = unsent \ done /\ Retry
      BY <1>1, <1>4 DEF Deliver, Remaining
    <2>2. total' = total /\ start' = start
      BY <1>1, <1>4 DEF CountedChunk, ApplyInv, ApplyTypeOK
    <2>3. start < N /\ unsent \subseteq WriteChunk(start) /\ start \in Nat
      BY <1>2 DEF ApplyInv, ApplyTypeOK, ChunkInv
    <2>4. applied' \subseteq Writes /\ \A p \in applied' : p <= start' + WriteLimit
      BY <1>1, <2>2, <2>3 DEF WriteChunk, ApplyInv, ApplyTypeOK, ChunkInv
    <2>5. ApplyTypeOK'
      BY <1>2, <2>1, <2>2, <2>4, WriteRetryFacts DEF ApplyInv, ApplyTypeOK, BatchTypeOK
    <2>6. ChunkInv'
      <3>1. WriteChunk(start') \ unsent' \subseteq applied' /\ unsent' \subseteq WriteChunk(start')
        BY <1>1, <1>2, <2>1, <2>2 DEF ApplyInv, ChunkInv
      <3>2. \A p \in Writes : p <= start' => p \in applied'
        BY <1>1, <2>2 DEF ApplyInv, ChunkInv
      <3> QED
        BY <1>2, <2>1, <2>2, <2>3, <2>4, <3>1, <3>2, WriteRetryFacts DEF ApplyInv, ChunkInv
    <2>7. NoResend'
      BY <1>1, <1>2, <2>1 DEF ApplyInv, NoResend, Threw
    <2> QED
      BY <2>5, <2>6, <2>7 DEF ApplyInv
  <1> QED
    BY <1>3, <1>4

LEMMA OtherWriteSteps ==
    ASSUME ApplyInv, ThrottleChunk \/ RaiseChunk \/ WakeChunk \/ UNCHANGED applyVars
    PROVE  ApplyInv'
  <1>1. CASE ThrottleChunk
    <2>1. status = "send" /\ Retry /\ UNCHANGED <<unsent, start, total, applied>>
      BY <1>1 DEF ThrottleChunk, Throttle
    <2> QED
      BY <2>1, WriteRetryFacts DEF ApplyInv, ApplyTypeOK, BatchTypeOK, ChunkInv, NoResend, Threw
  <1>2. CASE RaiseChunk
    <2>1. PICK done \in SUBSET unsent : Raise(done) /\ applied' = applied \cup done
                                      /\ UNCHANGED <<start, total>>
      BY <1>2 DEF RaiseChunk
    <2>2. status = "send" /\ status' = "failed" /\ UNCHANGED <<unsent, attempts>>
      BY <2>1 DEF Raise
    <2>3. applied' \subseteq Writes /\ \A p \in applied' : p <= start + WriteLimit
      BY <2>1, <2>2 DEF WriteChunk, ApplyInv, ApplyTypeOK, ChunkInv
    <2>4. ApplyTypeOK'
      BY <2>1, <2>2, <2>3 DEF ApplyInv, ApplyTypeOK, BatchTypeOK
    <2>5. ChunkInv'
      BY <2>1, <2>2, <2>3 DEF ApplyInv, ChunkInv
    <2> QED
      BY <2>2, <2>4, <2>5 DEF ApplyInv, NoResend, Threw
  <1>3. CASE WakeChunk
    BY <1>3 DEF WakeChunk, Wake, ApplyInv, ApplyTypeOK, BatchTypeOK, ChunkInv, NoResend, Threw
  <1>4. CASE UNCHANGED applyVars
    BY <1>4 DEF applyVars, ApplyInv, ApplyTypeOK, BatchTypeOK, ChunkInv, NoResend, Threw
  <1> QED
    BY <1>1, <1>2, <1>3, <1>4

LEMMA ApplyInductive == ApplySpec => []ApplyInv
  <1>1. ApplyInv /\ [ApplyNext]_applyVars => ApplyInv'
    BY NextWritesStep, SendChunkStep, OtherWriteSteps DEF ApplyNext, Stop
  <1> QED
    BY ApplyInitInv, <1>1, PTL DEF ApplySpec

-----------------------------------------------------------------------------
\* The variables keep their types; the attempts never exceed their bound.
THEOREM ApplyTypeCorrect == ApplySpec => []ApplyTypeOK
  BY ApplyInductive, PTL DEF ApplyInv

\* When applyBatch returns, every write took place and was counted.
THEOREM ReturnIsComplete == ApplySpec => []ReturnMeansApplied
  <1>1. ApplyInv => ReturnMeansApplied
    <2> SUFFICES ASSUME ApplyInv, ApplyReturned PROVE applied = Writes /\ total = N
      BY DEF ReturnMeansApplied
    <2>1. start \in Nat /\ ~(start < N)
      BY DEF ApplyInv, ApplyTypeOK, ApplyReturned
    <2>2. \A p \in Writes : p <= start
      BY <2>1 DEF Writes
    <2>3. Writes \subseteq applied /\ applied \subseteq Writes
      BY <2>2 DEF ApplyInv, ApplyTypeOK, ChunkInv
    <2>4. total = N
      BY <2>1 DEF ApplyInv, ChunkInv
    <2> QED
      BY <2>3, <2>4
  <1> QED
    BY <1>1, ApplyInductive, PTL

\* What has been counted took place, and nothing beyond the current chunk did.
THEOREM CountIsSound == ApplySpec => []CountedAreApplied
  <1>1. ApplyInv => CountedAreApplied
    BY DEF ApplyInv, ApplyTypeOK, ChunkInv, CountedAreApplied, Writes
  <1> QED
    BY <1>1, ApplyInductive, PTL

\* No write that took place is sent again.
THEOREM NothingResent == ApplySpec => []NoResend
  BY ApplyInductive, PTL DEF ApplyInv

-----------------------------------------------------------------------------
\* getByKeys.

\* A key has its answer: an item, or a miss, that was true during the call.
Answered(k) == got[k] \in past[k]

PastTrue ==
    /\ past \in [Keys -> SUBSET Values]
    /\ \A k \in Keys : item[k] \in past[k]
    /\ \A k \in Keys : got[k] = 0 \/ got[k] \in past[k]

\* The chunks before the current one have their answers, and of the current one
\* all but what is still to be asked for.
ChunksAnswered ==
    /\ \A i \in asked : Rank(i) <= from => Answered(Wanted[i])
    /\ status \in {"send", "wait"} =>
          /\ attempts < MaxAttempts
          /\ \A i \in Chunk(from) : Wanted[i] \in unsent \/ Answered(Wanted[i])

\* The second hop leaves out what was missed, position by position of a key.
HopsTrue ==
    /\ \A i \in Positions \ asked : 0 \in past[Wanted[i]]
    /\ \A i, j \in Positions : Wanted[i] = Wanted[j] => (i \in asked <=> j \in asked)

IInv == TypeOK /\ PastTrue /\ ChunksAnswered /\ HopsTrue /\ PositionsAreTrue

-----------------------------------------------------------------------------
LEMMA WantedKeys == \A i \in Positions : Wanted[i] \in Keys
  OBVIOUS

\* Places among a set of positions are counted from 1.
LEMMA Places ==
    ASSUME NEW is \in SUBSET Positions
    PROVE  /\ Cardinality(is) \in Nat
           /\ \A i \in is : Cardinality({j \in is : j <= i}) \in 1..Cardinality(is)
  <1>1. IsFiniteSet(1..Len(Wanted))
    BY FS_Interval
  <1>2. IsFiniteSet(is) /\ Cardinality(is) \in Nat
    BY <1>1, FS_Subset, FS_CardinalityType
  <1> SUFFICES ASSUME NEW i \in is
               PROVE  Cardinality({j \in is : j <= i}) \in 1..Cardinality(is)
    BY <1>2
  <1> DEFINE before == {j \in is : j <= i}
  <1>3. before \subseteq is /\ i \in before
    OBVIOUS
  <1>4. IsFiniteSet(before) /\ Cardinality(before) <= Cardinality(is)
    BY <1>2, <1>3, FS_Subset
  <1>5. Cardinality(before) \in Nat /\ Cardinality(before) # 0
    BY <1>3, <1>4, FS_CardinalityType, FS_EmptySet
  <1> QED
    BY <1>2, <1>4, <1>5

LEMMA Ranks ==
    ASSUME asked \subseteq Positions
    PROVE  /\ Cardinality(asked) \in Nat
           /\ \A i \in asked : Rank(i) \in 1..Cardinality(asked)
  BY Places DEF Rank

LEMMA InitInv == Init => IInv
  <1> SUFFICES ASSUME Init PROVE IInv
    OBVIOUS
  <1>1. TypeOK
    BY DEF Init, BatchInit, TypeOK, BatchTypeOK, Values
  <1>2. PastTrue
    BY DEF Init, PastTrue, Values
  <1>3. ChunksAnswered
    BY <1>1, Ranks DEF Init, BatchInit, ChunksAnswered, TypeOK
  <1>4. HopsTrue
    BY DEF Init, HopsTrue
  <1>5. PositionsAreTrue
    BY DEF Init, PositionsAreTrue, Returned
  <1> QED
    BY <1>1, <1>2, <1>3, <1>4, <1>5 DEF IInv

LEMMA ChangeStep ==
    ASSUME IInv, NEW k \in Keys, Change(k)
    PROVE  IInv'
  <1>1. PICK value \in {0, changes + 2} \ {item[k]} :
          /\ item' = [item EXCEPT ![k] = value]
          /\ past' = [past EXCEPT ![k] = @ \cup {value}]
    BY DEF Change
  <1>2. /\ ~Returned /\ changes' = changes + 1 /\ changes < MaxChanges
        /\ UNCHANGED <<indirect, hop, asked, from, got, result, unsent, attempts, status>>
    BY DEF Change, loop
  <1>3. value \in Values
    BY <1>1, <1>2 DEF IInv, TypeOK, Values
  <1>4. TypeOK'
    BY <1>1, <1>2, <1>3 DEF IInv, TypeOK, BatchTypeOK
  <1>5. \A l \in Keys : past[l] \subseteq past'[l]
    BY <1>1 DEF IInv, PastTrue
  <1>6. PastTrue'
    BY <1>1, <1>2, <1>3, <1>5 DEF IInv, TypeOK, PastTrue
  <1>7. ChunksAnswered'
    BY <1>2, <1>5, WantedKeys DEF IInv, TypeOK, ChunksAnswered, Answered, Chunk, Rank
  <1>8. HopsTrue'
    BY <1>2, <1>5, WantedKeys DEF IInv, HopsTrue
  <1>9. PositionsAreTrue'
    BY <1>2 DEF PositionsAreTrue, Returned
  <1> QED
    BY <1>4, <1>6, <1>7, <1>8, <1>9 DEF IInv

\* The next chunk is cut, or refused.
LEMMA CutStep ==
    ASSUME IInv, NextChunk \/ RefuseChunk
    PROVE  IInv'
  <1>1. UNCHANGED <<table, indirect, hop, asked, from, got, result>>
    BY DEF NextChunk, RefuseChunk
  <1>2. \/ status' = "failed" /\ UNCHANGED <<unsent, attempts>>
        \/ status' = "send" /\ attempts' = 0 /\ unsent' = KeysOf(Chunk(from))
    BY DEF NextChunk, RefuseChunk, Load
  <1>3. status = "idle"
    BY DEF NextChunk, RefuseChunk
  <1>4. Chunk(from) \subseteq Positions
    BY DEF Chunk, IInv, TypeOK
  <1>5. unsent' \subseteq Keys /\ attempts' \in 0..MaxAttempts
    BY <1>2, <1>4, WantedKeys DEF KeysOf, IInv, TypeOK, BatchTypeOK
  <1>6. TypeOK'
    BY <1>1, <1>2, <1>5 DEF IInv, TypeOK, BatchTypeOK, table
  <1>7. PastTrue'
    BY <1>1 DEF IInv, PastTrue, table
  <1>8. ChunksAnswered'
    <2>1. \A i \in asked : Rank(i) <= from => Answered(Wanted[i])
      BY DEF IInv, ChunksAnswered
    <2>2. unsent' = KeysOf(Chunk(from)) => \A i \in Chunk(from) : Wanted[i] \in unsent'
      BY DEF KeysOf
    <2>3. Chunk(from)' = Chunk(from) /\ \A i \in asked : Rank(i)' = Rank(i)
      BY <1>1 DEF Chunk, Rank
    <2> QED
      BY <1>1, <1>2, <2>1, <2>2, <2>3 DEF ChunksAnswered, Answered, table
  <1>9. HopsTrue' /\ PositionsAreTrue'
    BY <1>1 DEF IInv, HopsTrue, PositionsAreTrue, Returned, table
  <1> QED
    BY <1>6, <1>7, <1>8, <1>9 DEF IInv

\* Whatever part of the request an answer covers, the keys it covers have theirs.
LEMMA AnswerStep ==
    ASSUME IInv, Answer
    PROVE  IInv'
  <1>1. PICK done \in SUBSET unsent : \E read \in [done -> Values] :
          /\ \A k \in done : read[k] \in past[k]
          /\ Deliver(done)
          /\ got' = [k \in Keys |-> IF k \in done THEN read[k] ELSE got[k]]
          /\ from' = IF BatchDone(done) THEN from + Limit ELSE from
          /\ UNCHANGED <<table, indirect, hop, asked, result>>
    BY DEF Answer
  <1>2. PICK read \in [done -> Values] :
          /\ \A k \in done : read[k] \in past[k]
          /\ Deliver(done)
          /\ got' = [k \in Keys |-> IF k \in done THEN read[k] ELSE got[k]]
          /\ from' = IF BatchDone(done) THEN from + Limit ELSE from
          /\ UNCHANGED <<table, indirect, hop, asked, result>>
    BY <1>1
  <1>3. status = "send" /\ attempts < MaxAttempts /\ unsent \subseteq Keys
    BY <1>2 DEF Deliver, IInv, ChunksAnswered, TypeOK, BatchTypeOK
  <1>4. /\ \/ done = unsent /\ status' = "idle" /\ unsent' = {} /\ attempts' = 0
           \/ /\ done # unsent
              /\ unsent' = unsent \ done
              /\ attempts' = attempts + 1
              /\ status' \in {"wait", "failed"}
              /\ status' = "wait" => attempts' < MaxAttempts
    BY <1>2, <1>3 DEF Deliver, Retry, Remaining, BatchDone, IInv, TypeOK, BatchTypeOK
  <1>5. \A k \in Keys : (Answered(k) \/ k \in done) => Answered(k)'
    BY <1>2 DEF Answered, table
  <1>6. TypeOK'
    <2>1. got' \in [Keys -> Values] /\ from' \in Nat
      BY <1>2 DEF IInv, TypeOK
    <2>2. attempts' \in 0..MaxAttempts
      BY <1>3, <1>4 DEF IInv, TypeOK, BatchTypeOK
    <2> QED
      BY <1>2, <1>3, <1>4, <2>1, <2>2 DEF IInv, TypeOK, BatchTypeOK, table
  <1>7. PastTrue'
    BY <1>2 DEF IInv, PastTrue, table
  <1>8. ChunksAnswered'
    <2>1. \A i \in asked : Rank(i)' = Rank(i) /\ Rank(i) \in Nat
      BY <1>2, Ranks DEF Rank, IInv, TypeOK
    <2>2. from \in Nat /\ asked \subseteq Positions /\ asked' = asked
      BY <1>2 DEF IInv, TypeOK
    <2>3. \A i \in asked : Rank(i) <= from => Answered(Wanted[i])'
      BY <1>5, <2>2, WantedKeys DEF IInv, ChunksAnswered
    <2>4. \A i \in Chunk(from) : Wanted[i] \in unsent \/ Answered(Wanted[i])
      BY <1>3 DEF IInv, ChunksAnswered
    <2>5. \A i \in Chunk(from) : Wanted[i] \in unsent \ done \/ Answered(Wanted[i])'
      BY <1>5, <2>2, <2>4, WantedKeys DEF Chunk
    <2>6. CASE done = unsent
      <3>1. status' = "idle" /\ from' = from + Limit
        BY <1>2, <1>4, <2>6 DEF BatchDone
      <3>2. \A i \in asked : Rank(i) <= from + Limit => Answered(Wanted[i])'
        BY <2>1, <2>2, <2>3, <2>5, <2>6 DEF Chunk
      <3> QED
        BY <2>1, <2>2, <3>1, <3>2 DEF ChunksAnswered
    <2>7. CASE done # unsent
      <3>1. from' = from /\ unsent' = unsent \ done
        BY <1>2, <1>4, <2>7 DEF BatchDone
      <3>2. Chunk(from)' = Chunk(from)
        BY <2>1, <2>2, <3>1 DEF Chunk
      <3> QED
        BY <1>4, <2>1, <2>2, <2>3, <2>5, <2>7, <3>1, <3>2 DEF ChunksAnswered
    <2> QED
      BY <2>6, <2>7
  <1>9. HopsTrue' /\ PositionsAreTrue'
    BY <1>2 DEF IInv, HopsTrue, PositionsAreTrue, Returned, table
  <1> QED
    BY <1>6, <1>7, <1>8, <1>9 DEF IInv

\* Throttling, an error and the pause answer nothing and forget nothing.
LEMMA LoopStep ==
    ASSUME IInv, ThrottleAnswer \/ Error \/ Pause
    PROVE  IInv'
  <1>1. UNCHANGED <<table, indirect, hop, asked, from, got, result, unsent>>
    BY DEF ThrottleAnswer, Error, Pause, Throttle, Raise, Wake
  <1>2. /\ status \in {"send", "wait"} /\ attempts \in 0..MaxAttempts
        /\ attempts < MaxAttempts
    BY DEF ThrottleAnswer, Error, Pause, Throttle, Raise, Wake,
           IInv, ChunksAnswered, TypeOK, BatchTypeOK
  <1>3. /\ attempts' \in 0..MaxAttempts /\ status' \in {"send", "wait", "failed"}
        /\ status' \in {"send", "wait"} => attempts' < MaxAttempts
    BY <1>2 DEF ThrottleAnswer, Error, Pause, Throttle, Retry, Raise, Wake
  <1>4. TypeOK'
    BY <1>1, <1>3 DEF IInv, TypeOK, BatchTypeOK, table
  <1>5. PastTrue' /\ HopsTrue' /\ PositionsAreTrue'
    BY <1>1 DEF IInv, PastTrue, HopsTrue, PositionsAreTrue, Returned, table
  <1>6. ChunksAnswered'
    BY <1>1, <1>2, <1>3 DEF IInv, ChunksAnswered, Answered, Chunk, Rank, table
  <1> QED
    BY <1>4, <1>5, <1>6 DEF IInv

\* When a hop is over every key it asked for has its answer.
LEMMA AllAnswered ==
    ASSUME IInv, HopDone
    PROVE  \A i \in asked : Answered(Wanted[i])
  BY Ranks DEF HopDone, IInv, ChunksAnswered, TypeOK

LEMMA SecondHopStep ==
    ASSUME IInv, SecondHop
    PROVE  IInv'
  <1>1. /\ hop' = 2 /\ asked' = FoundIndexes /\ from' = 0
        /\ got' = [k \in Keys |-> 0]
        /\ UNCHANGED <<table, indirect, result, loop>>
        /\ HopDone /\ indirect /\ hop = 1
    BY DEF SecondHop
  <1>2. FoundIndexes = {i \in asked : got[Wanted[i]] # 0}
    BY <1>1 DEF FoundIndexes, Filed
  <1>3. asked \subseteq Positions /\ asked' \subseteq Positions
    BY <1>1, <1>2 DEF IInv, TypeOK
  <1>4. TypeOK'
    BY <1>1, <1>3 DEF IInv, TypeOK, BatchTypeOK, table, loop, Values
  <1>5. PastTrue'
    BY <1>1 DEF IInv, PastTrue, table
  <1>6. ChunksAnswered'
    <2>1. \A i \in asked' : Rank(i)' \in Nat /\ Rank(i)' > 0
      <3>1. \A i \in asked' : Cardinality({j \in asked' : j <= i}) \in 1..Cardinality(asked')
        BY <1>3, Places
      <3>2. Cardinality(asked') \in Nat
        BY <1>3, Places
      <3> QED
        BY <3>1, <3>2 DEF Rank
    <2>2. status' = "idle" /\ from' = 0
      BY <1>1 DEF HopDone, loop
    <2> QED
      BY <2>1, <2>2 DEF ChunksAnswered
  <1>7. HopsTrue'
    <2>1. \A i \in asked \ asked' : 0 \in past[Wanted[i]]
      BY <1>1, <1>2, AllAnswered DEF Answered
    <2> QED
      BY <1>1, <1>2, <1>3, <2>1 DEF IInv, HopsTrue, table
  <1>8. PositionsAreTrue'
    BY <1>1 DEF HopDone, PositionsAreTrue, Returned
  <1> QED
    BY <1>4, <1>5, <1>6, <1>7, <1>8 DEF IInv

LEMMA ReturnStep ==
    ASSUME KeysProjected, IInv, Return
    PROVE  IInv'
  <1>1. /\ result' = Remapped /\ HopDone
        /\ UNCHANGED <<table, indirect, hop, asked, from, got, loop>>
    BY DEF Return
  <1>2. \A k \in Keys : Filed(k) = got[k]
    BY DEF Filed
  <1>3. Remapped = [i \in Positions |-> IF i \in asked THEN got[Wanted[i]] ELSE 0]
    BY <1>2, WantedKeys DEF Remapped, IInv, TypeOK
  <1>4. Remapped \in [Positions -> Values]
    BY <1>3, WantedKeys DEF IInv, TypeOK, Values
  <1>5. TypeOK'
    BY <1>1, <1>4 DEF IInv, TypeOK, BatchTypeOK, table, loop
  <1>6. PastTrue' /\ HopsTrue'
    BY <1>1 DEF IInv, PastTrue, HopsTrue, table
  <1>7. ChunksAnswered'
    BY <1>1 DEF IInv, ChunksAnswered, Answered, Chunk, Rank, table, loop
  <1>8. PositionsAreTrue'
    <2>1. \A i \in Positions : Remapped[i] \in past[Wanted[i]]
      BY <1>1, <1>3, AllAnswered DEF IInv, HopsTrue, Answered
    <2>2. \A i, j \in Positions : Wanted[i] = Wanted[j] => Remapped[i] = Remapped[j]
      BY <1>3 DEF IInv, HopsTrue
    <2> QED
      BY <1>1, <2>1, <2>2 DEF PositionsAreTrue, Returned, table
  <1> QED
    BY <1>5, <1>6, <1>7, <1>8 DEF IInv

LEMMA StepInv ==
    ASSUME KeysProjected, IInv, [Next]_vars
    PROVE  IInv'
  <1>1. CASE \E k \in Keys : Change(k)
    BY <1>1, ChangeStep
  <1>2. CASE NextChunk \/ RefuseChunk
    BY <1>2, CutStep
  <1>3. CASE Answer
    BY <1>3, AnswerStep
  <1>4. CASE ThrottleAnswer \/ Error \/ Pause
    BY <1>4, LoopStep
  <1>5. CASE SecondHop
    BY <1>5, SecondHopStep
  <1>6. CASE Return
    BY <1>6, ReturnStep
  <1>7. CASE UNCHANGED vars
    <2>1. UNCHANGED <<table, indirect, hop, asked, from, got, result, loop>>
      BY <1>7 DEF vars
    <2>2. TypeOK' /\ PastTrue' /\ HopsTrue' /\ PositionsAreTrue'
      BY <2>1 DEF IInv, TypeOK, BatchTypeOK, PastTrue, HopsTrue, PositionsAreTrue,
                  Returned, table, loop
    <2>3. ChunksAnswered'
      BY <2>1 DEF IInv, ChunksAnswered, Answered, Chunk, Rank, table, loop
    <2> QED
      BY <2>2, <2>3 DEF IInv
  <1> QED
    BY <1>1, <1>2, <1>3, <1>4, <1>5, <1>6, <1>7 DEF Next

-----------------------------------------------------------------------------
\* The state of the call keeps its shape, for any list of keys, size of chunks and
\* number of attempts.
THEOREM TypeCorrect ==
    ASSUME KeysProjected
    PROVE  Spec => []TypeOK
  <1>1. Init => IInv
    BY InitInv
  <1>2. IInv /\ [Next]_vars => IInv'
    BY StepInv
  <1>3. IInv => TypeOK
    BY DEF IInv
  <1> QED
    BY <1>1, <1>2, <1>3, PTL DEF Spec

\* As long as the fields that are asked for include the key attributes, every
\* answer of getByKeys is one that was true of its key during the call, a second
\* request for the same key among them, however the table cuts, delays and orders
\* what it returns and whatever others write (read-by-keys.js:22-41).
THEOREM AnswersAreTrue ==
    ASSUME KeysProjected
    PROVE  Spec => []PositionsAreTrue
  <1>1. Init => IInv
    BY InitInv
  <1>2. IInv /\ [Next]_vars => IInv'
    BY StepInv
  <1>3. IInv => PositionsAreTrue
    BY DEF IInv
  <1> QED
    BY <1>1, <1>2, <1>3, PTL DEF Spec
=============================================================================
