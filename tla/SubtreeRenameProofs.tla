------------------------ MODULE SubtreeRenameProofs ------------------------
(***************************************************************************)
(* Proofs about SubtreeRename: for any number of rows, any page size and   *)
(* cap, any rows that mapFn drops and destinations that are taken, and any *)
(* number of failures.                                                     *)
(***************************************************************************)
EXTENDS SubtreeRename, TLAPS

USE RangeAssumption, RenameAssumption DEF RangeAssumption, RenameAssumption

\* What the safety of the table rests on: the row about to be deleted has its
\* copy.
TableInv ==
    /\ cur # None => dst[cur] = "copy"
    /\ NoItemLost
    /\ OccupiedKept

\* The walk has been past row i in this call.
Seen(i) ==
    IF phase = "read" THEN i <= startKey ELSE i \notin page /\ (more => i <= startKey)

Walking == phase \in {"read", "page"}

\* Every row the walk has been past has moved or is in a bucket.
WalkInv ==
    /\ Walking => cursor = 0
    /\ Walking => \A i \in src \cap Rows : i > token /\ Seen(i) => i \in skipped \cup failed
    /\ phase = "page" /\ more => startKey # 0
    /\ phase = "page" /\ selfTurn => page = {} /\ ~more /\ cascade
    /\ phase = "read" => ~selfTurn
    /\ \A i \in processed : i \notin src /\ dst[i] = "copy"
    /\ Complete => \A i \in src \cap Scope : i > token \/ i = Self => i \in skipped \cup failed

IInv == TypeOK /\ TableInv /\ WalkInv

LEMMA RowFacts == Self \in Items /\ Self \notin Rows /\ None \notin Items
                  /\ Rows \subseteq Items /\ Rows \subseteq Nat \ {0}
                  /\ \A i \in Items : i = Self \/ i \in Rows
  BY DEF Self, None, Items, Rows

LEMMA InitInv == Init => IInv
  <1> SUFFICES ASSUME Init PROVE IInv
    OBVIOUS
  <1>1. TypeOK
    <2>1. WalkTypeOK
      <3>1. more \in BOOLEAN /\ page \subseteq Rows
        BY Zenon DEF Init, WalkInit
      <3>2. startKey \in 0..Last /\ counted \in Nat /\ token \in 0..Last /\ cursor \in 0..Last
        BY DEF Init, WalkInit
      <3> QED
        BY <3>1, <3>2, Zenon DEF Init, WalkInit, WalkTypeOK
    <2>2. dst \in [Items -> {"free", "other", "copy"}]
      BY DEF Init
    <2> QED
      BY <2>1, <2>2 DEF Init, TypeOK
  <1>2. TableInv
    BY DEF Init, TableInv, NoItemLost, OccupiedKept
  <1>3. WalkInv
    BY DEF Init, WalkInv, WalkInit, Walking, Complete
  <1> QED
    BY <1>1, <1>2, <1>3 DEF IInv

-----------------------------------------------------------------------------
(***************************************************************************)
(* Type correctness.                                                       *)
(***************************************************************************)

LEMMA CallType ==
    ASSUME TypeOK, NEW from \in 0..Last, CallFrom(from), Fresh
    PROVE  WalkTypeOK' /\ (src \subseteq Items)' /\ (dst \in [Items -> {"free", "other", "copy"}])'
           /\ (cur \in Items \cup {None})' /\ (selfTurn \in BOOLEAN)'
           /\ (processed \subseteq Items /\ skipped \subseteq Items /\ failed \subseteq Items)'
  <1>1. WalkTypeOK'
    <2>1. more' \in BOOLEAN /\ page' \subseteq Rows
      BY Zenon DEF CallFrom
    <2>2. /\ startKey' \in 0..Last /\ counted' \in Nat
          /\ token' \in 0..Last /\ cursor' \in 0..Last
      BY DEF CallFrom, StartAt
    <2> QED
      BY <2>1, <2>2, Zenon DEF CallFrom, WalkTypeOK
  <1> QED
    BY <1>1 DEF TypeOK, Fresh, tableVars

LEMMA ReadType ==
    ASSUME WalkTypeOK, NEW present \in SUBSET Rows, ReadPage(present)
    PROVE  WalkTypeOK'
  <1>1. After(present, startKey) \subseteq Rows /\ Rows \subseteq 0..Last
    <2>1. After(present, startKey) \subseteq present
      BY DEF After
    <2>2. Rows \subseteq 0..Last
      BY DEF Rows
    <2> QED
      BY <2>1, <2>2
  <1>2. CASE ReadLastPage(present)
    BY <1>1, <1>2 DEF ReadLastPage, WalkTypeOK
  <1>3. CASE ReadFullPage(present)
    BY <1>1, <1>3 DEF ReadFullPage, WalkTypeOK
  <1> QED
    BY <1>2, <1>3 DEF ReadPage

LEMMA BucketType ==
    ASSUME WalkTypeOK, NEW i \in Items, Bucket(i)
    PROVE  WalkTypeOK' /\ cur' = None /\ selfTurn' = selfTurn
  BY DEF WalkTypeOK, Bucket

LEMMA HandleType ==
    ASSUME TypeOK, NEW i \in Items, Handle(i), cascade' = cascade
    PROVE  TypeOK'
  <1> DEFINE Buckets == /\ processed' \subseteq Items /\ skipped' \subseteq Items
                        /\ failed' \subseteq Items
  <1>1. Written(i) => dst' \in [Items -> {"free", "other", "copy"}]
    BY DEF TypeOK, Written
  <1>2. Skip(i) => WalkTypeOK' /\ Buckets /\ cur' = None /\ selfTurn' = selfTurn
    BY BucketType DEF TypeOK, Skip
  <1>3. Fail(i) => WalkTypeOK' /\ Buckets /\ cur' = None /\ selfTurn' = selfTurn /\ faults' \in Nat
    BY BucketType DEF TypeOK, Fail, Fault
  <1>4. CASE Drop(i)
    BY <1>2, <1>4 DEF TypeOK, Drop, tableVars
  <1>5. CASE Put(i)
    BY <1>1, <1>5 DEF TypeOK, Put, bucketVars, walkVars, WalkTypeOK
  <1>6. CASE PutCollides(i)
    BY <1>2, <1>6 DEF TypeOK, PutCollides, tableVars
  <1>7. CASE PutFails(i)
    BY <1>1, <1>3, <1>7 DEF TypeOK, PutFails
  <1>8. CASE Delete(i)
    BY <1>8, BucketType DEF TypeOK, Delete
  <1>9. CASE DeleteFails(i)
    BY <1>3, <1>9 DEF TypeOK, DeleteFails
  <1> QED
    BY <1>4, <1>5, <1>6, <1>7, <1>8, <1>9 DEF Handle

LEMMA TypeStep ==
    ASSUME TypeOK, [Next]_vars
    PROVE  TypeOK'
  <1> USE DEF tableVars, bucketVars
  <1>0. cascade' = cascade
    BY DEF Next, vars
  <1>1. CASE Call
    <2>1. PICK from \in 0..Last : CallFrom(from)
      BY <1>1 DEF Call, FirstCall, Resume, Repeat, TypeOK, WalkTypeOK
    <2> QED
      BY <1>0, <1>1, <2>1, CallType DEF Call, TypeOK
  <1>2. CASE CallNeedlessly
    <2>1. CallFrom(token) /\ token \in 0..Last
      BY <1>2 DEF CallNeedlessly, RepeatReturned, TypeOK, WalkTypeOK
    <2> QED
      BY <1>0, <1>2, <2>1, CallType DEF CallNeedlessly, TypeOK, Fault
  <1>3. CASE Read
    BY <1>0, <1>3, ReadType DEF Read, TypeOK
  <1>4. CASE SelfTurn
    BY <1>0, <1>4 DEF SelfTurn, PageHandled, TypeOK, WalkTypeOK
  <1>5. CASE EndPage
    BY <1>0, <1>5 DEF EndPage, Finish, StopAtBudget, NextPage, Cursor, TypeOK, WalkTypeOK
  <1>6. CASE Crash
    BY <1>0, <1>6 DEF Crash, Throw, Fault, TypeOK, WalkTypeOK
  <1>7. CASE \E i \in Items : Handle(i)
    BY <1>0, <1>7, HandleType
  <1>8. CASE UNCHANGED vars
    BY <1>8 DEF vars, walkVars, TypeOK, WalkTypeOK
  <1> QED
    BY <1>1, <1>2, <1>3, <1>4, <1>5, <1>6, <1>7, <1>8 DEF Next

-----------------------------------------------------------------------------
(***************************************************************************)
(* No row is lost, no occupied destination overwritten.                    *)
(***************************************************************************)

\* A put at a vacant destination leaves every other destination alone, and
\* takes no copy away.
LEMMA WrittenFacts ==
    ASSUME TypeOK, NEW i \in Items, Vacant(i), Written(i)
    PROVE  /\ dst'[i] = "copy" /\ dst[i] = "free"
           /\ \A j \in Items : j # i => dst'[j] = dst[j]
  BY DEF TypeOK, Vacant, Written

LEMMA TableHandle ==
    ASSUME TypeOK, TableInv, NEW i \in Items, Handle(i)
    PROVE  TableInv'
  <1> USE DEF TableInv, NoItemLost, OccupiedKept, tableVars
  <1>1. Bucket(i) => cur' = None
    BY DEF Bucket
  <1>2. CASE Drop(i)
    BY <1>1, <1>2 DEF Drop, Skip
  <1>3. CASE Put(i)
    BY <1>3, WrittenFacts DEF Put
  <1>4. CASE PutCollides(i)
    BY <1>1, <1>4 DEF PutCollides, Skip
  <1>5. CASE PutFails(i)
    BY <1>1, <1>5, WrittenFacts DEF PutFails, Fail
  <1>6. ASSUME Delete(i) \/ DeleteFails(i)
        PROVE  TableInv'
    <2>1. dst[i] = "copy" /\ i \notin Taken
      BY <1>6, RowFacts DEF Delete, DeleteFails, Deletable
    <2>2. dst' = dst /\ src' \in {src, src \ {i}} /\ cur' = None
      BY <1>1, <1>6 DEF Delete, DeleteFails, Fail
    <2> QED
      BY <2>1, <2>2
  <1> QED
    BY <1>2, <1>3, <1>4, <1>5, <1>6 DEF Handle

LEMMA TableStep ==
    ASSUME TypeOK, TableInv, [Next]_vars
    PROVE  TableInv'
  <1>1. CASE \E i \in Items : Handle(i)
    BY <1>1, TableHandle
  <1>2. CASE Call \/ CallNeedlessly
    BY <1>2 DEF Call, CallNeedlessly, Fresh, tableVars, TableInv, NoItemLost, OccupiedKept
  <1>3. CASE Read \/ SelfTurn \/ EndPage \/ Crash \/ UNCHANGED vars
    BY <1>3 DEF Read, SelfTurn, EndPage, Crash, vars, tableVars, TableInv, NoItemLost, OccupiedKept
  <1> QED
    BY <1>1, <1>2, <1>3 DEF Next

-----------------------------------------------------------------------------
(***************************************************************************)
(* What the envelope tells, and the turn of the root.                      *)
(***************************************************************************)

LEMMA WalkCall ==
    ASSUME IInv, NEW from \in 0..Last, CallFrom(from), Fresh, cascade' = cascade
    PROVE  WalkInv'
  <1>1. /\ phase' = "read" /\ cursor' = 0 /\ selfTurn' = FALSE /\ processed' = {}
        /\ startKey' = from /\ token' = from
    BY DEF CallFrom, StartAt, Fresh
  <1>2. \A i \in Rows : ~(i > from /\ i <= from)
    BY DEF Rows
  <1> QED
    BY <1>1, <1>2 DEF WalkInv, Walking, Seen, Complete

LEMMA WalkRead ==
    ASSUME IInv, Read, cascade' = cascade
    PROVE  WalkInv'
  <1>1. /\ cursor' = cursor /\ token' = token /\ src' = src /\ dst' = dst
        /\ processed' = processed /\ skipped' = skipped /\ failed' = failed
        /\ selfTurn' = selfTurn /\ phase = "read" /\ phase' = "page"
    BY DEF Read, ReadPage, ReadLastPage, ReadFullPage, tableVars, bucketVars
  <1>2. \A i \in src \cap Rows : Seen(i)' => i <= startKey
    <2>1. CASE ReadLastPage(src \cap Rows)
      BY <1>1, <2>1 DEF ReadLastPage, After, Seen, IInv, TypeOK, WalkTypeOK, Rows
    <2>2. CASE ReadFullPage(src \cap Rows)
      BY <1>1, <2>2 DEF ReadFullPage, After, Seen, IInv, TypeOK, WalkTypeOK, Rows
    <2> QED
      BY <2>1, <2>2 DEF Read, ReadPage
  <1>3. more' => startKey' # 0
    <2>1. CASE ReadLastPage(src \cap Rows)
      BY <2>1 DEF ReadLastPage
    <2>2. CASE ReadFullPage(src \cap Rows)
      BY <2>2 DEF ReadFullPage, After, Rows
    <2> QED
      BY <2>1, <2>2 DEF Read, ReadPage
  <1>4. ~selfTurn
    BY <1>1 DEF IInv, WalkInv
  <1> QED
    BY <1>1, <1>2, <1>3, <1>4 DEF IInv, WalkInv, Walking, Seen, Complete

\* Row i leaves the page: it is gone, or in a bucket.
Settled(i) ==
    /\ Turn(i) /\ Bucket(i)
    /\ src' \subseteq src
    /\ dst' = dst \/ (Written(i) /\ Vacant(i))
    /\ processed \subseteq processed' /\ processed' \subseteq processed \cup {i}
    /\ skipped \subseteq skipped' /\ failed \subseteq failed'
    /\ i \in processed' \ processed => i \notin src' /\ dst'[i] = "copy"
    /\ i \in src' => i \in skipped' \cup failed'

LEMMA WalkBucket ==
    ASSUME IInv, NEW i \in Items, Settled(i), cascade' = cascade
    PROVE  WalkInv'
  <1> USE DEF Settled
  <1>1. /\ page' = page \ {i} /\ startKey' = startKey /\ more' = more
        /\ token' = token /\ cursor' = cursor /\ selfTurn' = selfTurn
        /\ phase = "page" /\ phase' = IF selfTurn THEN "returned" ELSE phase
    BY DEF Turn, Bucket
  <1>2. \A j \in Items : dst[j] = "copy" => dst'[j] = "copy"
    BY WrittenFacts DEF IInv
  <1>3. \A j \in processed' : j \notin src' /\ dst'[j] = "copy"
    BY <1>2 DEF IInv, WalkInv, TypeOK
  <1>4. \A j \in src' \cap Rows : j > token /\ j \notin page' /\ (more => j <= startKey)
                                => j \in skipped' \cup failed'
    BY <1>1 DEF IInv, WalkInv, Walking, Seen
  <1>5. CASE selfTurn
    <2>1. page = {} /\ ~more /\ i = Self
      BY <1>1, <1>5 DEF IInv, WalkInv, Turn
    <2>2. \A j \in src' \cap Scope : j > token \/ j = Self => j \in skipped' \cup failed'
      BY <1>1, <1>4, <2>1, RowFacts DEF Scope
    <2>3. phase' = "returned"
      BY <1>1, <1>5
    <2> QED
      BY <1>1, <1>3, <2>2, <2>3 DEF Scope, WalkInv, Walking
  <1>6. CASE ~selfTurn
    <2>1. phase' = "page" /\ ~selfTurn' /\ cursor' = 0
      BY <1>1, <1>6 DEF IInv, WalkInv, Walking
    <2>2. more' => startKey' # 0
      BY <1>1 DEF IInv, WalkInv
    <2> QED
      BY <1>1, <1>3, <1>4, <2>1, <2>2 DEF WalkInv, Walking, Seen, Complete
  <1> QED
    BY <1>5, <1>6 DEF IInv, TypeOK

LEMMA WalkHandle ==
    ASSUME IInv, NEW i \in Items, Handle(i), cascade' = cascade
    PROVE  WalkInv'
  <1>1. TypeOK /\ (cur # None => dst[cur] = "copy")
    BY DEF IInv, TableInv
  <1>2. CASE Drop(i)
    <2>1. /\ Turn(i) /\ Bucket(i) /\ src' = src /\ dst' = dst
          /\ processed' = processed /\ skipped' = skipped \cup {i} /\ failed' = failed
      BY <1>2 DEF Drop, Skip, tableVars
    <2>2. Settled(i)
      BY <2>1 DEF Settled
    <2> QED
      BY <2>2, WalkBucket
  <1>3. CASE Put(i)
    <2>1. \A j \in Items : dst[j] = "copy" => dst'[j] = "copy"
      BY <1>1, <1>3, WrittenFacts DEF Put
    <2>2. UNCHANGED <<src, bucketVars, selfTurn, walkVars>>
      BY <1>3 DEF Put
    <2>3. \A j \in processed : j \notin src /\ dst'[j] = "copy"
      BY <1>1, <2>1 DEF IInv, WalkInv, TypeOK
    <2> QED
      BY <2>2, <2>3 DEF Scope, bucketVars, walkVars, IInv, WalkInv, Walking, Seen, Complete
  <1>4. CASE PutCollides(i)
    <2>1. /\ Turn(i) /\ Bucket(i) /\ src' = src /\ dst' = dst
          /\ processed' = processed /\ skipped' = skipped \cup {i} /\ failed' = failed
      BY <1>4 DEF PutCollides, Skip, tableVars
    <2>2. Settled(i)
      BY <2>1 DEF Settled
    <2> QED
      BY <2>2, WalkBucket
  <1>5. CASE PutFails(i)
    <2>1. /\ Turn(i) /\ Bucket(i) /\ src' = src
          /\ dst' = dst \/ (Written(i) /\ Vacant(i))
          /\ processed' = processed /\ skipped' = skipped /\ failed' = failed \cup {i}
      BY <1>5 DEF PutFails, Fail
    <2>2. Settled(i)
      BY <2>1 DEF Settled
    <2> QED
      BY <2>2, WalkBucket
  <1>6. CASE Delete(i)
    <2>1. dst[i] = "copy"
      BY <1>1, <1>6, RowFacts DEF Delete, Deletable
    <2> QED
      <3>1. /\ Turn(i) /\ Bucket(i) /\ src' = src \ {i} /\ dst' = dst
            /\ processed' = processed \cup {i} /\ skipped' = skipped /\ failed' = failed
        BY <1>6 DEF Delete
      <3>2. Settled(i)
        BY <2>1, <3>1 DEF Settled
      <3> QED
        BY <3>2, WalkBucket
  <1>7. CASE DeleteFails(i)
    <2>1. /\ Turn(i) /\ Bucket(i) /\ src' \in {src, src \ {i}} /\ dst' = dst
          /\ processed' = processed /\ skipped' = skipped /\ failed' = failed \cup {i}
      BY <1>7 DEF DeleteFails, Fail
    <2>2. Settled(i)
      BY <2>1 DEF Settled
    <2> QED
      BY <2>2, WalkBucket
  <1> QED
    BY <1>2, <1>3, <1>4, <1>5, <1>6, <1>7 DEF Handle

LEMMA WalkStep ==
    ASSUME IInv, [Next]_vars
    PROVE  WalkInv'
  <1> USE DEF tableVars, bucketVars
  <1>0. cascade' = cascade
    BY DEF Next, vars
  <1>1. CASE Call
    <2>1. PICK from \in 0..Last : CallFrom(from)
      BY <1>1 DEF Call, FirstCall, Resume, Repeat, IInv, TypeOK, WalkTypeOK
    <2> QED
      BY <1>0, <1>1, <2>1, WalkCall DEF Call
  <1>2. CASE CallNeedlessly
    BY <1>0, <1>2, WalkCall DEF CallNeedlessly, RepeatReturned, IInv, TypeOK, WalkTypeOK
  <1>3. CASE Read
    BY <1>0, <1>3, WalkRead
  <1>4. CASE SelfTurn
    <2>1. /\ phase = "page" /\ page = {} /\ ~more /\ cascade
          /\ selfTurn' = TRUE /\ phase' = IF Self \in src THEN phase ELSE "returned"
          /\ UNCHANGED <<src, dst, processed, skipped, failed, startKey, more, page, token, cursor>>
      BY <1>4 DEF SelfTurn, PageHandled, WalkDone, Exhausted, SelfPresent
    <2>2. \A j \in src \cap Rows : j > token => j \in skipped \cup failed
      BY <2>1 DEF IInv, WalkInv, Walking, Seen
    <2>3. CASE Self \in src
      BY <1>0, <2>1, <2>2, <2>3 DEF IInv, WalkInv, Walking, Seen, Complete
    <2>4. CASE Self \notin src
      <3>1. \A j \in src \cap Scope : j \in Rows
        BY <2>4, RowFacts DEF Scope
      <3> QED
        BY <1>0, <2>1, <2>2, <2>4, <3>1, RowFacts DEF Scope, IInv, WalkInv, Walking, Complete
    <2> QED
      BY <2>3, <2>4
  <1>5. CASE EndPage
    <2>1. /\ phase = "page" /\ page = {} /\ ~selfTurn /\ selfTurn' = FALSE
          /\ UNCHANGED <<src, dst, processed, skipped, failed, startKey, more, page, token>>
      BY <1>5 DEF EndPage, Finish, StopAtBudget, NextPage, PageHandled, IInv, TypeOK
    <2>2. CASE ~cascade /\ Finish
      <3>1. ~more /\ phase' = "returned" /\ Scope = Rows
        BY <2>2 DEF Finish, Exhausted, Scope
      <3>2. \A j \in src \cap Rows : j > token => j \in skipped \cup failed
        BY <2>1, <3>1 DEF IInv, WalkInv, Walking, Seen
      <3> QED
        BY <1>0, <2>1, <3>1, <3>2, RowFacts DEF Scope, IInv, WalkInv, Walking, Complete
    <2>3. CASE StopAtBudget
      <3>1. phase' = "returned" /\ cursor' = startKey /\ more
        BY <2>3, Zenon DEF StopAtBudget, Cursor, Exhausted
      <3>2. startKey # 0
        BY <2>1, <3>1 DEF IInv, WalkInv
      <3> QED
        BY <1>0, <2>1, <3>1, <3>2 DEF IInv, WalkInv, Walking, Complete
    <2>4. CASE NextPage
      <3>1. phase' = "read" /\ more /\ cursor' = cursor
        BY <2>4, Zenon DEF NextPage, Exhausted
      <3> QED
        BY <1>0, <2>1, <3>1 DEF IInv, WalkInv, Walking, Seen, Complete
    <2> QED
      BY <1>5, <2>2, <2>3, <2>4 DEF EndPage
  <1>6. CASE Crash
    BY <1>0, <1>6 DEF Crash, Throw, IInv, WalkInv, Walking, Complete
  <1>7. CASE \E i \in Items : Handle(i)
    BY <1>0, <1>7, WalkHandle
  <1>8. CASE UNCHANGED vars
    BY <1>8 DEF Scope, vars, walkVars, IInv, WalkInv, Walking, Seen, Complete
  <1> QED
    BY <1>1, <1>2, <1>3, <1>4, <1>5, <1>6, <1>7, <1>8 DEF Next

-----------------------------------------------------------------------------
(***************************************************************************)
(* The theorems.                                                           *)
(***************************************************************************)

LEMMA Inductive == Spec => []IInv
  <1>1. IInv /\ [Next]_vars => IInv'
    BY TypeStep, TableStep, WalkStep DEF IInv
  <1> QED
    BY InitInv, <1>1, PTL DEF Spec

\* The variables keep their types.
THEOREM TypeCorrect == Spec => []TypeOK
  BY Inductive, PTL DEF IInv

\* rename and moveAllUnder lose no row, whatever requests fail, whenever the
\* process dies and however the calls are repeated.
THEOREM NoRowLost == Spec => []NoItemLost
  <1>1. IInv => NoItemLost
    BY DEF IInv, TableInv
  <1> QED
    BY <1>1, Inductive, PTL

\* They never overwrite an item at a destination.
THEOREM NoDestinationOverwritten == Spec => []OccupiedKept
  <1>1. IInv => OccupiedKept
    BY DEF IInv, TableInv
  <1> QED
    BY <1>1, Inductive, PTL

\* What a call that walked the whole range leaves at the source is in its
\* envelope, and what the envelope calls processed has moved.
THEOREM EnvelopeIsComplete == Spec => []EnvelopeTellsAll
  <1>1. IInv => EnvelopeTellsAll
    <2> SUFFICES ASSUME IInv PROVE EnvelopeTellsAll
      OBVIOUS
    <2>1. ASSUME Complete, token = 0
          PROVE  src \cap Scope \subseteq skipped \cup failed
      <3>1. \A i \in src \cap Scope : i > token \/ i = Self
        BY <2>1, RowFacts DEF IInv, TypeOK
      <3> QED
        BY <2>1, <3>1 DEF IInv, WalkInv
    <2> QED
      BY <2>1 DEF IInv, WalkInv, EnvelopeTellsAll
  <1> QED
    BY <1>1, Inductive, PTL

\* moveAllUnder copies the root only after every row of the walk.
THEOREM RootMovesLast == Spec => RootLast
  <1> DEFINE A == dst[Self] # "copy" /\ dst'[Self] = "copy" =>
                    {i \in src \cap Rows : i > token} \subseteq skipped \cup failed
  <1>1. IInv /\ [Next]_vars => A \/ UNCHANGED vars
    <2> SUFFICES ASSUME IInv, [Next]_vars, dst[Self] # "copy", dst'[Self] = "copy"
                 PROVE  {i \in src \cap Rows : i > token} \subseteq skipped \cup failed
      OBVIOUS
    <2>1. PICK i \in Items : Put(i) \/ PutFails(i)
      <3>1. dst' # dst
        OBVIOUS
      <3> QED
        BY <3>1 DEF Next, Call, CallNeedlessly, Fresh, Read, SelfTurn, EndPage, Crash, Handle,
                    Drop, PutCollides, Delete, DeleteFails, vars, tableVars
    <2>2. Turn(i) /\ Vacant(i) /\ Written(i)
      BY <2>1 DEF Put, PutFails
    <2>3. i = Self
      BY <2>2, WrittenFacts, RowFacts DEF IInv
    <2>4. phase = "page" /\ selfTurn
      BY <2>2, <2>3, RowFacts DEF Turn, IInv, TypeOK, WalkTypeOK
    <2> QED
      BY <2>4 DEF IInv, WalkInv, Walking, Seen
  <1>2. IInv /\ [Next]_vars => [A]_vars
    BY <1>1
  <1> QED
    BY <1>2, Inductive, PTL DEF Spec, RootLast
=============================================================================
