-------------------------- MODULE MassWriteProofs --------------------------
(***************************************************************************)
(* Proofs about MassWrite: for any number of rows, any page size and cap,  *)
(* any size of slices and batches, any rows that mapFn drops and           *)
(* destinations that are taken, and any number of faults.                  *)
(***************************************************************************)
EXTENDS MassWrite, FiniteSetTheorems, TLAPS

USE RangeAssumption, MoveAssumption DEF RangeAssumption, MoveAssumption

\* The row has what the operation is for, or its failure is reported.
Done(i) == Handled(i) \/ i \in failed

\* Its last request is in the batch that is under way.
Pending(i) ==
    /\ status \in {"send", "wait"}
    /\ <<IF op = "clone" THEN "put" ELSE "delete", i>> \in unsent

\* The batch belongs to the page that is handled, and holds rows that mapFn let
\* through; the copy of a row is not behind its deletion.
LoopInv ==
    /\ phase \in {"uncalled", "read", "returned"} => status = "idle"
    /\ phase = "page" => status # "failed"
    /\ phase = "threw" => status \in {"idle", "failed"}
    /\ status \in {"send", "wait"} => attempts < MaxAttempts
    /\ RowByRow => status = "idle" /\ unsent = {}
    /\ \A w \in unsent : w[2] \in Kept
    /\ op = "move" => \A i \in Rows :
          <<"delete", i>> \in unsent => <<"put", i>> \in unsent \/ dst[i] = "copy"

\* The root is done with unless it still has its turn.
RootInv ==
    /\ op \in {"move", "cloneWithOverwrite"} => ~cascade
    /\ rootTurn => cascade /\ Cloning /\ token = 0 /\ phase \in {"read", "threw"}
    /\ cascade /\ Cloning /\ phase # "uncalled" /\ ~rootTurn => Done(Self)
    /\ cascade /\ op = "delete" /\ Complete => Done(Self)
    /\ ~RowByRow => failed \cap Rows = {}

\* Every row the walk has been past is done with, or about to be.
WalkInv ==
    /\ \A i \in Rows : i <= token => Done(i)
    /\ phase = "read" => token <= startKey /\ \A i \in Rows : i <= startKey => Done(i)
    /\ phase = "page" =>
          /\ token <= startKey
          /\ more => startKey # 0
          /\ \A i \in page : i > token
          /\ \A i \in Rows \ page : (more => i <= startKey) => Done(i) \/ Pending(i)
    /\ phase = "returned" =>
          /\ \A i \in Rows : (more => i <= startKey) => Done(i)
          /\ \A i \in Rows : cursor # 0 /\ i <= cursor => Done(i)
          /\ cursor = 0 /\ more => MergesRoot /\ OverBudget

IInv == TypeOK /\ LoopInv /\ SparedStay /\ RootInv /\ WalkInv

LEMMA RowFacts == Self \in Items /\ Self \notin Rows /\ Rows \subseteq Items
                  /\ Rows \subseteq Nat \ {0} /\ Rows \subseteq 0..Last
                  /\ \A i \in Items : i = Self \/ i \in Rows
  BY DEF Self, Items, Rows

LEMMA InitInv == Init => IInv
  <1> SUFFICES ASSUME Init PROVE IInv
    OBVIOUS
  <1>1. TypeOK
    <2>1. WalkTypeOK
      <3>1. more \in BOOLEAN /\ page \subseteq Rows
        BY Zenon DEF Init, WalkInit
      <3>2. startKey \in 0..Last /\ counted \in Nat /\ token \in 0..Last /\ cursor \in 0..Last
        BY DEF Init, WalkInit
      <3> QED
        BY <3>1, <3>2, Zenon DEF Init, WalkInit, WalkTypeOK
    <2>2. BatchTypeOK /\ unsent \subseteq Writes
      BY DEF Init, BatchInit, BatchTypeOK
    <2>3. dst \in [Items -> {"free", "other", "copy"}] /\ src \subseteq Items
      BY RowFacts DEF Init
    <2>4. rootTurn \in BOOLEAN /\ cleared \in BOOLEAN
      BY Zenon DEF Init
    <2>5. faults \in 0..MaxFaults
      BY DEF Init
    <2>6. op \in Ops /\ cascade \in BOOLEAN /\ failed \subseteq Items
      BY DEF Init
    <2> QED
      BY <2>1, <2>2, <2>3, <2>4, <2>5, <2>6, Zenon DEF TypeOK
  <1>2. LoopInv
    BY DEF Init, BatchInit, WalkInit, LoopInv
  <1>3. SparedStay
    BY RowFacts DEF Init, SparedStay
  <1>4. RootInv
    BY DEF Init, WalkInit, RootInv, Complete
  <1>5. WalkInv
    BY RowFacts DEF Init, WalkInit, WalkInv
  <1> QED
    BY <1>1, <1>2, <1>3, <1>4, <1>5 DEF IInv

-----------------------------------------------------------------------------
(***************************************************************************)
(* Type correctness.                                                       *)
(***************************************************************************)

\* What can be counted of a page.
LEMMA Counts ==
    /\ \A is \in SUBSET Rows : Cardinality(is) \in Nat
    /\ \A ws \in SUBSET Writes : Cardinality(ws) \in Nat
  <1>1. IsFiniteSet(Rows)
    BY FS_Interval DEF Rows
  <1>2. IsFiniteSet({"put", "delete"})
    <2>1. IsFiniteSet({"put"}) /\ IsFiniteSet({"delete"})
      BY FS_Singleton
    <2>2. {"put", "delete"} = {"put"} \cup {"delete"}
      OBVIOUS
    <2> QED
      BY <2>1, <2>2, FS_Union
  <1>3. IsFiniteSet(Writes)
    BY <1>1, <1>2, FS_Product DEF Writes
  <1> QED
    BY <1>1, <1>3, FS_Subset, FS_CardinalityType

LEMMA CallType ==
    ASSUME TypeOK, NEW from \in 0..Last, CallFrom(from), Start
    PROVE  /\ WalkTypeOK' /\ (op \in Ops)' /\ (cascade \in BOOLEAN)' /\ (src \subseteq Items)'
           /\ (dst \in [Items -> {"free", "other", "copy"}])'
           /\ (failed \subseteq Items)' /\ (rootTurn \in BOOLEAN)' /\ (cleared \in BOOLEAN)'
  <1>1. WalkTypeOK'
    <2>1. more' \in BOOLEAN /\ page' \subseteq Rows
      BY Zenon DEF CallFrom
    <2>2. /\ startKey' \in 0..Last /\ counted' \in Nat
          /\ token' \in 0..Last /\ cursor' \in 0..Last
      BY DEF CallFrom, StartAt
    <2> QED
      BY <2>1, <2>2, Zenon DEF CallFrom, WalkTypeOK
  <1>2. rootTurn' \in BOOLEAN
    BY Zenon DEF Start, RootFirst
  <1>3. failed' \subseteq Items
    BY DEF Start, TypeOK
  <1> QED
    BY <1>1, <1>2, <1>3 DEF TypeOK, Start, Untouched, opVars, tableVars

LEMMA ReadType ==
    ASSUME WalkTypeOK, NEW present \in SUBSET Rows, ReadPage(present)
    PROVE  WalkTypeOK'
  <1>1. After(present, startKey) \subseteq Rows /\ Rows \subseteq 0..Last
    BY RowFacts DEF After
  <1>2. CASE ReadLastPage(present)
    BY <1>1, <1>2 DEF ReadLastPage, WalkTypeOK
  <1>3. CASE ReadFullPage(present)
    BY <1>1, <1>3 DEF ReadFullPage, WalkTypeOK
  <1> QED
    BY <1>2, <1>3 DEF ReadPage

\* A failed attempt: the rest of the batch waits, or the last attempt is over.
LEMMA DeliverFacts ==
    ASSUME BatchTypeOK, LoopInv, NEW done \in SUBSET unsent, Deliver(done)
    PROVE  /\ unsent' = unsent \ done /\ attempts' \in 0..MaxAttempts
           /\ status' \in {"idle", "wait", "failed"}
           /\ status' = "idle" => BatchDone(done)
           /\ status' = "wait" => attempts' < MaxAttempts
           /\ BatchDone(done) => status' = "idle"
  BY DEF Deliver, Retry, Remaining, BatchDone, BatchTypeOK, LoopInv

LEMMA EffectType ==
    ASSUME TypeOK, NEW done, Effect(done)
    PROVE  /\ UNCHANGED opVars /\ src' \subseteq src
           /\ dst' \in [Items -> {"free", "other", "copy"}]
  BY DEF TypeOK, Effect

LEMMA RowType ==
    ASSUME TypeOK, NEW i \in Items, ClearRow(i) \/ PutRow(i) \/ RowFails(i) \/ PutRowThrows(i)
    PROVE  TypeOK'
  <1>1. \A what \in {"free", "copy"} :
          Write(i, what) => /\ dst' \in [Items -> {"free", "other", "copy"}] /\ src' = src
                            /\ op' = op /\ cascade' = cascade
    BY DEF Write, opVars, TypeOK
  <1>2. Untouched => dst' = dst /\ src' = src /\ op' = op /\ cascade' = cascade
    BY DEF Untouched, opVars, tableVars
  <1>3. Counted(i) => /\ WalkTypeOK' /\ rootTurn' \in BOOLEAN /\ cleared' \in BOOLEAN
                      /\ UNCHANGED loop
    <2> SUFFICES ASSUME Counted(i)
                 PROVE  WalkTypeOK' /\ rootTurn' \in BOOLEAN /\ cleared' \in BOOLEAN
                        /\ UNCHANGED loop
      OBVIOUS
    <2>1. counted' \in Nat /\ page' \subseteq Rows
      BY DEF Counted, TypeOK, WalkTypeOK
    <2>2. UNCHANGED <<phase, startKey, more, token, cursor, loop>>
      BY DEF Counted
    <2>3. WalkTypeOK'
      BY <2>1, <2>2 DEF TypeOK, WalkTypeOK
    <2> QED
      BY <2>2, <2>3 DEF Counted
  <1>4. Fault => faults' \in 0..MaxFaults
    BY DEF Fault, TypeOK
  <1>5. CASE ClearRow(i)
    BY <1>1, <1>5 DEF ClearRow, TypeOK, WalkTypeOK, BatchTypeOK, walkVars, loop
  <1>6. CASE PutRow(i)
    BY <1>1, <1>2, <1>3, <1>6 DEF PutRow, TypeOK, BatchTypeOK, loop
  <1>7. CASE RowFails(i)
    <2>1. failed' \subseteq Items
      BY <1>7 DEF RowFails, TypeOK
    <2> QED
      BY <1>1, <1>2, <1>3, <1>4, <1>7, <2>1 DEF RowFails, TypeOK, BatchTypeOK, loop
  <1>8. CASE PutRowThrows(i)
    BY <1>1, <1>2, <1>4, <1>8 DEF PutRowThrows, Throw, TypeOK, WalkTypeOK, BatchTypeOK, loop
  <1> QED
    BY <1>5, <1>6, <1>7, <1>8

\* A slice holds rows of the page, and its requests are for rows that mapFn
\* lets through.
LEMMA SliceFacts ==
    ASSUME TypeOK, ~RowByRow
    PROVE  /\ Slice \subseteq page /\ Slice \subseteq Rows
           /\ Legs \subseteq {"put", "delete"}
           /\ op = "move" => Legs = {"put", "delete"}
           /\ op = "clone" => Legs = {"put"}
           /\ op = "delete" => Legs = {"delete"}
           /\ op \in {"move", "clone", "delete"}
           /\ Requests(Slice) \subseteq Writes
           /\ \A w \in Requests(Slice) : w[2] \in Kept
           /\ \A i \in Slice : i \in Kept => \A leg \in Legs : <<leg, i>> \in Requests(Slice)
           /\ \A i \in Rows : \A leg \in Legs :
                 <<leg, i>> \in Requests(Slice) => i \in Slice \cap Kept
  <1>1. op \in {"move", "clone", "delete"}
    BY DEF RowByRow, Conditional, TypeOK, Ops
  <1>2. /\ Legs \subseteq {"put", "delete"}
        /\ op = "move" => Legs = {"put", "delete"}
        /\ op = "clone" => Legs = {"put"}
        /\ op = "delete" => Legs = {"delete"}
    BY <1>1 DEF Legs
  <1>3. Slice \subseteq page /\ Slice \subseteq Rows
    BY DEF Slice, TypeOK, WalkTypeOK
  <1>4. Requests(Slice) = Legs \X (Slice \cap Kept)
    BY DEF Requests
  <1> HIDE DEF Slice, Legs, Requests, Kept
  <1> QED
    BY <1>1, <1>2, <1>3, <1>4 DEF Writes

LEMMA TypeStep ==
    ASSUME TypeOK, LoopInv, [Next]_vars
    PROVE  TypeOK'
  <1> USE DEF Untouched, opVars, tableVars, loop
  <1>1. CASE Call
    <2>1. PICK from \in 0..Last : CallFrom(from)
      BY <1>1 DEF Call, FirstCall, Resume, TypeOK, WalkTypeOK
    <2> QED
      BY <1>1, <2>1, CallType DEF Call, TypeOK, BatchTypeOK
  <1>2. CASE CallAgain
    <2>1. CallFrom(token) /\ token \in 0..Last
      BY <1>2 DEF CallAgain, Repeat, TypeOK, WalkTypeOK
    <2> QED
      BY <1>2, <2>1, CallType DEF CallAgain, TypeOK, BatchTypeOK
  <1>3. CASE CallNeedlessly
    <2>1. CallFrom(token) /\ token \in 0..Last
      BY <1>3 DEF CallNeedlessly, RepeatReturned, TypeOK, WalkTypeOK
    <2> QED
      BY <1>3, <2>1, CallType DEF CallNeedlessly, TypeOK, BatchTypeOK, Fault
  <1>4. CASE Read
    <2>1. WalkTypeOK'
      BY <1>4, ReadType DEF Read, TypeOK
    <2> QED
      BY <1>4, <2>1 DEF Read, TypeOK, BatchTypeOK
  <1>5. CASE EndPage
    <2>1. WalkTypeOK'
      BY <1>5 DEF EndPage, Finish, StopAtBudget, StopWithoutCursor, NextPage, Cursor, TypeOK,
                  WalkTypeOK
    <2> QED
      BY <1>5, <2>1 DEF EndPage, TypeOK, BatchTypeOK
  <1>6. CASE Crash
    <2>1. WalkTypeOK'
      BY <1>6 DEF Crash, Throw, TypeOK, WalkTypeOK
    <2> QED
      BY <1>6, <2>1 DEF Crash, Fault, TypeOK, BatchTypeOK
  <1>7. CASE NextSlice
    <2>1. counted' \in Nat /\ page' \subseteq Rows
      <3>1. Requests(Slice) \in SUBSET Writes /\ counted \in Nat /\ page \subseteq Rows
        BY <1>7, SliceFacts DEF NextSlice, TypeOK, WalkTypeOK
      <3>2. Cardinality(Requests(Slice)) \in Nat
        BY <3>1, Counts
      <3>3. counted' = counted + Cardinality(Requests(Slice)) /\ page' = page \ Slice
        BY <1>7 DEF NextSlice
      <3> QED
        BY <3>1, <3>2, <3>3
    <2>2. WalkTypeOK'
      BY <1>7, <2>1 DEF NextSlice, TypeOK, WalkTypeOK
    <2>3. BatchTypeOK' /\ unsent' \subseteq Writes
      <3>1. Requests(Slice) \subseteq Writes
        BY <1>7, SliceFacts DEF NextSlice
      <3>2. \/ UNCHANGED loop
            \/ unsent' = Requests(Slice) /\ attempts' = 0 /\ status' = "send"
        BY <1>7 DEF NextSlice, Load
      <3> QED
        BY <3>1, <3>2 DEF TypeOK, BatchTypeOK
    <2> QED
      BY <1>7, <2>2, <2>3 DEF NextSlice, TypeOK
  <1>8. CASE Answer
    <2>1. PICK done \in SUBSET unsent : Deliver(done) /\ Effect(done)
      BY <1>8 DEF Answer
    <2>2. BatchTypeOK' /\ unsent' \subseteq Writes
      BY <2>1, DeliverFacts DEF TypeOK, BatchTypeOK
    <2>3. /\ phase' \in {phase, "threw"} /\ faults' \in 0..MaxFaults
          /\ UNCHANGED <<startKey, more, page, counted, token, cursor, failed, rootTurn, cleared>>
      BY <1>8 DEF Answer, Fault, TypeOK
    <2>4. WalkTypeOK'
      BY <2>3 DEF TypeOK, WalkTypeOK
    <2> QED
      BY <2>1, <2>2, <2>3, <2>4, EffectType DEF TypeOK
  <1>9. CASE Error
    <2>1. PICK done \in SUBSET unsent : Raise(done) /\ Effect(done)
      BY <1>9 DEF Error
    <2>2. BatchTypeOK' /\ unsent' \subseteq Writes
      BY <2>1 DEF Raise, TypeOK, BatchTypeOK
    <2>3. /\ phase' = "threw" /\ faults' \in 0..MaxFaults
          /\ UNCHANGED <<startKey, more, page, counted, token, cursor, failed, rootTurn, cleared>>
      BY <1>9 DEF Error, Fault, TypeOK
    <2>4. WalkTypeOK'
      BY <2>3 DEF TypeOK, WalkTypeOK
    <2> QED
      BY <2>1, <2>2, <2>3, <2>4, EffectType DEF TypeOK
  <1>10. CASE Pause
    BY <1>10 DEF Pause, Wake, walkVars, TypeOK, WalkTypeOK, BatchTypeOK
  <1>11. CASE PassOver
    <2>1. counted' \in Nat
      BY <1>11, Counts DEF PassOver, TypeOK, WalkTypeOK
    <2>2. WalkTypeOK'
      BY <1>11, <2>1 DEF PassOver, TypeOK, WalkTypeOK
    <2> QED
      BY <1>11, <2>2 DEF PassOver, TypeOK, BatchTypeOK
  <1>12. CASE NoRoot
    BY <1>12 DEF NoRoot, walkVars, TypeOK, WalkTypeOK, BatchTypeOK
  <1>13. CASE DeleteRoot
    <2>1. WalkTypeOK'
      BY <1>13 DEF DeleteRoot, TypeOK, WalkTypeOK
    <2>2. src' \subseteq Items /\ failed' \subseteq Items /\ faults' \in 0..MaxFaults
      <3>1. CASE src' = src \ {Self} /\ UNCHANGED <<failed, faults>>
        BY <3>1 DEF TypeOK
      <3>2. CASE src' \in {src, src \ {Self}} /\ failed' = failed \cup {Self} /\ Fault
        BY <3>2, RowFacts DEF Fault, TypeOK
      <3> QED
        BY <1>13, <3>1, <3>2 DEF DeleteRoot
    <2> QED
      BY <1>13, <2>1, <2>2 DEF DeleteRoot, TypeOK, BatchTypeOK
  <1>14. CASE \E i \in Items : ClearRow(i) \/ PutRow(i) \/ RowFails(i) \/ PutRowThrows(i)
    BY <1>14, RowType
  <1>15. CASE UNCHANGED vars
    BY <1>15 DEF vars, walkVars, TypeOK, WalkTypeOK, BatchTypeOK
  <1> QED
    BY <1>1, <1>2, <1>3, <1>4, <1>5, <1>6, <1>7, <1>8, <1>9, <1>10, <1>11, <1>12, <1>13,
       <1>14, <1>15
       DEF Next

-----------------------------------------------------------------------------
(***************************************************************************)
(* Nothing changes its operation, no row comes back to the source, and     *)
(* only cloneWithOverwrite takes a copy away.                              *)
(***************************************************************************)

LEMMA RowFrame ==
    ASSUME TypeOK, NEW i \in Items, ClearRow(i) \/ PutRow(i) \/ RowFails(i) \/ PutRowThrows(i)
    PROVE  /\ op' = op /\ cascade' = cascade /\ src' = src
           /\ \A j \in Items : j # i => dst'[j] = dst[j]
           /\ op # "cloneWithOverwrite" => dst'[i] \in {dst[i], "copy"}
           /\ i \in Kept /\ Turn(i)
  <1>1. i \in Kept /\ Turn(i)
    BY DEF ClearRow, PutRow, RowFails, PutRowThrows, Puttable, Turn
  <1>2. \/ dst' = dst
        \/ dst' = [dst EXCEPT ![i] = "copy"]
        \/ dst' = [dst EXCEPT ![i] = "free"] /\ op = "cloneWithOverwrite"
    BY <1>1 DEF ClearRow, PutRow, RowFails, PutRowThrows, Untouched, tableVars, Write, Puttable
  <1>3. op' = op /\ cascade' = cascade /\ src' = src
    BY DEF ClearRow, PutRow, RowFails, PutRowThrows, Untouched, opVars, tableVars, Write
  <1> QED
    BY <1>1, <1>2, <1>3 DEF TypeOK

LEMMA Frame ==
    ASSUME TypeOK, [Next]_vars
    PROVE  /\ op' = op /\ cascade' = cascade /\ src' \subseteq src
           /\ op # "cloneWithOverwrite" => \A i \in Items : dst'[i] \in {dst[i], "copy"}
  <1>1. ASSUME Call \/ CallAgain \/ CallNeedlessly \/ Read \/ EndPage \/ Crash \/ NextSlice
               \/ Pause \/ PassOver \/ NoRoot \/ UNCHANGED vars
        PROVE  UNCHANGED <<opVars, tableVars>>
    BY <1>1 DEF Call, CallAgain, CallNeedlessly, Start, Read, EndPage, Crash, NextSlice,
                Pause, PassOver, NoRoot, Untouched, vars
  <1>2. CASE Answer \/ Error
    <2>1. PICK done \in SUBSET unsent : Effect(done)
      BY <1>2 DEF Answer, Error
    <2> QED
      BY <2>1 DEF Effect, opVars, TypeOK
  <1>3. CASE DeleteRoot
    BY <1>3 DEF DeleteRoot, opVars
  <1>4. CASE \E i \in Items : ClearRow(i) \/ PutRow(i) \/ RowFails(i) \/ PutRowThrows(i)
    BY <1>4, RowFrame
  <1> QED
    BY <1>1, <1>2, <1>3, <1>4 DEF Next, opVars, tableVars

-----------------------------------------------------------------------------
(***************************************************************************)
(* The batch that is under way.                                            *)
(***************************************************************************)

\* Between batches.
LEMMA LoopIdle ==
    ASSUME TypeOK, LoopInv, [Next]_vars, status = "idle", UNCHANGED loop
    PROVE  LoopInv'
  <1>1. op' = op /\ \A i \in Rows : op = "move" /\ dst[i] = "copy" => dst'[i] = "copy"
    BY Frame, RowFacts
  <1> QED
    BY <1>1 DEF LoopInv, loop, RowByRow, Conditional, Kept

LEMMA LoopStep ==
    ASSUME TypeOK, LoopInv, RootInv, [Next]_vars
    PROVE  LoopInv'
  <1>0. op' = op /\ RowByRow' = RowByRow /\ Kept' = Kept
        /\ \A i \in Rows : op = "move" /\ dst[i] = "copy" => dst'[i] = "copy"
    BY Frame, RowFacts DEF RowByRow, Conditional, Kept
  <1>1. CASE Call
    <2>1. status = "idle" /\ UNCHANGED loop
      BY <1>1 DEF Call, FirstCall, Resume, LoopInv
    <2> QED
      BY <2>1, LoopIdle
  <1>2. CASE CallAgain
    <2>1. phase' = "read" /\ status' = "idle" /\ unsent' = {}
      BY <1>2 DEF CallAgain, Repeat, CallFrom
    <2> QED
      BY <1>0, <2>1 DEF LoopInv
  <1>3. CASE CallNeedlessly
    <2>1. status = "idle" /\ UNCHANGED loop
      BY <1>3 DEF CallNeedlessly, RepeatReturned, LoopInv
    <2> QED
      BY <2>1, LoopIdle
  <1>4. CASE Read
    <2>1. status = "idle" /\ UNCHANGED loop
      BY <1>4 DEF Read, ReadPage, ReadLastPage, ReadFullPage, LoopInv
    <2> QED
      BY <2>1, LoopIdle
  <1>5. CASE EndPage \/ Crash \/ DeleteRoot
    <2>1. status = "idle" /\ UNCHANGED loop
      BY <1>5 DEF EndPage, Crash, DeleteRoot
    <2> QED
      BY <2>1, LoopIdle
  <1>6. CASE NextSlice
    <2>1. ~RowByRow /\ status = "idle" /\ phase' = "page" /\ phase = "page"
      BY <1>6 DEF NextSlice
    <2>2. CASE UNCHANGED loop
      BY <2>1, <2>2, LoopIdle
    <2>3. CASE Load(Requests(Slice))
      <3>1. unsent' = Requests(Slice) /\ attempts' = 0 /\ status' = "send"
        BY <2>3 DEF Load
      <3>2. \A w \in unsent' : w[2] \in Kept
        BY <2>1, <3>1, SliceFacts
      <3>3. op = "move" => \A i \in Rows :
              <<"delete", i>> \in unsent' => <<"put", i>> \in unsent'
        BY <2>1, <3>1, SliceFacts
      <3> HIDE DEF Slice, Requests, Kept, RowByRow
      <3> QED
        BY <1>0, <2>1, <3>1, <3>2, <3>3 DEF LoopInv
    <2> QED
      BY <1>6, <2>2, <2>3 DEF NextSlice
  <1>7. CASE Answer
    <2>1. PICK done \in SUBSET unsent :
            /\ Deliver(done) /\ Effect(done)
            /\ BatchDone(done) => phase' = phase
            /\ ~BatchDone(done) => phase' = IF status' = "failed" THEN "threw" ELSE phase
      BY <1>7 DEF Answer
    <2>2. status = "send" /\ phase = "page" /\ ~RowByRow
      BY <2>1 DEF Deliver, LoopInv, TypeOK, WalkTypeOK
    <2>3. /\ unsent' = unsent \ done /\ status' \in {"idle", "wait", "failed"}
          /\ status' = "idle" => BatchDone(done)
          /\ status' = "wait" => attempts' < MaxAttempts
          /\ BatchDone(done) => status' = "idle"
      BY <2>1, DeliverFacts DEF TypeOK
    <2>4. \A w \in unsent' : w[2] \in Kept
      BY <2>3 DEF LoopInv
    <2>5. op = "move" => \A i \in Rows :
            <<"delete", i>> \in unsent' => <<"put", i>> \in unsent' \/ dst'[i] = "copy"
      BY <1>0, <2>1, <2>3, RowFacts DEF LoopInv, Effect
    <2>6. phase' = "page" => status' # "failed"
      BY <2>1, <2>2, <2>3
    <2>7. phase' \in {"page", "threw"} /\ (phase' = "threw" => status' = "failed")
      BY <2>1, <2>2, <2>3
    <2> HIDE DEF RowByRow, Kept
    <2> QED
      BY <1>0, <2>2, <2>3, <2>4, <2>5, <2>6, <2>7 DEF LoopInv
  <1>8. CASE Error
    <2>1. PICK done \in SUBSET unsent : Raise(done)
      BY <1>8 DEF Error
    <2>2. status = "send" /\ status' = "failed" /\ unsent' = unsent /\ phase' = "threw"
      BY <1>8, <2>1 DEF Error, Raise
    <2> HIDE DEF RowByRow, Kept
    <2> QED
      BY <1>0, <2>2 DEF LoopInv
  <1>9. CASE Pause
    <2>1. status = "wait" /\ status' = "send" /\ UNCHANGED <<unsent, attempts, phase>>
      BY <1>9 DEF Pause, Wake, walkVars
    <2> HIDE DEF RowByRow, Kept
    <2> QED
      BY <1>0, <2>1 DEF LoopInv
  <1>10. CASE PassOver
    <2>1. status = "idle" /\ UNCHANGED loop
      BY <1>10 DEF PassOver, LoopInv
    <2> QED
      BY <2>1, LoopIdle
  <1>11. CASE NoRoot
    <2>1. status = "idle" /\ UNCHANGED loop
      BY <1>11 DEF NoRoot, LoopInv
    <2> QED
      BY <2>1, LoopIdle
  <1>12. CASE \E i \in Items : ClearRow(i) \/ PutRow(i) \/ RowFails(i) \/ PutRowThrows(i)
    <2>1. PICK i \in Items : ClearRow(i) \/ PutRow(i) \/ RowFails(i) \/ PutRowThrows(i)
      BY <1>12
    <2>2. Turn(i) /\ UNCHANGED loop
      BY <2>1, RowFrame DEF ClearRow, PutRow, RowFails, PutRowThrows, Counted
    <2>3. status = "idle"
      BY <2>2 DEF Turn, LoopInv
    <2> QED
      BY <2>2, <2>3, LoopIdle
  <1>13. CASE UNCHANGED vars
    BY <1>13 DEF vars, opVars, tableVars, walkVars, loop, LoopInv, RowByRow, Conditional, Kept
  <1> QED
    BY <1>1, <1>2, <1>3, <1>4, <1>5, <1>6, <1>7, <1>8, <1>9, <1>10, <1>11, <1>12, <1>13 DEF Next

-----------------------------------------------------------------------------
(***************************************************************************)
(* What is to be spared.                                                   *)
(***************************************************************************)

LEMMA SparedStep ==
    ASSUME TypeOK, LoopInv, SparedStay, [Next]_vars
    PROVE  SparedStay'
  <1>0. op' = op
    BY Frame
  <1> SUFFICES ASSUME op # "delete"
               PROVE  SparedStay'
    BY <1>0 DEF SparedStay
  <1>1. ASSUME Dropped \cap Rows \subseteq src',
               \A i \in Items : Spared(i) => dst'[i] = dst[i]
        PROVE  SparedStay'
    BY <1>0, <1>1 DEF SparedStay, Spared
  <1>2. CASE UNCHANGED tableVars
    BY <1>1, <1>2 DEF SparedStay, tableVars
  <1>3. ASSUME Call \/ CallAgain \/ CallNeedlessly \/ Read \/ EndPage \/ Crash \/ NextSlice
               \/ Pause \/ PassOver \/ NoRoot \/ UNCHANGED vars
        PROVE  UNCHANGED tableVars
    BY <1>3 DEF Call, CallAgain, CallNeedlessly, Start, Read, EndPage, Crash, NextSlice,
                Pause, PassOver, NoRoot, Untouched, vars
  <1>4. CASE Answer \/ Error
    <2>1. PICK done \in SUBSET unsent : Effect(done)
      BY <1>4 DEF Answer, Error
    <2>2. \A w \in done : w[2] \notin Dropped
      BY DEF LoopInv, Kept
    <2>3. Dropped \cap Rows \subseteq src'
      BY <2>1, <2>2 DEF Effect, SparedStay
    <2>4. unsent # {} => ~RowByRow
      BY DEF LoopInv
    <2>5. \A i \in Items : Spared(i) => dst'[i] = dst[i]
      BY <2>1, <2>2, <2>4 DEF Effect, Spared, RowByRow, Conditional, TypeOK
    <2> QED
      BY <1>1, <2>3, <2>5
  <1>5. CASE DeleteRoot
    BY <1>5 DEF DeleteRoot
  <1>6. CASE \E i \in Items : ClearRow(i) \/ PutRow(i) \/ RowFails(i) \/ PutRowThrows(i)
    <2>1. PICK i \in Items : ClearRow(i) \/ PutRow(i) \/ RowFails(i) \/ PutRowThrows(i)
      BY <1>6
    <2>2. src' = src /\ i \notin Dropped /\ \A j \in Items : j # i => dst'[j] = dst[j]
      BY <2>1, RowFrame DEF Kept
    <2>3. Spared(i) => dst'[i] = dst[i]
      <3> SUFFICES ASSUME Spared(i)
                   PROVE  dst'[i] = dst[i]
        OBVIOUS
      <3>1. Conditional /\ dst[i] = IF i \in Taken THEN "other" ELSE "free"
        BY <2>2 DEF Spared, SparedStay, Conditional
      <3>2. ~Condition(i)
        BY <2>2, <3>1 DEF Spared, Condition
      <3>3. op # "cloneWithOverwrite"
        BY <3>1 DEF Conditional
      <3>4. dst' = dst
        BY <2>1, <3>1, <3>2, <3>3
           DEF ClearRow, PutRow, RowFails, PutRowThrows, Untouched, tableVars
      <3> QED
        BY <3>4
    <2> QED
      BY <1>1, <2>2, <2>3 DEF SparedStay
  <1> QED
    BY <1>2, <1>3, <1>4, <1>5, <1>6 DEF Next

-----------------------------------------------------------------------------
(***************************************************************************)
(* What is done stays done.                                                *)
(***************************************************************************)

LEMMA DoneStays ==
    ASSUME TypeOK, NEW i \in Items, Done(i), op' = op, src' \subseteq src,
           dst'[i] \in {dst[i], "copy"}, i \in failed => i \in failed'
    PROVE  Done(i)'
  <1>1. Handled(i) => Handled(i)'
    BY DEF Handled, TypeOK, Ops
  <1> QED
    BY <1>1 DEF Done

\* A row whose turn it is.
LEMMA TurnFacts ==
    ASSUME TypeOK, LoopInv, RootInv, NEW i \in Items, Turn(i)
    PROVE  /\ status = "idle" /\ Cloning
           /\ \/ i = Self /\ phase = "read" /\ rootTurn /\ op # "cloneWithOverwrite"
              \/ i \in page /\ i \in Rows /\ phase = "page" /\ ~rootTurn /\ RowByRow
  <1>1. CASE i = Self
    BY <1>1 DEF Turn, LoopInv, RootInv
  <1>2. CASE i # Self
    BY <1>2 DEF Turn, LoopInv, RootInv, Cloning, TypeOK, WalkTypeOK
  <1> QED
    BY <1>1, <1>2

\* A put that went through leaves its row with what the operation is for, its
\* condition met or not.
LEMMA PutDone ==
    ASSUME TypeOK, LoopInv, RootInv, NEW i \in Items, PutRow(i)
    PROVE  Done(i)'
  <1>1. Cloning /\ op' = op /\ src' = src
    BY TurnFacts, RowFrame DEF PutRow, Puttable
  <1>2. CASE Condition(i)
    <2>1. dst'[i] = "copy"
      BY <1>2 DEF PutRow, Write, TypeOK
    <2> QED
      BY <1>1, <2>1 DEF Done, Handled, Cloning, RowByRow, Conditional
  <1>3. CASE ~Condition(i)
    <2>1. dst' = dst
      BY <1>3 DEF PutRow, Untouched, tableVars
    <2> QED
      BY <1>1, <1>3, <2>1 DEF Done, Handled, Condition, Cloning, RowByRow, Conditional
  <1> QED
    BY <1>2, <1>3

-----------------------------------------------------------------------------
(***************************************************************************)
(* The turn of the root.                                                   *)
(***************************************************************************)

LEMMA RootCall ==
    ASSUME TypeOK, RootInv, NEW from \in 0..Last, CallFrom(from), Start,
           from # 0 => ~rootTurn /\ phase # "uncalled"
    PROVE  RootInv'
  <1>1. /\ phase' = "read" /\ token' = from /\ op' = op /\ cascade' = cascade
        /\ src' = src /\ dst' = dst /\ rootTurn' = RootFirst
        /\ failed' = IF from = 0 THEN {} ELSE {i \in failed : i <= from}
    BY DEF CallFrom, Start, Untouched, opVars, tableVars
  <1>2. rootTurn' => cascade /\ Cloning /\ from = 0
    BY <1>1 DEF RootFirst
  <1>3. ASSUME cascade, Cloning, ~rootTurn'
        PROVE  Done(Self)'
    <2>1. from # 0 /\ Done(Self)
      BY <1>1, <1>3 DEF RootFirst, RootInv
    <2>2. Self \in failed => Self \in failed'
      BY <1>1, <2>1 DEF Self
    <2> QED
      BY <1>1, <2>1, <2>2, RowFacts, DoneStays
  <1>4. failed' \subseteq failed
    BY <1>1
  <1> QED
    BY <1>1, <1>2, <1>3, <1>4 DEF RootInv, Complete, Cloning, RowByRow, Conditional

\* Steps at which the root does not have its turn, and none begins.
LEMMA RootQuiet ==
    ASSUME TypeOK, RootInv, UNCHANGED <<op, cascade, token, rootTurn>>,
           src' \subseteq src, dst'[Self] \in {dst[Self], "copy"},
           failed' = failed, phase # "uncalled", phase' # "uncalled",
           rootTurn => phase' \in {"read", "threw"},
           cascade /\ op = "delete" /\ Complete' => Complete
    PROVE  RootInv'
  <1>1. Done(Self) => Done(Self)'
    BY RowFacts, DoneStays
  <1>2. /\ Cloning' = Cloning /\ RowByRow' = RowByRow
    BY DEF Cloning, RowByRow, Conditional
  <1> HIDE DEF Cloning, RowByRow, Complete
  <1> QED
    BY <1>1, <1>2 DEF RootInv

LEMMA RootRow ==
    ASSUME TypeOK, LoopInv, RootInv, NEW i \in Items,
           ClearRow(i) \/ PutRow(i) \/ RowFails(i) \/ PutRowThrows(i)
    PROVE  RootInv'
  <1>1. /\ op' = op /\ cascade' = cascade /\ src' = src /\ Turn(i)
        /\ \A j \in Items : j # i => dst'[j] = dst[j]
        /\ op # "cloneWithOverwrite" => dst'[i] \in {dst[i], "copy"}
    BY RowFrame
  <1>2. /\ Cloning
        /\ \/ i = Self /\ phase = "read" /\ rootTurn /\ op # "cloneWithOverwrite"
           \/ i \in page /\ i \in Rows /\ phase = "page" /\ ~rootTurn /\ RowByRow
    BY <1>1, TurnFacts
  <1>3. /\ Cloning' = Cloning /\ RowByRow' = RowByRow
        /\ op # "delete" /\ (op = "cloneWithOverwrite" => ~cascade)
    BY <1>1, <1>2 DEF Cloning, RowByRow, Conditional, RootInv
  <1>4. token' = token /\ failed' \subseteq failed \cup {i} /\ failed \subseteq failed'
    BY DEF ClearRow, PutRow, RowFails, PutRowThrows, Counted, Throw, walkVars
  <1>5. ~RowByRow => failed' \cap Rows = {}
    BY <1>2, <1>4, RowFacts DEF RootInv
  <1>6. CASE ClearRow(i) \/ PutRowThrows(i)
    <2>1. rootTurn' = rootTurn /\ (rootTurn => phase' \in {"read", "threw"})
          /\ phase' # "uncalled"
      BY <1>2, <1>6 DEF ClearRow, PutRowThrows, Throw, walkVars
    <2>2. ASSUME cascade, Cloning, ~rootTurn'
          PROVE  Done(Self)'
      <3>1. Done(Self) /\ dst'[Self] \in {dst[Self], "copy"} /\ Self \in Items
        BY <1>1, <1>2, <1>3, <2>1, <2>2, RowFacts DEF RootInv
      <3> QED
        BY <1>1, <1>4, <3>1, DoneStays
    <2> HIDE DEF Cloning, RowByRow, Complete
    <2> QED
      BY <1>1, <1>3, <1>4, <1>5, <2>1, <2>2 DEF RootInv
  <1>7. CASE PutRow(i) \/ RowFails(i)
    <2>1. rootTurn' = FALSE
      BY <1>7 DEF PutRow, RowFails, Counted
    <2>2. ASSUME cascade, Cloning
          PROVE  Done(Self)'
      <3>1. CASE i = Self /\ PutRow(i)
        BY <3>1, PutDone
      <3>2. CASE i = Self /\ RowFails(i)
        BY <3>2 DEF RowFails, Done
      <3>3. CASE i # Self
        <4>1. Done(Self) /\ dst'[Self] = dst[Self] /\ Self \in Items
          BY <1>1, <1>2, <2>2, <3>3, RowFacts DEF RootInv
        <4> QED
          BY <1>1, <1>4, <4>1, DoneStays
      <3> QED
        BY <1>7, <3>1, <3>2, <3>3
    <2> HIDE DEF Cloning, RowByRow, Complete
    <2> QED
      BY <1>1, <1>3, <1>4, <1>5, <2>1, <2>2 DEF RootInv
  <1> QED
    BY <1>6, <1>7

LEMMA RootStep ==
    ASSUME TypeOK, LoopInv, RootInv, WalkInv, [Next]_vars
    PROVE  RootInv'
  <1>0. /\ op' = op /\ cascade' = cascade /\ src' \subseteq src
        /\ op # "cloneWithOverwrite" => \A i \in Items : dst'[i] \in {dst[i], "copy"}
    BY Frame
  <1>1. CASE Call
    <2>1. PICK from \in 0..Last :
            CallFrom(from) /\ (from # 0 => ~rootTurn /\ phase # "uncalled")
      BY <1>1 DEF Call, FirstCall, Resume, RootInv, TypeOK, WalkTypeOK
    <2> QED
      BY <1>1, <2>1, RootCall DEF Call
  <1>2. CASE CallAgain \/ CallNeedlessly
    <2>1. CallFrom(token) /\ token \in 0..Last /\ phase # "uncalled" /\ Start
      BY <1>2 DEF CallAgain, Repeat, CallNeedlessly, RepeatReturned, TypeOK, WalkTypeOK
    <2> QED
      BY <2>1, RootCall DEF RootInv
  <1>3. CASE Read
    <2>1. ~rootTurn /\ phase = "read" /\ phase' = "page"
          /\ UNCHANGED <<token, rootTurn, failed, opVars, tableVars>>
      BY <1>3 DEF Read, ReadPage, ReadLastPage, ReadFullPage, Untouched
    <2> QED
      BY <2>1, RowFacts, RootQuiet DEF opVars, tableVars, Complete
  <1>4. CASE EndPage
    <2>1. ~rootTurn /\ phase = "page" /\ phase' \in {"read", "returned"}
          /\ UNCHANGED <<token, rootTurn, failed, opVars, tableVars>>
      BY <1>4 DEF EndPage, PageHandled, Finish, StopAtBudget, StopWithoutCursor, NextPage,
                  Untouched
    <2>2. cascade /\ op = "delete" => ~Complete'
      BY <1>4, <2>1
         DEF EndPage, PageHandled, Exhausted, StopAtBudget, NextPage, Cursor, Complete, WalkInv,
             MergesRoot, Cloning, RowByRow, Conditional
    <2> QED
      BY <2>1, <2>2, RowFacts, RootQuiet DEF opVars, tableVars
  <1>5. CASE Crash
    <2>1. phase' = "threw" /\ phase \in {"read", "page"}
          /\ UNCHANGED <<token, rootTurn, failed, opVars, tableVars>>
      BY <1>5 DEF Crash, Throw, Untouched
    <2> QED
      BY <2>1, RowFacts, RootQuiet DEF opVars, tableVars, Complete
  <1>6. CASE NextSlice \/ PassOver
    <2>1. phase = "page" /\ phase' = "page"
          /\ UNCHANGED <<token, rootTurn, failed, opVars, tableVars>>
      BY <1>6 DEF NextSlice, PassOver, Untouched
    <2> QED
      BY <2>1, RowFacts, RootQuiet DEF opVars, tableVars, Complete, RootInv
  <1>7. CASE Answer
    <2>1. PICK done \in SUBSET unsent : Deliver(done) /\ Effect(done)
      BY <1>7 DEF Answer
    <2>2. phase = "page" /\ ~RowByRow
      BY <2>1 DEF Deliver, LoopInv, TypeOK, WalkTypeOK
    <2>3. phase' \in {"page", "threw"} /\ UNCHANGED <<token, rootTurn, failed>>
      BY <1>7, <2>2 DEF Answer
    <2>4. dst'[Self] \in {dst[Self], "copy"}
      BY <1>0, <2>2, RowFacts DEF RowByRow
    <2> QED
      BY <1>0, <2>2, <2>3, <2>4, RootQuiet DEF Complete, RootInv
  <1>8. CASE Error
    <2>1. PICK done \in SUBSET unsent : Raise(done) /\ Effect(done)
      BY <1>8 DEF Error
    <2>2. phase = "page" /\ ~RowByRow
      BY <2>1 DEF Raise, LoopInv, TypeOK, WalkTypeOK
    <2>3. phase' = "threw" /\ UNCHANGED <<token, rootTurn, failed>>
      BY <1>8 DEF Error
    <2>4. dst'[Self] \in {dst[Self], "copy"}
      BY <1>0, <2>2, RowFacts DEF RowByRow
    <2> QED
      BY <1>0, <2>2, <2>3, <2>4, RootQuiet DEF Complete
  <1>9. CASE Pause
    <2>1. phase = "page" /\ UNCHANGED <<phase, cursor, token, rootTurn, failed, opVars, tableVars>>
      BY <1>9 DEF Pause, Wake, Untouched, walkVars, LoopInv, TypeOK, WalkTypeOK
    <2> QED
      BY <2>1, RowFacts, RootQuiet DEF opVars, tableVars, Complete, RootInv
  <1>10. CASE NoRoot
    <2>1. /\ Self \notin src \cap Kept /\ rootTurn' = FALSE /\ Cloning /\ phase = "read"
          /\ UNCHANGED <<phase, token, cursor, failed, opVars, tableVars>>
      BY <1>10 DEF NoRoot, Untouched, walkVars
    <2>2. Done(Self)'
      BY <2>1, RowFacts
         DEF Kept, Cloning, RowByRow, Conditional, Done, Handled, opVars, tableVars
    <2> QED
      BY <2>1, <2>2 DEF RootInv, Complete, Cloning, RowByRow, Conditional, opVars
  <1>11. CASE DeleteRoot
    <2>1. /\ op = "delete" /\ ~Cloning /\ cascade
          /\ phase' = "returned" /\ ~rootTurn /\ rootTurn' = rootTurn
      BY <1>11 DEF DeleteRoot, RootInv, Cloning, RowByRow, Conditional
    <2>2. Self \notin src' \/ Self \in failed'
      BY <1>11 DEF DeleteRoot
    <2>3. Done(Self)'
      BY <1>0, <2>1, <2>2 DEF Done, Handled
    <2>4. failed' \subseteq failed \cup {Self}
      BY <1>11 DEF DeleteRoot
    <2> QED
      BY <1>0, <2>1, <2>3, <2>4, RowFacts DEF RootInv, Cloning, RowByRow, Conditional
  <1>12. CASE \E i \in Items : ClearRow(i) \/ PutRow(i) \/ RowFails(i) \/ PutRowThrows(i)
    BY <1>12, RootRow
  <1>13. CASE UNCHANGED vars
    BY <1>13 DEF vars, opVars, tableVars, walkVars, RootInv, Complete, Cloning, RowByRow,
                 Conditional, Done, Handled
  <1> QED
    BY <1>1, <1>2, <1>3, <1>4, <1>5, <1>6, <1>7, <1>8, <1>9, <1>10, <1>11, <1>12, <1>13 DEF Next

-----------------------------------------------------------------------------
(***************************************************************************)
(* What the walk has been past.                                            *)
(***************************************************************************)

LEMMA RowsStay ==
    ASSUME TypeOK, op' = op, src' \subseteq src, failed \subseteq failed',
           \A i \in Rows : dst'[i] \in {dst[i], "copy"}
    PROVE  \A i \in Rows : Done(i) => Done(i)'
  BY RowFacts, DoneStays

LEMMA WalkCall ==
    ASSUME TypeOK, NEW from \in 0..Last, CallFrom(from), Start,
           \A i \in Rows : i <= from => Done(i)
    PROVE  WalkInv'
  <1>1. /\ phase' = "read" /\ token' = from /\ startKey' = from /\ op' = op
        /\ src' = src /\ dst' = dst
        /\ failed' = IF from = 0 THEN {} ELSE {i \in failed : i <= from}
    BY DEF CallFrom, StartAt, Start, Untouched, opVars, tableVars
  <1>2. \A i \in Rows : i <= from => Done(i)'
    <2> TAKE i \in Rows
    <2> HAVE i <= from
    <2>1. Done(i) /\ i \in Items /\ from # 0
      BY RowFacts
    <2> QED
      BY <1>1, <2>1, DoneStays
  <1> QED
    BY <1>1, <1>2 DEF WalkInv

LEMMA WalkRead ==
    ASSUME TypeOK, LoopInv, WalkInv, Read
    PROVE  WalkInv'
  <1>1. /\ phase = "read" /\ phase' = "page" /\ UNCHANGED <<token, op, src, dst, failed, loop>>
    BY DEF Read, ReadPage, ReadLastPage, ReadFullPage, Untouched, opVars, tableVars
  <1>2. \A i \in Rows : i \notin src => Done(i)
    BY DEF Done, Handled, TypeOK, Ops
  <1>3. \A i \in Rows : Done(i) => Done(i)'
    BY <1>1, RowsStay
  <1>4. token \in Nat /\ startKey \in Nat /\ token <= startKey
    BY <1>1 DEF WalkInv, TypeOK, WalkTypeOK
  <1>5. CASE ReadLastPage(src \cap Rows)
    <2>1. page' = {i \in src \cap Rows : i > startKey} /\ more' = FALSE /\ startKey' = startKey
      BY <1>5 DEF ReadLastPage, After
    <2>2. \A i \in Rows \ page' : Done(i)
      BY <1>1, <1>2, <1>4, <2>1 DEF WalkInv, Rows
    <2>3. \A i \in page' : i > token
      BY <1>4, <2>1 DEF Rows
    <2> QED
      BY <1>1, <1>3, <1>4, <2>1, <2>2, <2>3 DEF WalkInv
  <1>6. CASE ReadFullPage(src \cap Rows)
    <2>1. PICK end \in src \cap Rows : /\ end > startKey /\ startKey' = end /\ more' = TRUE
                                       /\ page' = {i \in src \cap Rows : i > startKey /\ i <= end}
      BY <1>6 DEF ReadFullPage, After
    <2>2. \A i \in Rows \ page' : i <= end => Done(i)
      BY <1>1, <1>2, <1>4, <2>1 DEF WalkInv, Rows
    <2>3. \A i \in page' : i > token
      BY <1>4, <2>1 DEF Rows
    <2>4. token <= startKey' /\ startKey' # 0
      BY <1>4, <2>1 DEF Rows
    <2> QED
      BY <1>1, <1>3, <2>1, <2>2, <2>3, <2>4 DEF WalkInv
  <1> QED
    BY <1>5, <1>6 DEF Read, ReadPage

\* Steps within a page: no row comes to it, and one that leaves it is done with
\* or about to be.
LEMMA WalkPage ==
    ASSUME WalkInv, phase = "page", phase' = "page", UNCHANGED <<startKey, more, token>>,
           page' \subseteq page, \A i \in Rows : Done(i) => Done(i)',
           \A i \in Rows : Pending(i) => Done(i)' \/ Pending(i)',
           \A i \in page \ page' : Done(i)' \/ Pending(i)'
    PROVE  WalkInv'
  <1>1. \A i \in Rows \ page' : (more => i <= startKey) => Done(i)' \/ Pending(i)'
    BY DEF WalkInv
  <1> HIDE DEF Done, Pending
  <1> QED
    BY <1>1 DEF WalkInv

\* Steps that leave the call.
LEMMA WalkThrow ==
    ASSUME WalkInv, phase' = "threw", token' = token, \A i \in Rows : Done(i) => Done(i)'
    PROVE  WalkInv'
  BY DEF WalkInv

LEMMA WalkEndPage ==
    ASSUME TypeOK, LoopInv, WalkInv, EndPage
    PROVE  WalkInv'
  <1>1. /\ status = "idle" /\ phase = "page" /\ page = {}
        /\ UNCHANGED <<token, startKey, more, op, src, dst, failed>>
    BY DEF EndPage, Finish, StopAtBudget, StopWithoutCursor, NextPage, PageHandled, Untouched,
           opVars, tableVars
  <1>2. \A i \in Rows : (more => i <= startKey) => Done(i)
    BY <1>1 DEF WalkInv, Pending
  <1>3. \A i \in Rows : Done(i) => Done(i)'
    BY <1>1, RowsStay
  <1>4. CASE Finish
    BY <1>1, <1>2, <1>3, <1>4 DEF Finish, Exhausted, WalkInv
  <1>5. CASE StopAtBudget
    <2>1. more /\ cursor' = startKey /\ phase' = "returned" /\ startKey # 0
      BY <1>1, <1>5 DEF StopAtBudget, Exhausted, Cursor, WalkInv
    <2> QED
      BY <1>1, <1>2, <1>3, <2>1 DEF WalkInv
  <1>6. CASE NextPage
    <2>1. more /\ phase' = "read" /\ token <= startKey
      BY <1>1, <1>6 DEF NextPage, Exhausted, WalkInv
    <2> QED
      BY <1>1, <1>2, <1>3, <2>1 DEF WalkInv
  <1>7. CASE MergesRoot /\ StopWithoutCursor
    <2>1. more /\ cursor' = 0 /\ phase' = "returned" /\ MergesRoot' /\ OverBudget'
      <3>1. UNCHANGED <<op, cascade, token, counted>>
        BY <1>7 DEF EndPage, StopWithoutCursor, Finish, StopAtBudget, NextPage, Untouched, opVars
      <3> QED
        BY <1>7, <3>1 DEF StopWithoutCursor, Exhausted, OverBudget, MergesRoot, Cloning, RowByRow,
                          Conditional
    <2> QED
      BY <1>1, <1>2, <1>3, <2>1 DEF WalkInv
  <1> QED
    BY <1>4, <1>5, <1>6, <1>7 DEF EndPage

LEMMA WalkRow ==
    ASSUME TypeOK, LoopInv, RootInv, WalkInv, NEW i \in Items,
           ClearRow(i) \/ PutRow(i) \/ RowFails(i) \/ PutRowThrows(i)
    PROVE  WalkInv'
  <1>1. /\ op' = op /\ src' = src /\ Turn(i) /\ failed \subseteq failed'
        /\ \A j \in Items : j # i => dst'[j] = dst[j]
        /\ UNCHANGED <<startKey, more, token, loop>>
    BY RowFrame DEF ClearRow, PutRow, RowFails, PutRowThrows, Counted, Throw, walkVars
  <1>2. \/ i = Self /\ phase = "read"
        \/ i \in page /\ i \in Rows /\ phase = "page" /\ RowByRow
    BY <1>1, TurnFacts
  <1>3. \A j \in Rows : j # i /\ Done(j) => Done(j)'
    BY <1>1, RowFacts, DoneStays
  <1>4. \A j \in Rows : j <= token => Done(j)'
    <2>1. i \in Rows => i > token
      BY <1>2, RowFacts DEF WalkInv
    <2>2. \A j \in Rows : j <= token => j # i
      BY <2>1 DEF Rows, TypeOK, WalkTypeOK
    <2> QED
      BY <1>3, <2>2 DEF WalkInv
  <1>5. CASE i = Self
    <2>1. phase' \in {"read", "threw"} /\ \A j \in Rows : j # i
      BY <1>2, <1>5, RowFacts
         DEF ClearRow, PutRow, RowFails, PutRowThrows, Counted, Throw, walkVars
    <2> QED
      BY <1>1, <1>2, <1>3, <1>4, <1>5, <2>1, RowFacts DEF WalkInv
  <1>6. CASE i # Self
    <2>1. i \in page /\ i \in Rows /\ phase = "page" /\ RowByRow
      BY <1>2, <1>6
    <2>2. \A j \in Rows : ~Pending(j)
      BY <2>1 DEF Pending, LoopInv
    <2>3. CASE PutRowThrows(i)
      BY <1>1, <1>4, <2>3 DEF PutRowThrows, Throw, WalkInv
    <2>4. CASE ClearRow(i)
      <3>1. page' = page /\ phase' = "page"
        BY <2>1, <2>4 DEF ClearRow, walkVars
      <3>2. \A j \in Rows \ page' : (more => j <= startKey) => Done(j)'
        BY <1>3, <2>1, <2>2, <3>1 DEF WalkInv
      <3> QED
        BY <1>1, <1>4, <2>1, <3>1, <3>2 DEF WalkInv
    <2>5. CASE PutRow(i) \/ RowFails(i)
      <3>1. page' = page \ {i} /\ phase' = "page"
        BY <2>1, <2>5 DEF PutRow, RowFails, Counted
      <3>2. Done(i)'
        BY <2>5, PutDone DEF RowFails, Done
      <3>3. \A j \in Rows \ page' : (more => j <= startKey) => Done(j)'
        BY <1>3, <2>1, <2>2, <3>1, <3>2 DEF WalkInv
      <3> QED
        BY <1>1, <1>4, <2>1, <3>1, <3>3 DEF WalkInv
    <2> QED
      BY <2>3, <2>4, <2>5
  <1> QED
    BY <1>5, <1>6

LEMMA WalkStep ==
    ASSUME IInv, [Next]_vars
    PROVE  WalkInv'
  <1> USE DEF IInv
  <1>0. /\ op' = op /\ cascade' = cascade /\ src' \subseteq src
        /\ op # "cloneWithOverwrite" => \A i \in Items : dst'[i] \in {dst[i], "copy"}
    BY Frame
  <1>1. CASE Call
    <2>1. PICK from \in 0..Last : CallFrom(from) /\ \A i \in Rows : i <= from => Done(i)
      BY <1>1 DEF Call, FirstCall, Resume, WalkInv, TypeOK, WalkTypeOK, Rows
    <2> QED
      BY <1>1, <2>1, WalkCall DEF Call
  <1>2. CASE CallAgain \/ CallNeedlessly
    <2>1. CallFrom(token) /\ token \in 0..Last /\ Start
      BY <1>2 DEF CallAgain, Repeat, CallNeedlessly, RepeatReturned, TypeOK, WalkTypeOK
    <2> QED
      BY <2>1, WalkCall DEF WalkInv
  <1>3. CASE Read
    BY <1>3, WalkRead
  <1>4. CASE EndPage
    BY <1>4, WalkEndPage
  <1>5. CASE Crash
    <2>1. phase' = "threw" /\ token' = token /\ UNCHANGED <<op, src, dst, failed>>
      BY <1>5 DEF Crash, Throw, Untouched, opVars, tableVars
    <2>2. \A i \in Rows : Done(i) => Done(i)'
      BY <2>1, RowsStay
    <2> QED
      BY <2>1, <2>2, WalkThrow
  <1>6. CASE NextSlice
    <2>1. /\ phase = "page" /\ phase' = "page" /\ status = "idle" /\ ~RowByRow
          /\ page' = page \ Slice
          /\ UNCHANGED <<startKey, more, token, op, src, dst, failed>>
      BY <1>6 DEF NextSlice, Untouched, opVars, tableVars
    <2>2. \A i \in Rows : Done(i) => Done(i)'
      BY <2>1, RowsStay
    <2>3. op \in {"move", "clone", "delete"} /\ Slice \subseteq Rows
      BY <2>1, SliceFacts
    <2>4. ASSUME NEW i \in Slice
          PROVE  Done(i)' \/ Pending(i)'
      <3>1. CASE i \notin Kept
        <4>1. i \in Dropped /\ op # "delete" /\ i \in Rows
          BY <2>3, <3>1, RowFacts DEF Kept
        <4> QED
          BY <2>1, <2>2, <2>3, <4>1 DEF Done, Handled
      <3>2. CASE i \in Kept
        <4> DEFINE last == IF op = "clone" THEN "put" ELSE "delete"
        <4>1. last \in Legs /\ <<last, i>> \in Requests(Slice)
          BY <2>1, <3>2, SliceFacts
        <4>2. Load(Requests(Slice))
          BY <1>6, <4>1 DEF NextSlice
        <4>3. status' = "send" /\ unsent' = Requests(Slice)
          BY <4>2 DEF Load
        <4> HIDE DEF Slice, Requests
        <4> QED
          BY <2>1, <4>1, <4>3 DEF Pending
      <3> QED
        BY <3>1, <3>2
    <2>5. \A i \in Rows : ~Pending(i)
      BY <2>1 DEF Pending
    <2> HIDE DEF IInv
    <2> QED
      BY <2>1, <2>2, <2>4, <2>5, WalkPage DEF IInv
  <1>7. CASE Answer
    <2>1. PICK done \in SUBSET unsent :
            /\ Deliver(done) /\ Effect(done)
            /\ BatchDone(done) => phase' = phase
            /\ ~BatchDone(done) => phase' = IF status' = "failed" THEN "threw" ELSE phase
            /\ UNCHANGED <<startKey, more, page, token, failed>>
      BY <1>7 DEF Answer
    <2>2. status = "send" /\ phase = "page" /\ ~RowByRow /\ op # "cloneWithOverwrite"
      BY <2>1 DEF Deliver, LoopInv, TypeOK, WalkTypeOK, RowByRow
    <2>3. \A i \in Rows : Done(i) => Done(i)'
      BY <1>0, <2>1, <2>2, RowsStay, RowFacts
    <2>4. CASE phase' = "threw"
      BY <2>1, <2>3, <2>4, WalkThrow
    <2>5. CASE phase' # "threw"
      <3>1. phase' = "page" /\ unsent' = unsent \ done
            /\ (BatchDone(done) \/ status' = "wait")
        BY <2>1, <2>2, <2>5, DeliverFacts DEF TypeOK
      <3>2. ASSUME NEW i \in Rows, Pending(i)
            PROVE  Done(i)' \/ Pending(i)'
        <4> DEFINE last == <<IF op = "clone" THEN "put" ELSE "delete", i>>
        <4>1. last \in unsent
          BY <3>2 DEF Pending
        <4>2. CASE last \in done
          <5>1. op \in {"move", "clone", "delete"}
            BY <2>2 DEF RowByRow, Conditional, TypeOK, Ops
          <5>2. IF op = "clone" THEN dst'[i] = "copy" ELSE i \notin src'
            BY <2>1, <4>2, RowFacts DEF Effect
          <5> QED
            BY <1>0, <5>1, <5>2 DEF Done, Handled
        <4>3. CASE last \notin done
          <5>1. status' = "wait" /\ last \in unsent'
            BY <3>1, <4>1, <4>3 DEF BatchDone
          <5> QED
            BY <1>0, <5>1 DEF Pending
        <4> QED
          BY <4>2, <4>3
      <3> QED
        BY <2>1, <2>2, <2>3, <3>1, <3>2, WalkPage
    <2> QED
      BY <2>4, <2>5
  <1>8. CASE Error
    <2>1. PICK done \in SUBSET unsent : Raise(done) /\ Effect(done)
      BY <1>8 DEF Error
    <2>2. /\ op # "cloneWithOverwrite" /\ phase' = "threw" /\ UNCHANGED <<token, failed>>
      BY <1>8, <2>1 DEF Error, Raise, LoopInv, RowByRow
    <2>3. \A i \in Rows : Done(i) => Done(i)'
      BY <1>0, <2>2, RowsStay, RowFacts
    <2> QED
      BY <2>2, <2>3, WalkThrow
  <1>9. CASE Pause
    <2>1. /\ status = "wait" /\ status' = "send" /\ phase = "page"
          /\ UNCHANGED <<unsent, phase, startKey, more, page, token, op, src, dst, failed>>
      BY <1>9 DEF Pause, Wake, Untouched, walkVars, opVars, tableVars, LoopInv, TypeOK, WalkTypeOK
    <2>2. \A i \in Rows : Done(i) => Done(i)'
      BY <2>1, RowsStay
    <2>3. \A i \in Rows : Pending(i) => Pending(i)'
      BY <2>1 DEF Pending
    <2> QED
      BY <2>1, <2>2, <2>3, WalkPage
  <1>10. CASE PassOver
    <2>1. /\ phase = "page" /\ phase' = "page" /\ RowByRow /\ page \cap Kept = {} /\ page' = {}
          /\ UNCHANGED <<startKey, more, token, op, src, dst, failed, loop>>
      BY <1>10 DEF PassOver, Untouched, opVars, tableVars
    <2>2. \A i \in Rows : Done(i) => Done(i)'
      BY <2>1, RowsStay
    <2>3. \A i \in Rows : ~Pending(i)
      BY <2>1 DEF Pending, LoopInv
    <2>4. \A i \in page : i \in Rows /\ Done(i)
      BY <2>1, RowFacts
         DEF Kept, RowByRow, Conditional, Done, Handled, TypeOK, WalkTypeOK
    <2> QED
      BY <2>1, <2>2, <2>3, <2>4, WalkPage
  <1>11. CASE NoRoot
    <2>1. /\ phase = "read" /\ phase' = "read"
          /\ UNCHANGED <<startKey, token, op, src, dst, failed>>
      BY <1>11 DEF NoRoot, Untouched, opVars, tableVars, walkVars
    <2>2. \A i \in Rows : Done(i) => Done(i)'
      BY <2>1, RowsStay
    <2> QED
      BY <2>1, <2>2 DEF WalkInv
  <1>12. CASE DeleteRoot
    <2>1. /\ status = "idle" /\ phase = "page" /\ page = {} /\ ~more /\ phase' = "returned"
          /\ UNCHANGED <<more, token, cursor, dst>> /\ failed \subseteq failed'
      BY <1>12 DEF DeleteRoot, PageHandled, WalkDone, Exhausted
    <2>2. \A i \in Rows : Done(i)
      BY <2>1 DEF WalkInv, Pending
    <2>3. \A i \in Rows : Done(i) => Done(i)'
      BY <1>0, <2>1, RowsStay
    <2> QED
      BY <2>1, <2>2, <2>3 DEF WalkInv
  <1>13. CASE \E i \in Items : ClearRow(i) \/ PutRow(i) \/ RowFails(i) \/ PutRowThrows(i)
    BY <1>13, WalkRow
  <1>14. CASE UNCHANGED vars
    BY <1>14 DEF vars, opVars, tableVars, walkVars, loop, WalkInv, Pending, Done, Handled,
                 MergesRoot, Cloning, RowByRow, Conditional, OverBudget
  <1> QED
    BY <1>1, <1>2, <1>3, <1>4, <1>5, <1>6, <1>7, <1>8, <1>9, <1>10, <1>11, <1>12, <1>13, <1>14
       DEF Next

-----------------------------------------------------------------------------
(***************************************************************************)
(* The theorems.                                                           *)
(***************************************************************************)

LEMMA StepInv == IInv /\ [Next]_vars => IInv'
  BY TypeStep, LoopStep, SparedStep, RootStep, WalkStep DEF IInv

LEMMA Invariant == Spec => []IInv
  BY InitInv, StepInv, PTL DEF Spec

\* The state of a walk, its batch and the table keeps its shape.
THEOREM TypeCorrect == Spec => []TypeOK
  <1>1. IInv => TypeOK
    BY DEF IInv
  <1> QED
    BY <1>1, Invariant, PTL

\* A call that returns without a cursor has handled or reported every row, through
\* whatever partial batches, throws, crashes and resumptions (run-paged.js:50-59),
\* unless it is the first of a subtree clone and came to maxItems; then it has handled
\* those up to the end of its last page (adapter.js:1784).
THEOREM FinishedIsComplete == Spec => []FinishedHandledAll
  <1>1. IInv => FinishedHandledAll
    <2> SUFFICES ASSUME IInv, Complete, NEW i \in Scope
                 PROVE  Unreached(i) \/ Done(i)
      BY DEF FinishedHandledAll, Done
    <2>1. CASE i \in Rows
      <3>1. /\ (more => i <= startKey) => Done(i)
            /\ more => MergesRoot /\ OverBudget
        BY <2>1 DEF IInv, WalkInv, Complete
      <3>2. startKey \in Int /\ i \in Int
        BY <2>1 DEF IInv, TypeOK, WalkTypeOK, Rows
      <3> QED
        BY <3>1, <3>2 DEF Unreached, CutShort
    <2>2. CASE i \notin Rows
      <3>1. cascade /\ i = Self
        BY <2>2, RowFacts DEF Scope
      <3>2. ~rootTurn /\ phase # "uncalled" /\ op # "cloneWithOverwrite" /\ op # "move"
        BY <3>1 DEF IInv, RootInv, Complete
      <3>3. Cloning \/ op = "delete"
        BY <3>2 DEF IInv, TypeOK, Ops, Cloning, RowByRow, Conditional
      <3> QED
        BY <3>1, <3>2, <3>3 DEF IInv, RootInv
    <2> QED
      BY <2>1, <2>2
  <1> QED
    BY <1>1, Invariant, PTL

\* What mapFn drops, and what a condition rules out, is never touched
\* (adapter.js:2113, 2181-2182).
THEOREM SparedAreUntouched == Spec => []SparedStay
  <1>1. IInv => SparedStay
    BY DEF IInv
  <1> QED
    BY <1>1, Invariant, PTL

\* A move loses a row only in a step that throws (adapter.js:2196).
THEOREM LossIsReported == Spec => LostOnlyByThrow
  <1>1. ASSUME IInv, Next, op = "move", NEW i \in Rows, ~Lost(i), Lost(i)'
        PROVE  phase' = "threw"
    <2>1. i \in Items /\ op' = op /\ dst'[i] \in {dst[i], "copy"} /\ src' \subseteq src
      BY <1>1, Frame, RowFacts DEF IInv
    <2>2. dst[i] # "copy" /\ dst'[i] = dst[i]
      BY <2>1, <1>1 DEF Lost
    <2>3. i \in src \/ (status \in {"send", "wait"} /\ <<"put", i>> \in unsent)
      BY <1>1, <2>2 DEF Lost
    <2>4. CASE Answer
      <3>1. PICK done \in SUBSET unsent :
              /\ Deliver(done) /\ Effect(done)
              /\ ~BatchDone(done) => phase' = IF status' = "failed" THEN "threw" ELSE phase
        BY <2>4 DEF Answer
      <3>2. status = "send" /\ unsent' = unsent \ done /\ status' \in {"idle", "wait", "failed"}
            /\ (status' = "idle" => BatchDone(done))
        <4>1. status = "send"
          BY <3>1 DEF Deliver
        <4> QED
          BY <1>1, <3>1, <4>1, DeliverFacts DEF IInv, TypeOK
      <3>3. <<"put", i>> \notin done
        BY <2>1, <2>2, <3>1 DEF Effect, IInv, TypeOK
      <3>4. <<"put", i>> \in unsent
        <4>1. CASE <<"delete", i>> \in done
          BY <1>1, <2>2, <4>1 DEF IInv, LoopInv
        <4>2. CASE <<"delete", i>> \notin done
          BY <1>1, <2>3, <3>1, <4>2 DEF Effect, Lost
        <4> QED
          BY <4>1, <4>2
      <3>5. ~BatchDone(done) /\ <<"put", i>> \in unsent'
        BY <3>2, <3>3, <3>4 DEF BatchDone
      <3>6. status' = "failed"
        BY <1>1, <3>2, <3>5 DEF Lost
      <3> QED
        BY <3>1, <3>5, <3>6
    <2>5. CASE Error
      BY <2>5 DEF Error
    <2>6. CASE DeleteRoot
      BY <1>1, <2>6 DEF DeleteRoot
    <2>7. ASSUME src' = src,
                 \/ UNCHANGED loop
                 \/ status \notin {"send", "wait"}
                 \/ status' = "send" /\ unsent' = unsent
          PROVE  FALSE
      BY <1>1, <2>2, <2>3, <2>7 DEF Lost, loop
    <2>8. CASE Call \/ CallNeedlessly \/ Read \/ EndPage \/ Crash \/ PassOver \/ NoRoot
      BY <2>7, <2>8 DEF Call, CallNeedlessly, Start, Read, EndPage, Crash, PassOver, NoRoot,
                        Untouched, tableVars
    <2>9. CASE CallAgain
      <3>1. src' = src /\ status \notin {"send", "wait"}
        BY <1>1, <2>9 DEF CallAgain, Start, Repeat, Untouched, tableVars, IInv, LoopInv
      <3> QED
        BY <2>7, <3>1
    <2>10. CASE NextSlice
      <3>1. src' = src /\ status = "idle"
        BY <2>10 DEF NextSlice, Untouched, tableVars
      <3> QED
        BY <2>7, <3>1
    <2>11. CASE Pause
      <3>1. src' = src /\ status' = "send" /\ unsent' = unsent
        BY <2>11 DEF Pause, Wake, Untouched, tableVars
      <3> QED
        BY <2>7, <3>1
    <2>12. CASE \E j \in Items : ClearRow(j) \/ PutRow(j) \/ RowFails(j) \/ PutRowThrows(j)
      <3>1. PICK j \in Items : ClearRow(j) \/ PutRow(j) \/ RowFails(j) \/ PutRowThrows(j)
        BY <2>12
      <3>2. src' = src /\ UNCHANGED loop
        BY <1>1, <3>1, RowFrame DEF IInv, ClearRow, PutRow, RowFails, PutRowThrows, Counted
      <3> QED
        BY <2>7, <3>2
    <2> QED
      BY <1>1, <2>4, <2>5, <2>6, <2>8, <2>9, <2>10, <2>11, <2>12 DEF Next
  <1>2. IInv /\ [Next]_vars =>
          [op = "move" => \A i \in Rows : ~Lost(i) /\ Lost(i)' => phase' = "threw"]_vars
    BY <1>1
  <1> QED
    BY <1>2, Invariant, PTL DEF Spec, LostOnlyByThrow

\* The root of a subtree is copied ahead of its descendants and deleted behind
\* them (adapter.js:1743-1749, 1773-1778).
THEOREM RootKeepsItsPlace == Spec => RootInOrder
  <1> DEFINE Ahead == Cloning /\ dst' # dst /\ dst'[Self] = dst[Self]
                        => Handled(Self) \/ Self \in failed
             Behind == Self \in src /\ Self \notin src' => src \cap Rows = {}
  <1>1. ASSUME IInv, Next, cascade
        PROVE  Ahead
    <2> SUFFICES ASSUME Cloning, dst' # dst, dst'[Self] = dst[Self]
                 PROVE  Done(Self)
      BY DEF Done
    <2>1. CASE phase = "page"
      BY <1>1, <2>1 DEF IInv, RootInv
    <2>2. CASE phase # "page"
      <3>1. status \notin {"send", "wait"}
        BY <1>1, <2>2 DEF IInv, LoopInv, TypeOK, WalkTypeOK
      <3>2. ~Answer /\ ~Error /\ ~DeleteRoot
        BY <2>2, <3>1 DEF Answer, Error, Deliver, Raise, DeleteRoot, PageHandled
      <3>3. PICK i \in Items : ClearRow(i) \/ PutRow(i) \/ RowFails(i) \/ PutRowThrows(i)
        BY <1>1, <3>2 DEF Next, Call, CallAgain, CallNeedlessly, Start, Read, EndPage, Crash,
                          NextSlice, Pause, PassOver, NoRoot, Untouched, tableVars
      <3>4. i = Self
        BY <1>1, <2>2, <3>3, RowFrame, TurnFacts DEF IInv
      <3>5. dst' = [dst EXCEPT ![Self] = dst'[Self]]
        BY <3>3, <3>4 DEF ClearRow, PutRow, RowFails, PutRowThrows, Write, Untouched, tableVars,
                          IInv, TypeOK
      <3> QED
        BY <1>1, <3>5 DEF IInv, TypeOK
    <2> QED
      BY <2>1, <2>2
  <1>2. ASSUME IInv, Next, cascade
        PROVE  Behind
    <2> SUFFICES ASSUME Self \in src, Self \notin src'
                 PROVE  src \cap Rows = {}
      OBVIOUS
    <2>1. DeleteRoot
      <3>1. \A done : Effect(done) => Self \in src'
        BY RowFacts DEF Effect
      <3>2. \A i \in Items :
              ClearRow(i) \/ PutRow(i) \/ RowFails(i) \/ PutRowThrows(i) => src' = src
        BY <1>2, RowFrame DEF IInv
      <3> QED
        BY <1>2, <3>1, <3>2 DEF Next, Call, CallAgain, CallNeedlessly, Start, Read, EndPage, Crash,
                          NextSlice, Answer, Error, Pause, PassOver, NoRoot, Untouched, tableVars
    <2>2. op = "delete" /\ status = "idle" /\ phase = "page" /\ page = {} /\ ~more
      BY <2>1 DEF DeleteRoot, PageHandled, WalkDone, Exhausted
    <2>3. \A i \in Rows : Done(i)
      BY <1>2, <2>2 DEF IInv, WalkInv, Pending
    <2>4. failed \cap Rows = {}
      BY <1>2, <2>2 DEF IInv, RootInv, RowByRow, Conditional
    <2> QED
      BY <2>2, <2>3, <2>4 DEF Done, Handled
  <1>3. IInv /\ [Next]_vars => [cascade => Ahead /\ Behind]_vars
    BY <1>1, <1>2
  <1> QED
    BY <1>3, Invariant, PTL DEF Spec, RootInOrder
=============================================================================
