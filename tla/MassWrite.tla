------------------------------ MODULE MassWrite ------------------------------
(***************************************************************************)
(* moveListByParams, cloneListByParams and deleteListByParams              *)
(* (src/adapter/adapter.js), and cloneAllUnder and deleteAllUnder built on *)
(* the last two: a walk whose pages go to the table in batches of puts,    *)
(* deletes, or both.  A clone with ifNotExists or ifExists puts its rows   *)
(* one by one, under a condition; cloneWithOverwrite deletes what is at a  *)
(* row's destination before it puts the copy there.  cloneAllUnder copies  *)
(* the root of the subtree ahead of the walk, deleteAllUnder deletes it    *)
(* behind.  Every row has a destination of its own, outside the range.     *)
(***************************************************************************)
EXTENDS RunPaged

CONSTANTS
    MoveChunk,      \* MOVE_CHUNK
    BatchLimit,     \* BATCH_WRITE_LIMIT
    MaxAttempts,    \* MAX_ATTEMPTS of batchWrite
    Dropped,        \* rows for which mapFn returns a falsy value
    Taken,          \* rows whose destination holds another item
    MaxFaults       \* bound on faults and on repeated calls

Self == 0           \* the row at the root
Items == {Self} \cup Rows

\* The puts and the deletes of a slice fit into one request.
ASSUME MoveAssumption ==
    /\ MoveChunk \in Nat \ {0} /\ BatchLimit \in Nat /\ 2 * MoveChunk <= BatchLimit
    /\ MaxAttempts \in Nat \ {0}
    /\ Dropped \subseteq Items /\ Taken \subseteq Items
    /\ MaxFaults \in Nat

VARIABLES
    op,         \* the operation
    cascade,    \* it is one on a subtree, its root included
    src,        \* rows at the source
    dst,        \* what stands at each row's destination
    failed,     \* rows whose failure the walk has reported, up to its token
    rootTurn,   \* the root has its turn
    cleared,    \* the destination of the row whose turn it is was deleted
    faults,     \* faults and repeated calls so far
    unsent, attempts, status    \* of batchWrite

Writes == {"put", "delete"} \X Rows

INSTANCE BatchWrite

loop == <<unsent, attempts, status>>
tableVars == <<src, dst>>
opVars == <<op, cascade>>
vars == <<opVars, tableVars, failed, rootTurn, cleared, faults, walkVars, loop>>

Ops ==
    {"move", "clone", "cloneIfNotExists", "cloneIfExists", "cloneWithOverwrite", "delete"}

TypeOK ==
    /\ WalkTypeOK
    /\ BatchTypeOK
    /\ unsent \subseteq Writes
    /\ op \in Ops /\ cascade \in BOOLEAN
    /\ src \subseteq Items
    /\ dst \in [Items -> {"free", "other", "copy"}]
    /\ failed \subseteq Items
    /\ rootTurn \in BOOLEAN /\ cleared \in BOOLEAN
    /\ faults \in 0..MaxFaults

\* moveAllUnder walks otherwise (SubtreeRename), and there is no macro that
\* overwrites a subtree together with its root.
Init ==
    /\ WalkInit
    /\ BatchInit
    /\ op \in Ops
    /\ cascade \in BOOLEAN /\ (op \in {"move", "cloneWithOverwrite"} => ~cascade)
    /\ src \in {Items, Rows}
    /\ dst = [i \in Items |-> IF i \in Taken THEN "other" ELSE "free"]
    /\ failed = {}
    /\ rootTurn = FALSE /\ cleared = FALSE
    /\ faults = 0

Conditional == op \in {"cloneIfNotExists", "cloneIfExists"}

\* Operations that write their rows one by one.
RowByRow == Conditional \/ op = "cloneWithOverwrite"

Cloning == RowByRow \/ op = "clone"

\* The rows that mapFn lets through; a delete has no mapFn.
Kept == IF op = "delete" THEN Items ELSE Items \ Dropped

Fault == faults < MaxFaults /\ faults' = faults + 1

Untouched == UNCHANGED <<opVars, tableVars>>

-----------------------------------------------------------------------------
\* The calls, and the walk.

\* The root is copied by the call that starts the walk, one without a resumeToken.
RootFirst == cascade /\ Cloning /\ token' = 0

Start ==
    /\ rootTurn' = RootFirst /\ cleared' = FALSE
    /\ failed' = IF token' = 0 THEN {} ELSE {i \in failed : i <= token'}
    /\ Untouched

Call ==
    /\ FirstCall \/ Resume
    /\ Start
    /\ UNCHANGED <<faults, loop>>

\* The same params and resumeToken again, after a throw ...
CallAgain ==
    /\ Repeat
    /\ status' = "idle" /\ unsent' = {} /\ attempts' = 0
    /\ Start
    /\ UNCHANGED faults

\* ... and without need.
CallNeedlessly ==
    /\ RepeatReturned
    /\ Fault
    /\ Start
    /\ UNCHANGED loop

Read ==
    /\ ~rootTurn
    /\ ReadPage(src \cap Rows)
    /\ Untouched
    /\ UNCHANGED <<failed, rootTurn, cleared, faults, loop>>

\* Mutation: the root is deleted although the cap stopped the walk.
WalkDoneEarly == Exhausted \/ OverBudget

WalkDone == Exhausted

\* The call that copies the root returns its result and that of the walk as one.
MergesRoot == cascade /\ Cloning /\ token = 0

\* That one has no cursor: when the cap has stopped the walk, its caller has nothing
\* to go on with.
StopWithoutCursor ==
    /\ PageHandled
    /\ ~Exhausted
    /\ OverBudget
    /\ cursor' = 0
    /\ phase' = "returned"
    /\ UNCHANGED <<startKey, more, page, counted, token>>

EndPage ==
    /\ status = "idle"
    /\ ~rootTurn
    /\ \/ ~(cascade /\ op = "delete") /\ Finish
       \/ ~MergesRoot /\ StopAtBudget
       \/ MergesRoot /\ StopWithoutCursor
       \/ NextPage
    /\ Untouched
    /\ UNCHANGED <<failed, rootTurn, cleared, faults, loop>>

\* The process dies, or a read fails, between two writes.
Crash ==
    /\ status = "idle"
    /\ Throw
    /\ Fault
    /\ Untouched
    /\ UNCHANGED <<failed, rootTurn, cleared, loop>>

-----------------------------------------------------------------------------
\* Batches.

\* The first rows of the page that are left: a move cuts its slices before
\* mapFn sees them, applyBatch cuts what mapFn left.
Slice ==
    IF op = "move"
    THEN {i \in page : Cardinality({j \in page : j <= i}) <= MoveChunk}
    ELSE {i \in page : Cardinality({j \in page \cap Kept : j <= i}) <= BatchLimit}

Legs ==
    CASE op = "move" -> {"put", "delete"}
      [] op = "clone" -> {"put"}
      [] op = "delete" -> {"delete"}

\* Mutation: a dropped row keeps the delete leg.
RequestsUnpaired(rows) ==
    (Legs \X (rows \cap Kept)) \cup (IF op = "move" THEN {"delete"} \X rows ELSE {})

\* A falsy mapFn drops all legs of a row.
Requests(rows) == Legs \X (rows \cap Kept)

\* Cut a slice and send it; one that mapFn drops altogether is passed over.
\* Puts and deletes count alike, and are counted here already: nothing looks at
\* the count before the page is through, and a throw loses all of it.
NextSlice ==
    /\ phase = "page"
    /\ ~RowByRow
    /\ status = "idle"
    /\ page # {}
    /\ page' = page \ Slice
    /\ counted' = counted + Cardinality(Requests(Slice))
    /\ IF Requests(Slice) = {} THEN UNCHANGED loop ELSE Load(Requests(Slice))
    /\ Untouched
    /\ UNCHANGED <<phase, startKey, more, token, cursor, failed, rootTurn, cleared, faults>>

\* What the processed writes do to the table.
Effect(done) ==
    /\ src' = src \ {i \in Rows : <<"delete", i>> \in done}
    /\ dst' = [i \in Items |-> IF <<"put", i>> \in done THEN "copy" ELSE dst[i]]
    /\ UNCHANGED opVars

\* A response.
Answer ==
    \E done \in SUBSET unsent :
        /\ Deliver(done)
        /\ Effect(done)
        /\ IF BatchDone(done)
           THEN UNCHANGED <<faults, phase>>
           ELSE /\ Fault
                /\ phase' = IF status' = "failed" THEN "threw" ELSE phase
        /\ UNCHANGED <<startKey, more, page, counted, token, cursor, failed, rootTurn, cleared>>

\* An error that leaves batchWrite ends the walk.
Error ==
    \E done \in SUBSET unsent :
        /\ Raise(done)
        /\ Effect(done)
        /\ Fault
        /\ phase' = "threw"
        /\ UNCHANGED <<startKey, more, page, counted, token, cursor, failed, rootTurn, cleared>>

Pause ==
    /\ Wake
    /\ Untouched
    /\ UNCHANGED <<walkVars, failed, rootTurn, cleared, faults>>

-----------------------------------------------------------------------------
\* Single rows: those of RowByRow operations, and the root.

Write(i, what) == dst' = [dst EXCEPT ![i] = what] /\ UNCHANGED <<opVars, src>>

\* mapFn drops what is left of the page; only cloneWithOverwrite counts that.
PassOver ==
    /\ phase = "page"
    /\ RowByRow
    /\ page # {} /\ page \cap Kept = {}
    /\ page' = {}
    /\ counted' = IF op = "cloneWithOverwrite" THEN counted + Cardinality(page) ELSE counted
    /\ Untouched
    /\ UNCHANGED <<phase, startKey, more, token, cursor, failed, rootTurn, cleared, faults, loop>>

\* The next row to be written by itself.
Turn(i) ==
    IF i = Self
    THEN Cloning /\ rootTurn /\ phase = "read" /\ i \in src \cap Kept
    ELSE /\ RowByRow /\ phase = "page"
         /\ i \in page \cap Kept /\ \A j \in page \cap Kept : i <= j

\* The row has been written, or not; the walk goes on.
Counted(i) ==
    /\ counted' = IF i = Self THEN counted ELSE counted + 1
    /\ page' = page \ {i}
    /\ rootTurn' = FALSE
    /\ cleared' = FALSE
    /\ UNCHANGED <<phase, startKey, more, token, cursor, loop>>

\* cloneWithOverwrite: the destination is deleted ...
ClearRow(i) ==
    /\ Turn(i)
    /\ op = "cloneWithOverwrite" /\ ~cleared
    /\ Write(i, "free")
    /\ cleared' = TRUE
    /\ UNCHANGED <<walkVars, failed, rootTurn, faults, loop>>

\* ... before the copy is put.
Puttable(i) == Turn(i) /\ (op = "cloneWithOverwrite" => cleared)

\* attribute_not_exists or attribute_exists of _putWithCondition; the other
\* clones put without a condition.
Condition(i) ==
    /\ op = "cloneIfNotExists" => dst[i] = "free"
    /\ op = "cloneIfExists" => dst[i] # "free"

PutRow(i) ==
    /\ Puttable(i)
    /\ IF Condition(i) THEN Write(i, "copy") ELSE Untouched
    /\ Counted(i)
    /\ UNCHANGED <<failed, faults>>

\* A failed delete or put is reported, and the walk goes on; it may hide a
\* write that took place, but not with a condition: there only failures that
\* concern the row alone are reported ...
RowFails(i) ==
    /\ Turn(i)
    /\ Fault
    /\ failed' = failed \cup {i}
    /\ Counted(i)
    /\ \/ Untouched
       \/ ~Conditional /\ Write(i, IF Puttable(i) THEN "copy" ELSE "free")

\* ... and any other error leaves the call.
PutRowThrows(i) ==
    /\ Puttable(i)
    /\ Conditional
    /\ Fault
    /\ Throw
    /\ Untouched \/ (Condition(i) /\ Write(i, "copy"))
    /\ UNCHANGED <<failed, rootTurn, cleared, loop>>

\* There is no root to copy, or mapFn drops it.
NoRoot ==
    /\ Cloning /\ rootTurn /\ phase = "read"
    /\ Self \notin src \cap Kept
    /\ rootTurn' = FALSE
    /\ Untouched
    /\ UNCHANGED <<walkVars, failed, cleared, faults, loop>>

\* deleteAllUnder: the walk has come to its end, and the root is deleted; it
\* may be absent, or the delete fail before or after its effect.
DeleteRoot ==
    /\ cascade /\ op = "delete"
    /\ status = "idle"
    /\ PageHandled
    /\ WalkDone
    /\ phase' = "returned"
    /\ \/ src' = src \ {Self} /\ UNCHANGED <<failed, faults>>
       \/ src' \in {src, src \ {Self}} /\ failed' = failed \cup {Self} /\ Fault
    /\ UNCHANGED <<opVars, dst, rootTurn, cleared, loop>>
    /\ UNCHANGED <<startKey, more, page, counted, token, cursor>>

Next ==
    \/ Call \/ CallAgain \/ CallNeedlessly \/ Read \/ EndPage \/ Crash
    \/ NextSlice \/ Answer \/ Error \/ Pause
    \/ PassOver \/ NoRoot \/ DeleteRoot
    \/ \E i \in Items : ClearRow(i) \/ PutRow(i) \/ RowFails(i) \/ PutRowThrows(i)

\* The table answers and timers fire; the caller passes cursors on, and
\* repeats a call that threw.
Spec ==
    /\ Init /\ [][Next]_vars
    /\ WF_vars(\/ Call \/ CallAgain \/ Read \/ EndPage \/ NextSlice \/ Answer \/ Pause
               \/ PassOver \/ NoRoot \/ DeleteRoot
               \/ \E i \in Items : ClearRow(i) \/ PutRow(i))

-----------------------------------------------------------------------------
Scope == IF cascade THEN Items ELSE Rows

\* Row i has got what the operation is for, or needs nothing.
Handled(i) ==
    CASE op = "delete" -> i \notin src
      [] op = "move" -> i \notin src \/ i \in Dropped
      [] op \in {"clone", "cloneWithOverwrite"} -> i \notin src \/ i \in Dropped \/ dst[i] = "copy"
      [] op = "cloneIfNotExists" -> i \notin src \/ i \in Dropped \/ dst[i] # "free"
      [] op = "cloneIfExists" -> i \notin src \/ i \in Dropped \/ dst[i] # "other"

\* A subtree clone was stopped by the cap on its first call, without a cursor.
CutShort == Complete /\ MergesRoot /\ more /\ OverBudget

\* Rows that nobody is told of.
Unreached(i) == CutShort /\ i > startKey

\* A call that returns without a cursor has handled every row but those it, or a call
\* it resumes, reported as failed, through whatever throws and resumptions
\* (mass/run-paged.js:50-59).  The exception is the first call of a subtree clone
\* when it comes to maxItems: what is behind its last page is left, and the
\* envelope does not tell (adapter.js:1784).
FinishedHandledAll ==
    Complete => \A i \in Scope : Unreached(i) \/ Handled(i) \/ i \in failed

\* The row is gone and no request will write it any more.
Lost(i) ==
    /\ i \notin src
    /\ dst[i] # "copy"
    /\ ~(status \in {"send", "wait"} /\ <<"put", i>> \in unsent)

\* A move loses a row only when the error of its batch reaches the caller: a
\* call that returns lost none, in whatever order the table processed the puts
\* and the deletes (adapter.js:2196, batch-write.js:18-19).
LostOnlyByThrow ==
    [][op = "move" =>
        \A i \in Rows : ~Lost(i) /\ Lost(i)' => phase' = "threw"]_vars

\* What a mass operation is to leave alone: a row that mapFn drops keeps its
\* source and its destination (adapter.js:2181-2182); a destination that
\* ifNotExists or ifExists rules out stays as it was (adapter.js:2113).
Spared(i) ==
    \/ i \in Dropped
    \/ op = "cloneIfNotExists" /\ i \in Taken
    \/ op = "cloneIfExists" /\ i \notin Taken

SparedStay ==
    op # "delete" =>
        /\ Dropped \cap Rows \subseteq src
        /\ \A i \in Items : Spared(i) => dst[i] = IF i \in Taken THEN "other" ELSE "free"

\* The root is copied ahead of its descendants, unless there is none, mapFn
\* drops it, its place is taken or its failure is reported; it is deleted
\* behind all of them (adapter.js:1743-1749, 1773-1778).
RootInOrder ==
    [][cascade =>
        /\ Cloning /\ dst' # dst /\ dst'[Self] = dst[Self]
              => Handled(Self) \/ Self \in failed
        /\ Self \in src /\ Self \notin src' => src \cap Rows = {}]_vars

\* A caller that repeats what threw and resumes what gave it a cursor ends with
\* every row handled or reported, when faults are finitely many, or with a subtree
\* clone that the cap has cut short (run-paged.js:40-60, adapter.js:1784).
EventuallyHandled ==
    <>[](\A i \in Scope : Unreached(i) \/ Handled(i) \/ i \in failed)
=============================================================================
