--------------------------- MODULE SubtreeRename ---------------------------
(***************************************************************************)
(* rename and moveAllUnder / moveAllUnderBy (src/adapter/adapter.js): a    *)
(* walk that moves its rows one by one, the put at the destination before  *)
(* the delete at the source.  moveAllUnder goes on to move the row at the  *)
(* root of the subtree, which the walk does not return.  Each row has a    *)
(* destination of its own outside the range.  Any request may fail, before *)
(* or after it took effect, and the process may die between two requests.  *)
(***************************************************************************)
EXTENDS RunPaged

CONSTANTS
    Dropped,    \* rows for which mapFn returns a falsy value
    Taken,      \* rows whose destination holds another item
    MaxFaults   \* bound on failures and on repeated calls

ASSUME RenameAssumption == MaxFaults \in Nat

Self == 0       \* the row at the root
None == -1
Items == {Self} \cup Rows

VARIABLES
    cascade,    \* the operation is moveAllUnder, not rename
    src,        \* rows still at the source
    dst,        \* what stands at each row's destination
    cur,        \* row whose put went through, to be deleted next; or None
    processed, skipped, failed,     \* rows in each bucket of the envelope
    selfTurn,   \* the walk is over and the root has its turn
    faults      \* failures and repeated calls so far

tableVars == <<src, dst>>
bucketVars == <<processed, skipped, failed>>
vars == <<cascade, tableVars, bucketVars, cur, selfTurn, faults, walkVars>>

TypeOK ==
    /\ WalkTypeOK
    /\ cascade \in BOOLEAN
    /\ src \subseteq Items
    /\ dst \in [Items -> {"free", "other", "copy"}]
    /\ cur \in Items \cup {None}
    /\ processed \subseteq Items /\ skipped \subseteq Items /\ failed \subseteq Items
    /\ selfTurn \in BOOLEAN
    /\ faults \in Nat

Init ==
    /\ WalkInit
    /\ cascade \in BOOLEAN
    /\ src = Items
    /\ dst = [i \in Items |-> IF i \in Taken THEN "other" ELSE "free"]
    /\ cur = None
    /\ processed = {} /\ skipped = {} /\ failed = {}
    /\ selfTurn = FALSE
    /\ faults = 0

Fault == faults < MaxFaults /\ faults' = faults + 1

Fresh ==
    /\ processed' = {} /\ skipped' = {} /\ failed' = {}
    /\ cur' = None
    /\ selfTurn' = FALSE
    /\ UNCHANGED tableVars

Call == (FirstCall \/ Resume \/ Repeat) /\ Fresh /\ UNCHANGED faults

CallNeedlessly == RepeatReturned /\ Fresh /\ Fault

Read ==
    /\ ReadPage(src \cap Rows)
    /\ UNCHANGED <<tableVars, bucketVars, cur, selfTurn, faults>>

\* The row of the page, or the root, whose turn it is; handled when its bucket
\* is known.
Turn(i) ==
    /\ phase = "page"
    /\ IF selfTurn THEN i = Self ELSE i \in page /\ \A j \in page : i <= j

\* The row goes into a bucket; after the root the call returns.
Bucket(i) ==
    /\ page' = page \ {i}
    /\ counted' = counted + 1
    /\ cur' = None
    /\ phase' = IF selfTurn THEN "returned" ELSE phase
    /\ UNCHANGED <<startKey, more, token, cursor, selfTurn>>

Skip(i) ==
    /\ skipped' = skipped \cup {i}
    /\ Bucket(i)
    /\ UNCHANGED <<processed, failed>>

Fail(i) ==
    /\ failed' = failed \cup {i}
    /\ Bucket(i)
    /\ Fault
    /\ UNCHANGED <<processed, skipped>>

Written(i) == dst' = [dst EXCEPT ![i] = "copy"]

\* Mutation: the put has no attribute_not_exists condition.
VacantAlways(i) == TRUE

\* attribute_not_exists of _checkExistence(params, true).
Vacant(i) == dst[i] = "free"

\* mapFn drops the row.
Drop(i) ==
    /\ Turn(i) /\ cur = None
    /\ i \in Dropped
    /\ Skip(i)
    /\ UNCHANGED <<tableVars, faults>>

Put(i) ==
    /\ Turn(i) /\ cur = None
    /\ i \notin Dropped
    /\ Vacant(i)
    /\ Written(i)
    /\ cur' = i
    /\ UNCHANGED <<src, bucketVars, selfTurn, faults, walkVars>>

\* The condition fails: the row is skipped.
PutCollides(i) ==
    /\ Turn(i) /\ cur = None
    /\ i \notin Dropped
    /\ ~Vacant(i)
    /\ Skip(i)
    /\ UNCHANGED <<tableVars, faults>>

\* The put fails otherwise; a lost response hides a put that took place.
PutFails(i) ==
    /\ Turn(i) /\ cur = None
    /\ i \notin Dropped
    /\ UNCHANGED dst \/ (Vacant(i) /\ Written(i))
    /\ Fail(i)
    /\ UNCHANGED src

\* Mutation: the delete follows a failed put too.
DeletableAny(i) == Turn(i) /\ i \notin Dropped

Deletable(i) == cur = i

Delete(i) ==
    /\ Turn(i) /\ Deletable(i)
    /\ src' = src \ {i}
    /\ processed' = processed \cup {i}
    /\ Bucket(i)
    /\ UNCHANGED <<dst, skipped, failed, faults>>

DeleteFails(i) ==
    /\ Turn(i) /\ Deletable(i)
    /\ src' \in {src, src \ {i}}
    /\ Fail(i)
    /\ UNCHANGED dst

\* Mutation: the root moves even though the cap stopped the walk.
WalkDoneEarly == Exhausted \/ OverBudget

WalkDone == Exhausted

\* Mutation: the root is looked up at its new key.
SelfPresentAtDst == dst[Self] # "free"

SelfPresent == Self \in src

\* moveAllUnder: the walk has come to its end, and the root is read ...
SelfTurn ==
    /\ cascade /\ ~selfTurn
    /\ PageHandled
    /\ WalkDone
    /\ selfTurn' = TRUE
    /\ phase' = IF SelfPresent THEN phase ELSE "returned"
    /\ UNCHANGED <<tableVars, bucketVars, cur, faults>>
    /\ UNCHANGED <<startKey, more, page, counted, token, cursor>>

EndPage ==
    /\ ~selfTurn
    /\ (~cascade /\ Finish) \/ StopAtBudget \/ NextPage
    /\ UNCHANGED <<tableVars, bucketVars, cur, selfTurn, faults>>

\* The process dies, or the read of a page fails.
Crash ==
    /\ Throw
    /\ Fault
    /\ UNCHANGED <<tableVars, bucketVars, cur, selfTurn>>

Handle(i) ==
    \/ Drop(i) \/ Put(i) \/ PutCollides(i) \/ PutFails(i)
    \/ Delete(i) \/ DeleteFails(i)

Next ==
    /\ \/ Call \/ CallNeedlessly \/ Read \/ SelfTurn \/ EndPage \/ Crash
       \/ \E i \in Items : Handle(i)
    /\ UNCHANGED cascade

\* Requests are answered, and the caller passes cursors on and repeats a call
\* that threw.
Progress ==
    /\ \/ Call \/ Read \/ SelfTurn \/ EndPage
       \/ \E i \in Items : Drop(i) \/ Put(i) \/ PutCollides(i) \/ Delete(i)
    /\ UNCHANGED cascade

Spec == Init /\ [][Next]_vars /\ WF_vars(Progress)

-----------------------------------------------------------------------------
\* Constructive before destructive (adapter.js:1535): whatever fails, throws
\* or is repeated, a row is at its source or its copy is at the destination.
NoItemLost == \A i \in Items : i \in src \/ dst[i] = "copy"

\* An occupied destination keeps its item, and the row its source.
OccupiedKept == \A i \in Taken \cap Items : dst[i] = "other" /\ i \in src

\* The rows the operation is to move.
Scope == IF cascade THEN Items ELSE Rows

\* The envelope tells the truth: `processed` rows have moved, and when a call
\* has walked the whole range what is still at the source is in `skipped` or
\* `failed` (adapter.js:1823-1861).
EnvelopeTellsAll ==
    /\ \A i \in processed : i \notin src /\ dst[i] = "copy"
    /\ Complete /\ token = 0 => src \cap Scope \subseteq skipped \cup failed

\* The root is copied only when the walk has no row ahead of it: every row
\* still at the source was skipped or failed by this call or lies before its
\* resume token (adapter.js:1812-1817).
RootLast ==
    [][dst[Self] # "copy" /\ dst'[Self] = "copy" =>
        {i \in src \cap Rows : i > token} \subseteq skipped \cup failed]_vars

\* A caller that resumes what stopped and repeats what threw comes to the end
\* of the range (run-paged.js:40-60).
EventuallyComplete == <>[]Complete
=============================================================================
