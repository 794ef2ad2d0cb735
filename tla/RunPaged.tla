------------------------------ MODULE RunPaged ------------------------------
(***************************************************************************)
(* The resumable walk under the mass operations (src/mass/run-paged.js,    *)
(* src/mass/read-list.js, src/mass/cursor.js).  The rows that the query    *)
(* can return stand in key order at the positions 1..Last; a cursor is the *)
(* position of the LastEvaluatedKey, 0 is no cursor.  The operations that  *)
(* walk handle the rows of a page and add to the count.                    *)
(***************************************************************************)
EXTENDS Integers, FiniteSets

CONSTANTS
    Last,       \* rows of the range
    PageSize,   \* most rows a page holds
    MaxItems    \* options.maxItems; 0 when there is no cap

ASSUME RangeAssumption ==
    Last \in Nat /\ PageSize \in Nat \ {0} /\ MaxItems \in Nat

VARIABLES
    phase,      \* where the call is
    startKey,   \* ExclusiveStartKey of the next page
    more,       \* the last page came with a LastEvaluatedKey
    page,       \* rows of the page still to be handled
    counted,    \* processed + skipped + failed + conflicts
    token,      \* options.resumeToken of the call
    cursor      \* cursor of the envelope that was returned

walkVars == <<phase, startKey, more, page, counted, token, cursor>>

Rows == 1..Last

WalkTypeOK ==
    /\ phase \in {"uncalled", "read", "page", "returned", "threw"}
    /\ startKey \in 0..Last
    /\ more \in BOOLEAN
    /\ page \subseteq Rows
    /\ counted \in Nat
    /\ token \in 0..Last
    /\ cursor \in 0..Last

WalkInit ==
    /\ phase = "uncalled"
    /\ startKey = 0
    /\ more = FALSE
    /\ page = {}
    /\ counted = 0
    /\ token = 0
    /\ cursor = 0

\* Mutation: the resume token is not looked at.
StartOver(from) == 0

StartAt(from) == from

\* The operation is called with `from` as its resumeToken.
CallFrom(from) ==
    /\ phase' = "read"
    /\ startKey' = StartAt(from)
    /\ token' = from
    /\ cursor' = 0
    /\ counted' = 0
    /\ page' = {}
    /\ more' = FALSE

FirstCall == phase = "uncalled" /\ CallFrom(0)

\* The caller passes on the cursor it got.
Resume == phase = "returned" /\ cursor # 0 /\ CallFrom(cursor)

\* The caller repeats the call that threw.
Repeat == phase = "threw" /\ CallFrom(token)

\* The caller repeats a call that returned.
RepeatReturned == phase = "returned" /\ CallFrom(token)

After(present, key) == {i \in present : i > key}

\* A page that ends the range: no LastEvaluatedKey.
ReadLastPage(present) ==
    /\ phase = "read"
    /\ Cardinality(After(present, startKey)) <= PageSize
    /\ page' = After(present, startKey)
    /\ more' = FALSE
    /\ phase' = "page"
    /\ UNCHANGED <<startKey, counted, token, cursor>>

\* A page cut short by a limit; it may also be the last one of the range.
ReadFullPage(present) ==
    /\ phase = "read"
    /\ \E end \in After(present, startKey) :
        /\ page' = {i \in After(present, startKey) : i <= end}
        /\ Cardinality(page') <= PageSize
        /\ startKey' = end
    /\ more' = TRUE
    /\ phase' = "page"
    /\ UNCHANGED <<counted, token, cursor>>

ReadPage(present) == ReadLastPage(present) \/ ReadFullPage(present)

PageHandled == phase = "page" /\ page = {}

Exhausted == ~more

OverBudget == MaxItems # 0 /\ counted >= MaxItems

\* The range is exhausted: the envelope has no cursor.
Finish ==
    /\ PageHandled
    /\ Exhausted
    /\ phase' = "returned"
    /\ UNCHANGED <<startKey, more, page, counted, token, cursor>>

\* Mutation: the cursor skips a row.
CursorAhead == IF startKey < Last THEN startKey + 1 ELSE startKey

Cursor == startKey

\* The cap is reached at the end of a page.
StopAtBudget ==
    /\ PageHandled
    /\ ~Exhausted
    /\ OverBudget
    /\ cursor' = Cursor
    /\ phase' = "returned"
    /\ UNCHANGED <<startKey, more, page, counted, token>>

NextPage ==
    /\ PageHandled
    /\ ~Exhausted
    /\ ~OverBudget
    /\ phase' = "read"
    /\ UNCHANGED <<startKey, more, page, counted, token, cursor>>

\* An error of the read or of the handler leaves the walk; what was counted
\* and the cursor are gone.
Throw ==
    /\ phase \in {"read", "page"}
    /\ phase' = "threw"
    /\ UNCHANGED <<startKey, more, page, counted, token, cursor>>

\* The call returned an envelope without a cursor.
Complete == phase = "returned" /\ cursor = 0
=============================================================================
