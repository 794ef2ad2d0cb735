---------------------------- MODULE PaginateList ----------------------------
(***************************************************************************)
(* paginateList and paginateListFiltered (src/mass/paginate-list.js): the  *)
(* window of a Query or Scan from `offset` on, `limit` long, and the total *)
(* of its matches, put together from pages.  DynamoDB cuts a page by size, *)
(* after Limit rows at the latest; with a FilterExpression the rows that   *)
(* do not match are gone from the page.  The range does not change during  *)
(* the call.                                                               *)
(***************************************************************************)
EXTENDS Integers, Sequences, FiniteSets

CONSTANTS
    N,          \* rows of the range
    Matching,   \* rows that match params.FilterExpression, if it is given
    MinLimit, MaxLimit,     \* minLimit, maxLimit
    Offsets, Limits         \* options.offset and options.limit, floored

ASSUME WindowAssumption ==
    /\ N \in Nat
    /\ Matching \subseteq 1..N
    /\ MinLimit \in Nat \ {0} /\ MaxLimit \in Nat \ {0}
    /\ Offsets \subseteq Int /\ Limits \subseteq Int

VARIABLES
    filtered, offset, limit, needTotal,     \* as the call sees them
    cut,        \* where the size limit ends a page that starts after a row
    step,       \* the loop that runs
    pos,        \* ExclusiveStartKey of the next request; 0 is none
    skipped,    \* matches passed over
    total,      \* matches counted
    result      \* rows collected

vars == <<filtered, offset, limit, needTotal, cut, step, pos, skipped, total, result>>

Match(i) == ~filtered \/ i \in Matching

\* Matches among the first `row` rows.
UpTo(row) == Cardinality({i \in 1..row : Match(i)})

\* The matches of the range, in its order.
Matched == [k \in 1..UpTo(N) |-> CHOOSE i \in 1..N : Match(i) /\ UpTo(i) = k]

\* The matches of the rows after `start`, up to `end`.
Matches(start, end) == SubSeq(Matched, UpTo(start) + 1, UpTo(end))

Lesser(a, b) == IF a < b THEN a ELSE b

\* Array.prototype.slice: the items after the first `from` of them, up to the
\* to-th; an end beyond the sequence is the end of the sequence.
Slice(s, from, to) == SubSeq(s, from + 1, Lesser(to, Len(s)))

TypeOK ==
    /\ filtered \in BOOLEAN /\ offset \in Int /\ limit \in Int /\ needTotal \in BOOLEAN
    /\ cut \in [0..N -> 0..N]
    /\ step \in {"count", "skip", "collect", "rest", "done"}
    /\ pos \in 0..N
    /\ skipped \in Nat
    /\ total \in 0..UpTo(N)
    /\ result \in Seq(1..N)

\* Ends of a page that starts after row `start` and evaluates `most` rows.  The
\* filtered variant counts on a page that is read twice ending twice at the
\* same row; the other one does not.
Ends(start, most) ==
    IF start = N THEN {N}
    ELSE IF filtered THEN {Lesser(cut[start], start + most)}
    ELSE (start + 1)..Lesser(start + most, N)

\* LastEvaluatedKey is set when rows may follow; after the last row of the
\* range it may be set all the same.
More(start, end) ==
    IF end < N THEN {TRUE} ELSE IF start = N THEN {FALSE} ELSE BOOLEAN

\* Without a window only the total is asked for: getTotal counts from the head.
FirstStep ==
    IF offset < 0 \/ limit <= 0 THEN IF needTotal THEN "rest" ELSE "done"
    ELSE IF offset = 0 THEN "collect"
    ELSE IF filtered \/ offset > MinLimit THEN "count"
    ELSE "skip"

\* Where pages may end by size: a page holds at least one row.
Cuts == {c \in [0..N -> 1..N] : \A p \in 0..N : IF p = N THEN c[p] = N ELSE p < c[p]}

Init ==
    /\ filtered \in BOOLEAN
    /\ offset \in Offsets
    /\ limit \in {Lesser(MaxLimit, l) : l \in Limits}
    /\ needTotal \in BOOLEAN
    /\ cut \in IF filtered THEN Cuts ELSE {[p \in 0..N |-> N]}
    /\ step = FirstStep
    /\ pos = 0
    /\ skipped = 0
    /\ total = 0
    /\ result = <<>>

Fixed == UNCHANGED <<filtered, offset, limit, needTotal, cut>>

\* The next request starts where the page ended, unless it was the last.
Advance(end, more, next) ==
    /\ pos' = end
    /\ step' = IF more THEN next ELSE "done"

\* Skip most of the offset with COUNT requests: stop MinLimit short of it.
CountOffset ==
    /\ step = "count" /\ ~filtered
    /\ IF offset - skipped > MinLimit
       THEN \E end \in Ends(pos, offset - skipped) : \E more \in More(pos, end) :
               LET n == Len(Matches(pos, end))
               IN  /\ total' = total + n
                   /\ skipped' = skipped + n
                   /\ Advance(end, more, "count")
       ELSE /\ step' = IF skipped < offset THEN "skip" ELSE "collect"
            /\ UNCHANGED <<pos, skipped, total>>
    /\ UNCHANGED result
    /\ Fixed

\* page.slice(from, from + limit)
Window(page, from) == Slice(page, from, from + limit)

\* Skip the rest of it on pages that are read; the last one may hold the head
\* of the window.
SkipOffset ==
    /\ step = "skip"
    /\ \E end \in Ends(pos, MinLimit) : \E more \in More(pos, end) :
          LET page == Matches(pos, end)
              found == offset - skipped < Len(page)
          IN  /\ total' = total + Len(page)
              /\ result' = IF found THEN Window(page, offset - skipped) ELSE result
              /\ skipped' = IF found THEN offset ELSE skipped + Len(page)
              /\ Advance(end, more, IF skipped' < offset THEN "skip" ELSE "collect")
    /\ Fixed

\* Mutation: the page that overshoots the offset is counted by both loops.
OvershootCounted(n) == n

\* What a COUNT page of the filtered variant adds: a page that overshoots the
\* offset is left to the listing.
Overshoot(n) == IF skipped + n > offset THEN 0 ELSE n

CountFiltered ==
    /\ step = "count" /\ filtered
    /\ IF skipped < offset
       THEN \E end \in Ends(pos, N) : \E more \in More(pos, end) :
               LET n == Len(Matches(pos, end))
               IN  /\ total' = total + Overshoot(n)
                   /\ IF skipped + n > offset
                      THEN /\ step' = "collect"
                           /\ UNCHANGED <<pos, skipped>>
                      ELSE /\ skipped' = skipped + n
                           /\ Advance(end, more, "count")
       ELSE step' = "collect" /\ UNCHANGED <<pos, skipped, total>>
    /\ UNCHANGED result
    /\ Fixed

\* What of a page still fits into the window.
Room(page) == Slice(page, 0, limit - Len(result))

\* Rows to evaluate for what is missing.
Ask == IF filtered THEN N
       ELSE IF limit - Len(result) < MinLimit THEN MinLimit
       ELSE limit - Len(result)

\* Only the filtered variant comes here with part of the offset still to skip:
\* its first non-empty page is taken to hold the head of the window.
Collect ==
    /\ step = "collect"
    /\ IF Len(result) < limit
       THEN \E end \in Ends(pos, Ask) : \E more \in More(pos, end) :
               LET page == Matches(pos, end)
                   head == page # <<>> /\ skipped < offset
               IN  /\ total' = total + Len(page)
                   /\ result' = IF head THEN Window(page, offset - skipped)
                                ELSE result \o Room(page)
                   /\ skipped' = IF head THEN offset ELSE skipped
                   /\ Advance(end, more, "collect")
       ELSE /\ step' = IF needTotal THEN "rest" ELSE "done"
            /\ UNCHANGED <<pos, skipped, total, result>>
    /\ Fixed

\* Count the rest.
CountRest ==
    /\ step = "rest"
    /\ \E end \in Ends(pos, N) : \E more \in More(pos, end) :
          /\ total' = total + Len(Matches(pos, end))
          /\ Advance(end, more, "rest")
    /\ UNCHANGED <<skipped, result>>
    /\ Fixed

Next == CountOffset \/ SkipOffset \/ CountFiltered \/ Collect \/ CountRest

-----------------------------------------------------------------------------
Asked == offset >= 0 /\ limit > 0

\* However the pages are cut, `data` is the window the caller asked for, no match
\* twice and none left out, and the total counts every match once, through the
\* loops that skip, collect and count (paginate-list.js:31-98, 134-164).
PageIsTrue ==
    step = "done" =>
        /\ result = IF Asked THEN Slice(Matched, offset, offset + limit) ELSE <<>>
        /\ needTotal => total = UpTo(N)
=============================================================================
